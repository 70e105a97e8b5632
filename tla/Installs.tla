------------------------------ MODULE Installs ------------------------------
(***************************************************************************)
(* Previewing an archive and installing it: the extractions the daemon     *)
(* keeps for previews and the leases that hold them (preview_cache.go),    *)
(* the steps of an installation, new, merged into a mod or in its place    *)
(* (install.go, download/install.go, merge.go), and the outcomes a client  *)
(* that lost its connection can ask for (install_outcome.go).              *)
(*                                                                         *)
(* One mod name and one archive; the files of either are model values.     *)
(***************************************************************************)
EXTENDS Naturals, Sequences, FiniteSets, SequencesExt

CONSTANTS
    Clients,        \* goroutines serving requests
    Requests,       \* client request ids
    Archive,        \* files of the archive
    Before,         \* files of the mod before anything is installed
    MaxPreviews,    \* previewCache.maxLen
    MaxOutcomes,    \* installOutcomeLimit
    MaxExtractions, \* bound on the extractions made
    MaxRequests,    \* bound on the installations asked for
    MaxKills,       \* bound on the ends of the daemon
    None

VARIABLES
    disk,           \* extraction -> "none", "partial" or "whole"
    previews,       \* extraction -> [leases, pendingEvict] while it is cached
    order,          \* cached extractions, the one used longest ago first
    doomed,         \* extractions taken out of the cache and still to be removed
    left,           \* extractions an earlier daemon left that are too young to sweep
    mod,            \* file -> version in the mod's folder, None without a folder
    flag,           \* the archive's uninstalled flag
    outcome,        \* request -> its record, or None
    did,            \* request -> what it has changed
    op,             \* client -> the request it serves
    made, asked, kills
vars == <<disk, previews, order, doomed, left, mod, flag, outcome, did, op, made, asked, kills>>
disks == <<disk, previews, order, doomed, left, made>>
mods == <<mod, flag>>
counts == <<asked, kills>>

-----------------------------------------------------------------------------
Extractions == 1..MaxExtractions
Contents == [Before \cup Archive -> {"old", "new", "none"}]
InstallsAssumption ==
    /\ MaxExtractions \in Nat /\ None \notin Extractions \cup Contents
    /\ None \notin {"running", "succeeded", "failed", "cancelled"}
Nothing == [f \in Before \cup Archive |-> "none"]
Original == [f \in Before \cup Archive |-> IF f \in Before THEN "old" ELSE "none"]
Modes == {"new", "merge", "replace"}
Idle == [kind |-> "idle"]
Undone == [published |-> 0, cleared |-> FALSE]
Cached == DOMAIN previews
Busy(c) == op[c].kind # "idle"
At(c, kind, pc) == op[c].kind = kind /\ op[c].pc = pc
Go(c, pc) == op' = [op EXCEPT ![c].pc = pc]
Done(c) == op' = [op EXCEPT ![c] = Idle]
Without(f, s) == [x \in DOMAIN f \ s |-> f[x]]
Removed(xs) == [x \in Extractions |-> IF x \in xs THEN "none" ELSE disk[x]]
Used(x) == SelectSeq(order, LAMBDA y : y # x) \o <<x>>
Forgotten(xs) == SelectSeq(order, LAMBDA y : y \notin xs)

-----------------------------------------------------------------------------
(* The cache of previews.                                                  *)

\* Mutant: the oldest preview goes even when somebody reads it.
NotMarked == {x \in Cached : ~previews[x].pendingEvict}
Unleased == {x \in Cached : previews[x].leases = 0 /\ ~previews[x].pendingEvict}
Leased == {x \in Cached : previews[x].leases > 0}
Marked(xs) == [x \in Cached |-> [previews[x] EXCEPT !.pendingEvict = @ \/ x \in xs]]

\* PreviewInstall: extract, look through the files, keep the extraction.
PreviewInstall(c) ==
    /\ ~Busy(c) /\ made < MaxExtractions
    /\ made' = made + 1 /\ disk' = [disk EXCEPT ![made + 1] = "partial"]
    /\ op' = [op EXCEPT ![c] = [kind |-> "preview", pc |-> "extract", x |-> made + 1]]
    /\ UNCHANGED <<previews, order, doomed, left, mods, outcome, did, counts>>
Extracted(c) ==
    /\ At(c, "preview", "extract")
    /\ disk' = [disk EXCEPT ![op[c].x] = "whole"] /\ Go(c, "put")
    /\ UNCHANGED <<previews, order, doomed, left, made, mods, outcome, did, counts>>
PreviewFails(c) ==
    /\ op[c].kind = "preview"
    /\ disk' = Removed({op[c].x}) /\ Done(c)
    /\ UNCHANGED <<previews, order, doomed, left, made, mods, outcome, did, counts>>
\* evictOldestUnleasedLocked as long as the cache is full and something can go.
Evicted ==
    LET free == {i \in DOMAIN order : order[i] \in Unleased}
        over == IF Len(order) < MaxPreviews THEN 0 ELSE Len(order) - MaxPreviews + 1
    IN  {order[i] : i \in {i \in free : Cardinality({j \in free : j <= i}) <= over}}
Put(c) ==
    /\ At(c, "preview", "put")
    /\ LET x == op[c].x
           kept == Without(previews, Evicted)
       IN  /\ previews' = [y \in DOMAIN kept \cup {x} |->
                  IF y = x THEN [leases |-> 0, pendingEvict |-> FALSE] ELSE kept[y]]
           /\ order' = Forgotten(Evicted) \o <<x>>
           /\ disk' = Removed(Evicted)
    /\ Done(c)
    /\ UNCHANGED <<doomed, left, made, mods, outcome, did, counts>>

\* Taken out of the map under the lock, removed from disk after it.
Drop(xs) == /\ previews' = Without(Marked(Leased \cap xs), xs \ Leased)
            /\ order' = Forgotten(xs \ Leased)
            /\ doomed' = doomed \cup (xs \ Leased)
DiscardPreview(x) ==
    /\ x \in Cached
    /\ Drop({x})
    /\ UNCHANGED <<disk, left, made, mods, outcome, did, op, counts>>
\* Whatever was not used for the time to live.
Sweep ==
    /\ \E n \in 1..Len(order) : Drop({order[i] : i \in 1..n} \cap Cached)
    /\ UNCHANGED <<disk, left, made, mods, outcome, did, op, counts>>
RemoveDoomed ==
    /\ \E x \in doomed : disk' = Removed({x}) /\ doomed' = doomed \ {x}
    /\ UNCHANGED <<previews, order, left, made, mods, outcome, did, op, counts>>

-----------------------------------------------------------------------------
(* Outcomes.                                                               *)

Running(r) == outcome[r] # None /\ outcome[r] = "running"
Registered == {r \in Requests : outcome[r] # None}
\* The record goes when its time is over or room is needed; one that runs stays.
Expire(r) ==
    /\ outcome[r] # None /\ ~Running(r)
    /\ outcome' = [outcome EXCEPT ![r] = None] /\ did' = [did EXCEPT ![r] = Undone]
    /\ UNCHANGED <<disks, mods, op, counts>>
MayRegister(r) == outcome[r] = None /\ Cardinality(Registered) < MaxOutcomes
State(err, cancelled, published) ==
    CASE err = "none" -> "succeeded"
      [] err = "stopped" /\ cancelled /\ ~published -> "cancelled"
      [] OTHER -> "failed"

-----------------------------------------------------------------------------
(* Install.                                                                *)

\* StartInstall: from a cached preview, or (x = None) extracting the archive itself.
StartInstall(c, r, mode, x) ==
    /\ ~Busy(c) /\ asked < MaxRequests /\ MayRegister(r)
    /\ asked' = asked + 1
    /\ outcome' = [outcome EXCEPT ![r] = "running"]
    /\ op' = [op EXCEPT ![c] = [kind |-> "install", pc |-> "wait", r |-> r, mode |-> mode, x |-> x,
        leased |-> FALSE, cancelled |-> FALSE, todo |-> Archive, got |-> Nothing, linked |-> {},
        staged |-> Nothing, published |-> FALSE, err |-> "none"]]
    /\ UNCHANGED <<disks, mods, did, kills>>
\* The client goes away or asks to stop.
Cancel(c) ==
    /\ op[c].kind = "install" /\ ~op[c].cancelled
    /\ op' = [op EXCEPT ![c].cancelled = TRUE]
    /\ UNCHANGED <<disks, mods, outcome, did, counts>>
Stops(c) == op[c].cancelled
Fail(c, err) == op' = [op EXCEPT ![c].err = err, ![c].pc = "release"]
\* The places that look whether the request was stopped.
Stop(c) ==
    /\ op[c].kind = "install" /\ op[c].pc \in {"wait", "copy", "rename", "swap"} /\ Stops(c)
    /\ Fail(c, "stopped")
    /\ UNCHANGED <<disks, mods, outcome, did, counts>>
\* Any other failure before the mod is changed.
Fault(c) ==
    /\ op[c].kind = "install" /\ op[c].pc \in {"wait", "copy", "rename", "merge", "swap"}
    /\ Fail(c, "error")
    /\ UNCHANGED <<disks, mods, outcome, did, counts>>

\* lockMods is held from here until the outcome is known.
Locked == \E c \in Clients : op[c].kind = "install" /\ op[c].pc \notin {"wait", "finish"}
\* The mod's lock, then a lease on the preview.
Acquire(c) ==
    /\ At(c, "install", "wait") /\ ~Stops(c) /\ ~Locked
    /\ op[c].mode = "new" \/ mod # None
    /\ LET x == op[c].x
       IN  IF x # None /\ x \notin Cached
           THEN Fail(c, "error") /\ UNCHANGED <<previews, order>>
           ELSE /\ op' = [op EXCEPT ![c].pc = "copy", ![c].leased = x # None]
                /\ previews' = IF x = None THEN previews ELSE [previews EXCEPT ![x].leases = @ + 1]
                /\ order' = IF x = None THEN order ELSE Used(x)
    /\ UNCHANGED <<disk, doomed, left, made, mods, outcome, did, counts>>
\* One file of the extraction into the stage.
Copy(c) ==
    /\ At(c, "install", "copy") /\ ~Stops(c)
    /\ \E f \in op[c].todo : op' = [op EXCEPT ![c].todo = @ \ {f}, ![c].got[f] = "new"]
    /\ UNCHANGED <<disks, mods, outcome, did, counts>>
\* A new mod's stage is renamed; the others get a stage beside the mod, which a
\* merge fills with hard links to the mod's own files.
Copied(c) ==
    /\ At(c, "install", "copy") /\ op[c].todo = {}
    /\ op' = [op EXCEPT ![c].pc = IF op[c].mode = "new" THEN "rename" ELSE "merge",
                        ![c].staged = IF op[c].mode = "merge" THEN mod ELSE Nothing,
                        ![c].linked = IF op[c].mode = "merge" THEN {f \in DOMAIN mod : mod[f] # "none"} ELSE {}]
    /\ UNCHANGED <<disks, mods, outcome, did, counts>>
\* mergeTree puts a copy in the place of a file that is there.
MergeTree(c) ==
    /\ At(c, "install", "merge") /\ \E f \in Archive : op[c].got[f] = "new"
    /\ \E f \in {f \in Archive : op[c].got[f] = "new"} :
          op' = [op EXCEPT ![c].got[f] = "none", ![c].staged[f] = "new", ![c].linked = @ \ {f}]
    /\ UNCHANGED <<disks, mods, outcome, did, counts>>
\* The record is written; a merge clears the archive's flag at this point.
Merged(c) ==
    /\ At(c, "install", "merge") /\ \A f \in Archive : op[c].got[f] = "none"
    /\ IF op[c].mode = "merge"
       THEN /\ flag' = FALSE
            /\ did' = [did EXCEPT ![op[c].r].cleared = flag]
       ELSE UNCHANGED <<flag, did>>
    /\ Go(c, "swap")
    /\ UNCHANGED <<disks, mod, outcome, counts>>
Publish(c, to) ==
    /\ mod' = to
    /\ did' = [did EXCEPT ![op[c].r].published = @ + 1]
    /\ op' = [op EXCEPT ![c].published = TRUE, ![c].pc = IF op[c].mode = "merge" THEN "discard" ELSE "index"]
\* A folder of that name is a collision.
RenameStage(c) ==
    /\ At(c, "install", "rename") /\ ~Stops(c) /\ mod = None
    /\ Publish(c, op[c].got)
    /\ UNCHANGED <<disks, flag, outcome, counts>>
SwapIn(c) ==
    /\ At(c, "install", "swap") /\ ~Stops(c)
    /\ Publish(c, op[c].staged)
    /\ UNCHANGED <<disks, flag, outcome, counts>>
\* The directory is swapped in, syncing it fails.
SwapUnsynced(c) ==
    /\ At(c, "install", "swap") /\ ~Stops(c)
    /\ mod' = op[c].staged /\ did' = [did EXCEPT ![op[c].r].published = @ + 1]
    /\ op' = [op EXCEPT ![c].published = TRUE, ![c].err = "error", ![c].pc = "release"]
    /\ UNCHANGED <<disks, flag, outcome, counts>>
IndexUpdate(c) ==
    /\ At(c, "install", "index")
    /\ flag' = FALSE /\ Go(c, "discard")
    /\ UNCHANGED <<disks, mod, outcome, did, counts>>
\* The preview has served: marked here, as this request still holds it.
DiscardServed(c) ==
    /\ At(c, "install", "discard")
    /\ IF op[c].x = None THEN UNCHANGED <<previews, order, doomed>> ELSE Drop({op[c].x} \cap Cached)
    /\ Go(c, "register")
    /\ UNCHANGED <<disk, left, made, mods, outcome, did, counts>>
\* A new mod is added to the lists of the profiles, which may fail.
ModList(c) ==
    /\ At(c, "install", "register")
    /\ \E err \in IF op[c].mode = "new" THEN {"none", "error"} ELSE {"none"} : Fail(c, err)
    /\ UNCHANGED <<disks, mods, outcome, did, counts>>

\* The last lease of a marked preview removes it.
Gone(x) == previews[x].leases = 1 /\ previews[x].pendingEvict
Release(c) ==
    /\ At(c, "install", "release")
    /\ LET x == op[c].x
       IN  IF ~op[c].leased THEN UNCHANGED <<previews, order, doomed>>
           ELSE IF Gone(x)
           THEN /\ previews' = Without(previews, {x})
                /\ order' = Forgotten({x}) /\ doomed' = doomed \cup {x}
           ELSE /\ previews' = [previews EXCEPT ![x].leases = @ - 1]
                /\ UNCHANGED <<order, doomed>>
    /\ Go(c, "finish")
    /\ UNCHANGED <<disk, left, made, mods, outcome, did, counts>>
Finish(c) ==
    /\ At(c, "install", "finish")
    /\ outcome' = [outcome EXCEPT ![op[c].r] = State(op[c].err, op[c].cancelled, op[c].published)]
    /\ Done(c)
    /\ UNCHANGED <<disks, mods, did, counts>>

-----------------------------------------------------------------------------
(* Others uninstall the mod; the daemon stops, is killed and starts.       *)

Uninstall ==
    /\ mod # None /\ ~Locked
    /\ mod' = None /\ flag' = TRUE
    /\ UNCHANGED <<disks, outcome, did, op, counts>>
NewLife == /\ previews' = <<>> /\ order' = <<>> /\ doomed' = {}
           /\ outcome' = [r \in Requests |-> None] /\ did' = [r \in Requests |-> Undone]
           /\ op' = [c \in Clients |-> Idle]
\* sweepStaleExtractions removes what is older than the daemon.
OnDisk == {x \in Extractions : disk[x] # "none"}
Restart(xs) == \E young \in SUBSET (xs \ left) :
    left' = young /\ disk' = [x \in Extractions |-> IF x \in young THEN disk[x] ELSE "none"]
Kill ==
    /\ kills < MaxKills /\ kills' = kills + 1
    /\ Restart(OnDisk) /\ NewLife
    /\ UNCHANGED <<made, mods, asked>>
\* discardUnleased, after the last request has been served.
Shutdown ==
    /\ kills < MaxKills /\ kills' = kills + 1
    /\ \A c \in Clients : ~Busy(c)
    /\ Restart(OnDisk \ Cached) /\ NewLife
    /\ UNCHANGED <<made, mods, asked>>

Init ==
    /\ disk = [x \in Extractions |-> "none"] /\ previews = <<>> /\ order = <<>>
    /\ doomed = {} /\ left = {}
    /\ mod \in {None, Original} /\ flag \in BOOLEAN
    /\ outcome = [r \in Requests |-> None] /\ did = [r \in Requests |-> Undone]
    /\ op = [c \in Clients |-> Idle] /\ made = 0 /\ asked = 0 /\ kills = 0

Previewing(c) == PreviewInstall(c) \/ Extracted(c) \/ PreviewFails(c) \/ Put(c)
Staging(c) == Acquire(c) \/ Copy(c) \/ Copied(c) \/ MergeTree(c) \/ Merged(c)
Publishing(c) == RenameStage(c) \/ SwapIn(c) \/ SwapUnsynced(c) \/ IndexUpdate(c)
Ending(c) == DiscardServed(c) \/ ModList(c) \/ Release(c) \/ Finish(c)
Next == \/ \E c \in Clients :
               \/ Previewing(c) \/ Staging(c) \/ Publishing(c) \/ Ending(c)
               \/ Cancel(c) \/ Stop(c) \/ Fault(c)
               \/ \E r \in Requests, mode \in Modes, x \in Extractions \cup {None} : StartInstall(c, r, mode, x)
        \/ \E x \in Extractions : DiscardPreview(x)
        \/ \E r \in Requests : Expire(r)
        \/ Sweep \/ RemoveDoomed \/ Uninstall \/ Kill \/ Shutdown
Spec == Init /\ [][Next]_vars

-----------------------------------------------------------------------------
TypeOK ==
    /\ disk \in [Extractions -> {"none", "partial", "whole"}]
    /\ Cached \subseteq Extractions /\ ToSet(order) = Cached /\ IsInjective(order)
    /\ mod = None \/ mod \in Contents
    /\ outcome \in [Requests -> {None, "running", "succeeded", "failed", "cancelled"}]

\* An installation that copies out of a preview's extraction finds it whole,
\* whatever is discarded, swept or evicted meanwhile (preview_cache.go:83).
ReadsWhole == \A c \in Clients :
    op[c].kind = "install" /\ op[c].leased /\ op[c].pc = "copy" => disk[op[c].x] = "whole"

\* Every extraction on disk belongs to somebody: a preview kept, a removal or a
\* request on its way, or a daemon killed moments before this one started; and a
\* preview marked for removal is still held by somebody who will remove it.
NothingLeaks ==
    /\ \A x \in OnDisk :
          x \in Cached \cup doomed \cup left \/ \E c \in Clients : op[c].kind = "preview" /\ op[c].x = x
    /\ \A x \in Cached : previews[x].pendingEvict =>
          \E c \in Clients : op[c].kind = "install" /\ op[c].leased /\ op[c].x = x

\* What a client is told of its request: succeeded if the mod was published,
\* once, and cancelled only when it was not (install_outcome.go:75).
OutcomeIsTrue == \A r \in Requests :
    /\ did[r].published <= 1
    /\ outcome[r] = "succeeded" => did[r].published = 1
    /\ outcome[r] = "cancelled" => did[r].published = 0

\* The files of a mod change when an installation is published or the mod is
\* uninstalled, never while a merge is prepared from links to them (merge.go:18).
ChangesAtOnce ==
    mod' # mod /\ mod' # None => \E r \in Requests : did'[r].published = did[r].published + 1
=============================================================================
