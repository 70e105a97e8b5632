----------------------------- MODULE ArchiveRows -----------------------------
(***************************************************************************)
(* The archives a game's downloads hold, and which mod is installed from   *)
(* which: the downloads index on disk, the installed-archive map kept in   *)
(* memory (src/internal/daemon/session.go), the rows pushed to the         *)
(* frontend and the installs, uninstalls, renames, landings and removals   *)
(* that change them (archives.go, mods.go, install.go).                    *)
(*                                                                         *)
(* Every operation runs on its own goroutine; between two of its steps     *)
(* the others may take any number of theirs.                               *)
(***************************************************************************)
EXTENDS Naturals, FiniteSets, FiniteSetsExt

CONSTANTS
    Mods,           \* mod folder names: numbers, in the order of the names
    Archives,       \* archives in the downloads folder
    Users,          \* goroutines
    MaxOps,         \* bound on the operations begun
    None

VARIABLES
    folder,         \* mod -> the archives its metadata records, None without a folder
    file,           \* archive -> whether its file is on disk
    index,          \* archive -> its index entry, or None
    cache,          \* the installed-archive map in memory, or None
    pushed,         \* archive -> last row pushed, or None
    op,             \* user -> the operation in progress
    begun,          \* operations begun so far
    overtaken       \* the map in memory is older than a change that did not drop it
vars == <<folder, file, index, cache, pushed, op, begun, overtaken>>

-----------------------------------------------------------------------------
Entry == [flag : BOOLEAN, hidden : BOOLEAN]
Maps == [Archives -> Mods \cup {None}]
RowsAssumption ==
    /\ Mods \subseteq Nat /\ None \notin Mods
    /\ \A set \in SUBSET Archives : set # None
    /\ None \notin Entry \cup Maps
    /\ MaxOps \in Nat

Idle == [kind |-> "idle"]
Installs == {"new", "merge", "replace"}
Names == {m \in Mods : folder[m] # None}
\* The last folder in the order of the names wins.
Installed(f) == [a \in Archives |->
    LET by == {m \in Mods : f[m] # None /\ a \in f[m]} IN IF by = {} THEN None ELSE Max(by)]
Nothing == [a \in Archives |-> None]

Status(a, flag, map) ==
    CASE map[a] # None -> "installed"
      [] map[a] = None /\ file[a] /\ flag -> "uninstalled"
      [] map[a] = None /\ file[a] /\ ~flag -> "downloaded"
      [] OTHER -> "unknown"
Row(a, entry, map) == [status |-> Status(a, entry.flag, map), hidden |-> entry.hidden]

-----------------------------------------------------------------------------
(* Operations hold the lock of the mods they change.                       *)

At(u, kind, pc) == op[u].kind = kind /\ op[u].pc = pc
Busy(u) == op[u].kind # "idle"
Free(names) == \A v \in Users : Busy(v) => op[v].locks \cap names = {}
Begin(u, kind, locks, m, a, pc, then) ==
    /\ ~Busy(u) /\ begun < MaxOps /\ Free(locks)
    /\ begun' = begun + 1
    /\ op' = [op EXCEPT ![u] = [kind |-> kind, pc |-> pc, locks |-> locks, mod |-> m, arch |-> a,
        solo |-> {}, entry |-> None, todo |-> {}, out |-> Nothing, after |-> "", then |-> then, late |-> FALSE]]
Go(u, pc) == op' = [op EXCEPT ![u].pc = pc]
Done(u) == op' = [op EXCEPT ![u] = Idle]

\* A change to a folder overtakes the scans that are on their way.
Scanning(o, v) == o[v].kind # "idle" /\ o[v].pc = "scan"
Overtake(o) == [v \in Users |-> IF Scanning(o, v) THEN [o[v] EXCEPT !.late = TRUE] ELSE o[v]]
Change(u, to, next) == /\ folder' = to
                       /\ op' = Overtake([op EXCEPT ![u] = next])

\* installedArchiveMap: the map in memory, or a scan of the folders that is stored.
Look(o, u, after) ==
    [o EXCEPT ![u].pc = IF cache = None THEN "scan" ELSE after,
              ![u].out = IF cache = None THEN Nothing ELSE cache,
              ![u].late = FALSE, ![u].after = after,
              ![u].todo = IF cache = None THEN Names ELSE {}]
ReadMod(u) ==
    /\ Scanning(op, u)
    /\ \E m \in op[u].todo :
          LET found == IF folder[m] = None THEN {} ELSE folder[m]
          IN  /\ \A n \in op[u].todo : m <= n
              /\ op' = [op EXCEPT ![u].todo = @ \ {m},
                                  ![u].out = [a \in Archives |-> IF a \in found THEN m ELSE @[a]]]
    /\ UNCHANGED <<folder, file, index, cache, pushed, begun, overtaken>>
Store(u) ==
    /\ Scanning(op, u) /\ op[u].todo = {}
    /\ cache' = op[u].out /\ overtaken' = op[u].late
    /\ Go(u, op[u].after)
    /\ UNCHANGED <<folder, file, index, pushed, begun>>

invalidateInstalledArchiveCache == cache' = None /\ overtaken' = FALSE
\* The last step of a change: the map is forgotten, then the row is built if there is one.
Forget(u) ==
    /\ Busy(u) /\ op[u].pc = "forget"
    /\ invalidateInstalledArchiveCache
    /\ IF op[u].kind \in Installs THEN Go(u, "row") ELSE Done(u)
    /\ UNCHANGED <<folder, file, index, pushed, begun>>

\* buildArchiveRow reads the index, then the map, then looks for the file.
StartRow(u) ==
    /\ Busy(u) /\ op[u].pc = "row"
    /\ op' = IF index[op[u].arch] = None
             THEN [op EXCEPT ![u].pc = op[u].then]
             ELSE Look([op EXCEPT ![u].entry = index[op[u].arch]], u, "push")
    /\ UNCHANGED <<folder, file, index, cache, pushed, begun, overtaken>>
Push(u) ==
    /\ Busy(u) /\ op[u].pc = "push"
    /\ pushed' = [pushed EXCEPT ![op[u].arch] = Row(op[u].arch, op[u].entry, op[u].out)]
    /\ Go(u, op[u].then)
    /\ UNCHANGED <<folder, file, index, cache, begun, overtaken>>
End(u) ==
    /\ Busy(u) /\ op[u].pc = "end"
    /\ Done(u)
    /\ UNCHANGED <<folder, file, index, cache, pushed, begun, overtaken>>

UpsertEntry(a) == index' = [index EXCEPT ![a] = [flag |-> FALSE, hidden |-> FALSE]]
SetUninstalled(a, uninstalled) ==
    index' = IF index[a] = None THEN index ELSE [index EXCEPT ![a].flag = uninstalled]

-----------------------------------------------------------------------------
(* Install an archive as a new mod, into a mod, or in a mod's place.       *)

Install(u, m, a) ==
    \E kind \in Installs :
        /\ file[a] /\ (kind = "new" \/ folder[m] # None)
        /\ Begin(u, kind, {m}, m, a, IF kind = "merge" THEN "clear" ELSE "publish", "end")
        /\ UNCHANGED <<folder, file, index, cache, pushed, overtaken>>
\* A merge clears the archive's flag while it fills its stage.
ClearFlag(u) ==
    /\ Busy(u) /\ op[u].pc = "clear"
    /\ SetUninstalled(op[u].arch, FALSE)
    /\ Go(u, IF op[u].kind = "merge" THEN "publish" ELSE "forget")
    /\ UNCHANGED <<folder, file, cache, pushed, begun, overtaken>>
Published(u) ==
    [folder EXCEPT ![op[u].mod] = (IF op[u].kind = "merge" THEN @ ELSE {}) \cup {op[u].arch}]
Publish(u) ==
    /\ Busy(u) /\ op[u].pc = "publish"
    /\ op[u].kind = "new" => folder[op[u].mod] = None
    /\ Change(u, Published(u), [op[u] EXCEPT !.pc = IF op[u].kind = "merge" THEN "forget" ELSE "clear"])
    /\ UNCHANGED <<file, index, cache, pushed, begun, overtaken>>
\* Stopped, a folder of that name, or a failure before the change.
PublishFails(u) ==
    /\ (Busy(u) /\ op[u].pc = "publish") \/ At(u, "merge", "clear")
    /\ Done(u)
    /\ UNCHANGED <<folder, file, index, cache, pushed, begun, overtaken>>
\* A folder that changed although its operation fails: nothing forgets the map.
Unnoticed(to) == overtaken' = (overtaken \/ (cache # None /\ cache # Installed(to)))
\* The directory could not be synced after the swap.
PublishUnsynced(u) ==
    /\ At(u, "merge", "publish") \/ At(u, "replace", "publish")
    /\ Change(u, Published(u), Idle) /\ Unnoticed(Published(u))
    /\ UNCHANGED <<file, index, cache, pushed, begun>>

-----------------------------------------------------------------------------
(* Uninstall and rename a mod.                                             *)

UninstallMod(u, m) ==
    /\ folder[m] # None
    /\ Begin(u, "uninstall", {m}, m, None, "solo", "flags")
    /\ UNCHANGED <<folder, file, index, cache, pushed, overtaken>>
OwnedSolely(m) == {a \in folder[m] : \A n \in Names \ {m} : a \notin folder[n]}
LookForOthers(u) ==
    /\ At(u, "uninstall", "solo")
    /\ op' = [op EXCEPT ![u].solo = OwnedSolely(op[u].mod), ![u].pc = "trash"]
    /\ UNCHANGED <<folder, file, index, cache, pushed, begun, overtaken>>
MoveToTrash(u) ==
    /\ At(u, "uninstall", "trash")
    /\ Change(u, [folder EXCEPT ![op[u].mod] = None], [op[u] EXCEPT !.locks = {}, !.pc = "flags"])
    /\ UNCHANGED <<file, index, cache, pushed, begun, overtaken>>
UninstallFails(u) ==
    /\ At(u, "uninstall", "trash")
    /\ Done(u)
    /\ UNCHANGED <<folder, file, index, cache, pushed, begun, overtaken>>
FlagArchive(u) ==
    /\ At(u, "uninstall", "flags")
    /\ \E a \in op[u].solo :
        /\ SetUninstalled(a, TRUE)
        /\ op' = [op EXCEPT ![u].solo = @ \ {a}, ![u].arch = a, ![u].pc = "row"]
    /\ UNCHANGED <<folder, file, cache, pushed, begun, overtaken>>
\* Mutant: an uninstall keeps the map in memory.
KeepsMap(u) ==
    /\ At(u, "uninstall", "flags") /\ op[u].solo = {}
    /\ Done(u)
    /\ UNCHANGED <<folder, file, index, cache, pushed, begun, overtaken>>
AllFlagged(u) ==
    /\ At(u, "uninstall", "flags") /\ op[u].solo = {}
    /\ Go(u, "forget")
    /\ UNCHANGED <<folder, file, index, cache, pushed, begun, overtaken>>

RenameMod(u, m, n) ==
    /\ m # n /\ folder[m] # None /\ folder[n] = None
    /\ Begin(u, "rename", {m, n}, m, None, "move", "")
    /\ UNCHANGED <<folder, file, index, cache, pushed, overtaken>>
Moved(m, n) == [folder EXCEPT ![n] = folder[m], ![m] = None]
RenameFolder(u) ==
    /\ At(u, "rename", "move")
    /\ LET n == CHOOSE n \in op[u].locks : n # op[u].mod
       IN  Change(u, Moved(op[u].mod, n), [op[u] EXCEPT !.pc = "rebuild", !.mod = n])
    /\ UNCHANGED <<file, index, cache, pushed, begun, overtaken>>
Rebuilt(u) ==
    /\ At(u, "rename", "rebuild")
    /\ Go(u, "forget")
    /\ UNCHANGED <<folder, file, index, cache, pushed, begun, overtaken>>
\* A list or the farm could not follow: the folder gets its old name back.
RenameBack(u) ==
    /\ At(u, "rename", "rebuild")
    /\ LET m == CHOOSE m \in op[u].locks : m # op[u].mod
           to == Moved(op[u].mod, m)
       IN  Change(u, to, Idle) /\ Unnoticed(to)
    /\ UNCHANGED <<file, index, cache, pushed, begun>>

-----------------------------------------------------------------------------
(* Downloads land, archives are removed and hidden, and everything is      *)
(* listed.                                                                 *)

\* The row of a landing is built before the map is forgotten.
Landed(u, a) ==
    /\ Begin(u, "land", {}, None, a, "row", "forget")
    /\ file' = [file EXCEPT ![a] = TRUE]
    /\ UpsertEntry(a)
    /\ UNCHANGED <<folder, cache, pushed, overtaken>>

RemoveArchive(u, a) ==
    /\ Begin(u, "remove", {}, None, a, "entry", "")
    /\ file' = [file EXCEPT ![a] = FALSE]
    /\ UNCHANGED <<folder, index, cache, pushed, overtaken>>
RemoveEntry(u) ==
    /\ At(u, "remove", "entry")
    /\ index' = [index EXCEPT ![op[u].arch] = None]
    /\ op' = [op EXCEPT ![u].pc = "drop"]
    /\ UNCHANGED <<folder, file, cache, pushed, begun, overtaken>>
Removed(u) ==
    /\ At(u, "remove", "drop")
    /\ invalidateInstalledArchiveCache
    /\ pushed' = [pushed EXCEPT ![op[u].arch] = None]
    /\ Done(u)
    /\ UNCHANGED <<folder, file, index, begun>>

SetHidden(u, a) ==
    /\ index[a] # None
    /\ Begin(u, "hide", {}, None, a, "row", "end")
    /\ index' = [index EXCEPT ![a].hidden = ~@]
    /\ UNCHANGED <<folder, file, cache, pushed, overtaken>>

\* Hiding what is (or is not) installed, and listing, look the map up.
Query(u) ==
    \E kind \in {"hide_installed", "hide_others", "list"} :
        /\ Begin(u, kind, {}, None, None, "look", "")
        /\ UNCHANGED <<folder, file, index, cache, pushed, overtaken>>
StartLook(u) ==
    /\ Busy(u) /\ op[u].pc = "look"
    /\ op' = Look(op, u, "answer")
    /\ UNCHANGED <<folder, file, index, cache, pushed, begun, overtaken>>
SetHiddenBulk(u) ==
    /\ At(u, "hide_installed", "answer") \/ At(u, "hide_others", "answer")
    /\ index' = [a \in Archives |->
        IF index[a] # None /\ (op[u].out[a] # None) = (op[u].kind = "hide_installed")
        THEN [index[a] EXCEPT !.hidden = TRUE] ELSE index[a]]
    /\ Done(u)
    /\ UNCHANGED <<folder, file, cache, pushed, begun, overtaken>>
Listed(u) ==
    /\ At(u, "list", "answer")
    /\ Done(u)
    /\ UNCHANGED <<folder, file, index, cache, pushed, begun, overtaken>>

-----------------------------------------------------------------------------
Init ==
    /\ folder \in [Mods -> (SUBSET Archives) \cup {None}]
    /\ file = [a \in Archives |-> TRUE]
    /\ index = [a \in Archives |-> [flag |-> FALSE, hidden |-> FALSE]]
    /\ cache = None /\ pushed = [a \in Archives |-> None]
    /\ op = [u \in Users |-> Idle] /\ begun = 0 /\ overtaken = FALSE

Requests(u) ==
    \/ \E m \in Mods : \/ UninstallMod(u, m)
                       \/ \E a \in Archives : Install(u, m, a)
                       \/ \E n \in Mods : RenameMod(u, m, n)
    \/ \E a \in Archives : Landed(u, a) \/ RemoveArchive(u, a) \/ SetHidden(u, a)
    \/ Query(u)
Installing(u) == ClearFlag(u) \/ Publish(u) \/ PublishFails(u) \/ PublishUnsynced(u)
Uninstalling(u) == LookForOthers(u) \/ MoveToTrash(u) \/ UninstallFails(u) \/ FlagArchive(u) \/ AllFlagged(u)
Renaming(u) == RenameFolder(u) \/ Rebuilt(u) \/ RenameBack(u)
Rows(u) == ReadMod(u) \/ Store(u) \/ Forget(u) \/ StartRow(u) \/ Push(u) \/ End(u)
Downloading(u) == RemoveEntry(u) \/ Removed(u) \/ StartLook(u) \/ SetHiddenBulk(u) \/ Listed(u)
Next == \E u \in Users : \/ Requests(u) \/ Installing(u) \/ Uninstalling(u)
                         \/ Renaming(u) \/ Rows(u) \/ Downloading(u)
Spec == Init /\ [][Next]_vars

-----------------------------------------------------------------------------
TypeOK ==
    /\ folder \in [Mods -> (SUBSET Archives) \cup {None}] /\ file \in [Archives -> BOOLEAN]
    /\ \A a \in Archives : index[a] # None => index[a] \in Entry
    /\ cache = None \/ cache \in Maps
    /\ begun \in 0..MaxOps /\ overtaken \in BOOLEAN

\* When nothing is going on, the map in memory names for every archive the mod
\* whose folder records it: whatever installs, uninstalls, renames, landings and
\* removals ran at the same time, each forgot the map after its change.  A scan
\* that a change overtook, and a change that was reported as failed, are told
\* apart by `overtaken` (session.go:432, mod_deployment.go:315).
CacheIsTrue == (\A u \in Users : ~Busy(u)) /\ cache # None /\ ~overtaken => cache = Installed(folder)
=============================================================================
