------------------------------- MODULE Migrate -------------------------------
(***************************************************************************)
(* gorganizerctl migrate-data: the mod folders of an old checkout move to  *)
(* the personal data folder (internal/migrate, cmd/gorganizerctl/          *)
(* migrate.go, cmd/gorganizerd/main.go).                                   *)
(*                                                                         *)
(* A folder on the same drive is renamed, one on another drive is copied   *)
(* to a stage, checked, published and only then removed.  The journal says *)
(* how far each folder is; a killed or failing move is finished by         *)
(* --resume, and the daemon does not start while there is a journal.       *)
(*                                                                         *)
(* Abstracted: a file is its original ("old": same inode and times), a     *)
(* checked copy, or something else; somebody's change always shows in the  *)
(* size.  Checking a folder is one step, so is checking and deleting a     *)
(* parked one.  Settings are the paths in them and whether they were       *)
(* edited since.                                                           *)
(***************************************************************************)
EXTENDS Naturals, Sequences, FiniteSets

CONSTANTS
    Order,                  \* the games with an old folder, as the plan lists them
    Files,                  \* the files of each folder
    Extra,                  \* a file that was not planned
    MaxFaults, MaxHands,    \* bounds: failures and kills, changes by hand
    None

OrderAssumption == Order \in Seq(STRING) /\ Extra \notin Files /\ MaxFaults \in Nat /\ MaxHands \in Nat

VARIABLES
    mode,                   \* game -> "rename" or "copy"
    src, parked, stage, dst, \* game -> folder or None
    journal,                \* the journal on disk, or None
    settings,               \* config.json
    at,                     \* what migrate-data is doing, "idle" without one
    mem,                    \* its journal in memory
    to,                     \* the phase it is about to record
    daemon,                 \* "off", "read" (settings), "up"
    known,                  \* the settings the daemon read
    faults, hands

folders == <<src, parked, stage, dst>>
proc    == <<at, mem, to>>
service == <<daemon, known>>
vars    == <<mode, folders, journal, settings, proc, service, faults, hands>>

Items      == {Order[k] : k \in DOMAIN Order}
Names      == Files \union {Extra}
FolderSet  == [Names -> {"absent", "old", "copy", "other"}]
Locations  == [Items -> FolderSet \union {None}]
ItemPhases == {"planned", "copied", "moved", "verified", "published", "source-removed"}
Phases     == {"moving", "config-patched", "committed"}
Settings   == [refs : {"old", "new", "none"}, edited : BOOLEAN]
Journals   == [phase : Phases, item : [Items -> ItemPhases], sha : [Items -> SUBSET Files], before : Settings]

\* None is no folder, no journal and no phase.
NoneAssumption == None \notin FolderSet \union Journals \union ItemPhases \union Phases

TypeOK ==
    /\ mode \in [Items -> {"rename", "copy"}]
    /\ src \in Locations /\ parked \in Locations /\ stage \in Locations /\ dst \in Locations
    /\ journal \in Journals \union {None} /\ mem \in Journals \union {None}
    /\ settings \in Settings /\ known \in Settings
    /\ at \in {"idle", "confirm", "advance", "build", "save", "patch"}
    /\ to \in ItemPhases \union Phases \union {None}
    /\ daemon \in {"off", "read", "up"}
    /\ faults \in 0..MaxFaults /\ hands \in 0..MaxHands

-----------------------------------------------------------------------------
Whole(v)     == [n \in Names |-> IF n \in Files THEN v ELSE "absent"]
EmptyDir     == [n \in Names |-> "absent"]
Nonempty(f)  == f # None /\ \E n \in Names : f[n] # "absent"

\* exactly the planned files, the originals themselves or with their contents
verifyTree(f, identity) ==
    /\ f # None /\ f[Extra] = "absent"
    /\ \A n \in Files : f[n] \in (IF identity THEN {"old"} ELSE {"old", "copy"})

\* what is left of a parked folder is unchanged
verifyRemaining(f) == \A n \in Names : f[n] \in {"absent", "old"}

Current == {k \in DOMAIN Order : mem.item[Order[k]] # "source-removed"}

AllDone == Current = {}
item    == Order[CHOOSE k \in Current : \A l \in Current : k <= l]
phase   == mem.item[item]

Stops == at' = "idle" /\ mem' = None /\ to' = None
Fault == faults < MaxFaults /\ faults' = faults + 1

\* the process goes on to record a phase
Records(p) == at' = "save" /\ to' = p /\ UNCHANGED mem

-----------------------------------------------------------------------------
\* runMigrateDataWith: under the instance lock the plan is shown and confirmed

LockFree == at = "idle" /\ daemon # "up"

\* directoryState, pendingInSource and the rest of Plan's blockers
Planned == /\ \A i \in Items : verifyTree(src[i], TRUE) /\ ~Nonempty(dst[i]) /\ stage[i] = None

Plan ==
    /\ LockFree /\ journal = None /\ Planned
    /\ at' = "confirm" /\ UNCHANGED <<mode, folders, journal, settings, mem, to, service, faults, hands>>

\* Execute plans again and refuses when something changed since
Execute ==
    /\ at = "confirm"
    /\ \/ /\ Planned
          /\ mem' = [phase |-> "moving", item |-> [i \in Items |-> "planned"],
                     sha |-> [i \in Items |-> {}], before |-> settings]
          /\ journal' = mem' /\ at' = "advance" /\ to' = None
       \/ Stops /\ UNCHANGED journal           \* refused, or answered no
    /\ UNCHANGED <<mode, folders, settings, service, faults, hands>>

Resume ==
    /\ LockFree /\ journal # None
    /\ mem' = journal /\ at' = "advance" /\ to' = None
    /\ UNCHANGED <<mode, folders, journal, settings, service, faults, hands>>

\* setPhase and saveJournal; an error may come before or after the journal is replaced
Saved == LET done == IF to \in Phases THEN [mem EXCEPT !.phase = to] ELSE [mem EXCEPT !.item[item] = to]
         IN  at = "save" /\ journal' = done

SavePhase ==
    /\ Saved
    /\ \/ /\ mem' = journal' /\ at' = (IF to \in Phases THEN "patch" ELSE "advance") /\ to' = None
          /\ UNCHANGED faults
       \/ Fault /\ Stops
    /\ UNCHANGED <<mode, folders, settings, service, hands>>

\* an error, a check that fails, or a kill: what is on disk stays
Fails ==
    /\ at \notin {"idle", "confirm"} /\ Fault /\ Stops
    /\ UNCHANGED <<mode, folders, journal, settings, service, hands>>

Refuses(cond) == cond /\ Stops /\ UNCHANGED <<mode, folders, journal, settings, service, faults, hands>>

-----------------------------------------------------------------------------
\* advanceItem, a folder on the same drive

Advancing(p) == at = "advance" /\ ~AllDone /\ phase = p
Same         == UNCHANGED <<mode, journal, settings, service, faults, hands>>

\* Mutant: a rename that happened before the kill is not recognised
AlreadyNever == FALSE

\* renamed before the phase was recorded
AlreadyMoved == src[item] = None /\ dst[item] # None

RenameTree ==
    /\ Advancing("planned") /\ mode[item] = "rename" /\ ~AlreadyMoved
    /\ \/ /\ verifyTree(src[item], TRUE) /\ ~Nonempty(dst[item])
          /\ dst' = [dst EXCEPT ![item] = src[item]] /\ src' = [src EXCEPT ![item] = None]
          /\ Records("moved") /\ UNCHANGED <<parked, stage>> /\ Same
       \/ Refuses(~verifyTree(src[item], TRUE) \/ Nonempty(dst[item]))

Renamed ==
    /\ Advancing("planned") /\ mode[item] = "rename" /\ AlreadyMoved
    /\ \/ verifyTree(dst[item], TRUE) /\ Records("moved") /\ UNCHANGED folders /\ Same
       \/ Refuses(~verifyTree(dst[item], TRUE))

VerifyMoved ==
    /\ Advancing("moved")
    /\ \/ verifyTree(dst[item], TRUE) /\ Records("verified") /\ UNCHANGED folders /\ Same
       \/ Refuses(~verifyTree(dst[item], TRUE))

-----------------------------------------------------------------------------
\* ... on another drive

\* published before, and every file has its digest
CopyPublished ==
    /\ Advancing("planned") /\ mode[item] = "copy" /\ Nonempty(dst[item])
    /\ LET whole == mem.sha[item] = Files /\ verifyTree(dst[item], FALSE)
       IN  \/ whole /\ Records("published") /\ UNCHANGED folders /\ Same
           \/ Refuses(~whole)

\* buildStage: an incomplete copy is cleared first
BuildStage ==
    /\ \/ Advancing("planned") /\ mode[item] = "copy" /\ ~Nonempty(dst[item])
       \/ Advancing("copied") /\ ~Nonempty(dst[item]) /\ ~verifyTree(stage[item], FALSE)
    /\ \/ /\ verifyTree(src[item], TRUE)
          /\ stage' = [stage EXCEPT ![item] = EmptyDir]
          /\ at' = "build" /\ UNCHANGED <<mem, to, src, parked, dst>> /\ Same
       \/ Refuses(~verifyTree(src[item], TRUE))

\* the digest is recorded, then the file copied
HashFile(n) ==
    /\ at = "build" /\ src[item] # None /\ src[item][n] = "old" /\ n \notin mem.sha[item]
    /\ mem' = [mem EXCEPT !.sha[item] = @ \union {n}] /\ journal' = mem'
    /\ UNCHANGED <<mode, folders, settings, at, to, service, faults, hands>>

CopyFile(n) ==
    /\ at = "build" /\ n \in mem.sha[item] /\ stage[item][n] = "absent"
    /\ \/ /\ src[item] # None /\ src[item][n] = "old"
          /\ stage' = [stage EXCEPT ![item][n] = "copy"]
          /\ UNCHANGED <<src, parked, dst, proc>> /\ Same
       \/ Refuses(src[item] = None \/ src[item][n] # "old")

StageBuilt ==
    /\ at = "build" /\ \A n \in Files : n \in mem.sha[item] /\ stage[item][n] # "absent"
    /\ LET whole == verifyTree(stage[item], FALSE) /\ verifyTree(src[item], TRUE)
       IN  \/ whole /\ UNCHANGED folders /\ Same
              /\ Records(IF phase = "planned" THEN "copied" ELSE "verified")
           \/ Refuses(~whole)

BuildFails == Refuses(/\ at = "build"
                      /\ \E n \in Files : n \notin mem.sha[item] /\ (src[item] = None \/ src[item][n] # "old"))

VerifyCopied ==
    /\ Advancing("copied")
    /\ \/ /\ ~Nonempty(dst[item]) /\ verifyTree(stage[item], FALSE)
          /\ Records("verified") /\ UNCHANGED folders /\ Same
       \/ /\ Nonempty(dst[item]) /\ verifyTree(dst[item], FALSE)
          /\ Records("verified") /\ UNCHANGED folders /\ Same
       \/ Refuses(Nonempty(dst[item]) /\ ~verifyTree(dst[item], FALSE))

Publish ==
    /\ Advancing("verified") /\ mode[item] = "copy" /\ ~Nonempty(dst[item])
    /\ \/ /\ verifyTree(stage[item], FALSE)
          /\ dst' = [dst EXCEPT ![item] = stage[item]] /\ stage' = [stage EXCEPT ![item] = None]
          /\ UNCHANGED <<src, parked, proc>> /\ Same
       \/ Refuses(~verifyTree(stage[item], FALSE))

VerifyPublished ==
    /\ Advancing("verified") /\ (mode[item] = "rename" \/ Nonempty(dst[item]))
    /\ LET whole == verifyTree(dst[item], mode[item] = "rename")
       IN  \/ whole /\ Records("published") /\ UNCHANGED folders /\ Same
           \/ Refuses(~whole)

-----------------------------------------------------------------------------
\* the old folder goes only when the new one is checked

Standing == verifyTree(dst[item], mode[item] = "rename")

\* nothing was added to the old folder or changed since it was planned
CheckedSource ==
    IF src[item] # None THEN parked[item] = None /\ verifyTree(src[item], TRUE)
                        ELSE verifyRemaining(parked[item])

ParkSource ==
    /\ Advancing("published") /\ mode[item] = "copy" /\ src[item] # None
    /\ \/ /\ Standing /\ CheckedSource
          /\ parked' = [parked EXCEPT ![item] = src[item]] /\ src' = [src EXCEPT ![item] = None]
          /\ UNCHANGED <<stage, dst, proc>> /\ Same
       \/ Refuses(~Standing \/ ~CheckedSource)

\* RemoveAll may be killed halfway
RemoveParked ==
    /\ Advancing("published") /\ src[item] = None /\ parked[item] # None
    /\ \/ /\ Standing /\ CheckedSource /\ UNCHANGED <<src, stage, dst>>
          /\ \/ parked' = [parked EXCEPT ![item] = None] /\ UNCHANGED proc /\ Same
             \/ /\ \E gone \in SUBSET Names :
                      parked' = [parked EXCEPT ![item] = [n \in Names |-> IF n \in gone THEN "absent" ELSE @[n]]]
                /\ Fault /\ Stops /\ UNCHANGED <<mode, journal, settings, service, hands>>
       \/ Refuses(~Standing \/ ~CheckedSource)

SourceGone ==
    /\ Advancing("published") /\ parked[item] = None /\ (mode[item] = "rename" \/ src[item] = None)
    /\ \/ Standing /\ src[item] = None /\ Records("source-removed") /\ UNCHANGED folders /\ Same
       \/ Refuses(~Standing \/ src[item] # None)

-----------------------------------------------------------------------------
\* run: when every folder is there, the settings follow

Patched(s) == [s EXCEPT !.refs = IF s.refs = "old" THEN "new" ELSE s.refs]

\* every finished folder is checked again on the way
ItemsDone ==
    /\ at = "advance" /\ AllDone
    /\ \/ /\ \A i \in Items : verifyTree(dst[i], FALSE)
          /\ at' = "patch" /\ UNCHANGED <<mem, to, folders>> /\ Same
       \/ Refuses(\E i \in Items : ~verifyTree(dst[i], FALSE))

patchConfig ==
    /\ at = "patch" /\ mem.phase = "moving"
    /\ \/ /\ settings = mem.before /\ settings' = Patched(settings) /\ Records("config-patched")
          /\ UNCHANGED <<mode, folders, journal, service, faults, hands>>
       \/ settings = Patched(mem.before) /\ Records("config-patched") /\ UNCHANGED folders /\ Same
       \/ Refuses(settings \notin {mem.before, Patched(mem.before)})

verifyPatchedConfig ==
    /\ at = "patch" /\ mem.phase = "config-patched"
    /\ \/ settings = Patched(mem.before) /\ Records("committed") /\ UNCHANGED folders /\ Same
       \/ Refuses(settings # Patched(mem.before))

Finish ==
    /\ at = "patch" /\ mem.phase = "committed"
    /\ \/ /\ settings = Patched(mem.before) /\ journal' = None /\ Stops
          /\ UNCHANGED <<mode, folders, settings, service, faults, hands>>
       \/ Refuses(settings # Patched(mem.before))

-----------------------------------------------------------------------------
\* gorganizerd reads the settings, takes the lock, looks for the journal

DaemonReads ==
    /\ daemon = "off" /\ daemon' = "read" /\ known' = settings
    /\ UNCHANGED <<mode, folders, journal, settings, proc, faults, hands>>

checkMigrationBeforeStart ==
    /\ daemon = "read"
    /\ daemon' = IF at = "idle" /\ journal = None THEN "up" ELSE "off"
    /\ UNCHANGED <<mode, folders, journal, settings, proc, known, faults, hands>>

\* it saves the settings it knows and makes missing folders of its games
DaemonSaves ==
    /\ daemon = "up" /\ settings' = known
    /\ UNCHANGED <<mode, folders, journal, proc, service, faults, hands>>

ensureModsDir(i) ==
    /\ daemon = "up" /\ dst[i] = None /\ dst' = [dst EXCEPT ![i] = EmptyDir]
    /\ UNCHANGED <<mode, src, parked, stage, journal, settings, proc, service, faults, hands>>

DaemonEnds ==
    /\ daemon = "up" /\ daemon' = "off"
    /\ UNCHANGED <<mode, folders, journal, settings, proc, known, faults, hands>>

\* somebody changes a file of a folder, adds one, or edits the settings
Touched(f, i, n) == [f EXCEPT ![i][n] = "other"]
CanTouch(f, i, n) == f[i] # None /\ f[i][n] # "other" /\ (n = Extra \/ f[i][n] # "absent")

Hand ==
    /\ hands < MaxHands /\ hands' = hands + 1
    /\ \/ /\ \E i \in Items, n \in Names :
               \/ CanTouch(src, i, n) /\ src' = Touched(src, i, n) /\ UNCHANGED <<parked, stage, dst>>
               \/ CanTouch(parked, i, n) /\ parked' = Touched(parked, i, n) /\ UNCHANGED <<src, stage, dst>>
               \/ CanTouch(stage, i, n) /\ stage' = Touched(stage, i, n) /\ UNCHANGED <<src, parked, dst>>
               \/ CanTouch(dst, i, n) /\ dst' = Touched(dst, i, n) /\ UNCHANGED <<src, parked, stage>>
          /\ UNCHANGED settings
       \/ settings' = [settings EXCEPT !.edited = TRUE] /\ ~settings.edited /\ UNCHANGED folders
    /\ UNCHANGED <<mode, journal, proc, service, faults>>

-----------------------------------------------------------------------------
Init ==
    /\ mode \in [Items -> {"rename", "copy"}]
    /\ src = [i \in Items |-> Whole("old")]
    /\ parked = [i \in Items |-> None] /\ stage = [i \in Items |-> None] /\ dst = [i \in Items |-> None]
    /\ journal = None /\ settings \in {[refs |-> r, edited |-> FALSE] : r \in {"old", "none"}}
    /\ at = "idle" /\ mem = None /\ to = None
    /\ daemon = "off" /\ known = settings /\ faults = 0 /\ hands = 0

Moves ==
    \/ Execute \/ SavePhase
    \/ RenameTree \/ Renamed \/ VerifyMoved
    \/ CopyPublished \/ BuildStage \/ StageBuilt \/ BuildFails \/ VerifyCopied \/ Publish \/ VerifyPublished
    \/ \E n \in Files : HashFile(n) \/ CopyFile(n)
    \/ ParkSource \/ RemoveParked \/ SourceGone
    \/ ItemsDone \/ patchConfig \/ verifyPatchedConfig \/ Finish

Service == DaemonReads \/ checkMigrationBeforeStart \/ DaemonSaves \/ DaemonEnds \/ \E i \in Items : ensureModsDir(i)

Next == Moves \/ Plan \/ Resume \/ Fails \/ Service \/ Hand

Spec == Init /\ [][Next]_vars

-----------------------------------------------------------------------------
Homes(i) == {f[i] : f \in {src, parked, dst}} \ {None}

\* Whenever the move fails or is killed, every file of the old folders is still
\* whole in the old, the parked or the new folder, unless somebody changed it
\* (verifyTree before each step of advanceItem).
NothingLost ==
    \A i \in Items, n \in Files : \E f \in Homes(i) : f[n] # "absent"

\* What somebody changed in the old or new folders or added there is never
\* deleted or replaced, however the move goes on afterwards (CheckedSource,
\* prepareDestination).
ChangesKept ==
    \A i \in Items, n \in Names :
        (\E f \in Homes(i) : f[n] = "other") => (\E f \in Homes(i) : f[n] = "other")'

\* Settings that name the new folders name folders that are there, and without
\* a journal the folders have moved together or not at all (run, readJournal).
MovesAsOne ==
    /\ settings.refs = "new" => \A i \in Items : Nonempty(dst[i])
    /\ journal = None /\ at \in {"idle", "confirm"} =>
          \/ \A i \in Items : src[i] # None
          \/ \A i \in Items : src[i] = None /\ parked[i] = None /\ Nonempty(dst[i])

\* A move that was started, while nobody changes anything.
Unfinished == journal # None /\ hands = 0
=============================================================================
