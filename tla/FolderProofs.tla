---------------------------- MODULE FolderProofs ----------------------------
(***************************************************************************)
(* Proofs about what changes whole folders: the move of the mod folders to *)
(* another place (Migrate), the replacement of a folder by another under a *)
(* journal (FolderSwap), and the map of the archives the mod folders were  *)
(* installed from, which is kept in memory (ArchiveRows).  For any games,  *)
(* files, names, archives, goroutines, failures, kills and changes by      *)
(* hand.                                                                   *)
(*                                                                         *)
(* The components do not interact here; each has an instance whose         *)
(* constants and variables are the ones of the same name below.            *)
(***************************************************************************)
EXTENDS Naturals, Sequences, TLAPS

CONSTANTS
    Order, Files, Extra,                        \* Migrate
    Mods, Profiles, Ops, Other, Torn, Unknown,  \* FolderSwap
    Archives, Users, MaxOps,                    \* ArchiveRows
    MaxFaults, MaxHands, None

VARIABLES
    mode, src, parked, dst, journal, settings, at, mem, to, daemon, known,
    folder, old, kept, intent, op, phase, todo, turn, failed, touched, taken, meddled,
    stage, faults, hands,
    file, index, cache, pushed, begun, overtaken

Move == INSTANCE Migrate
Swap == INSTANCE FolderSwap
Rows == INSTANCE ArchiveRows

-----------------------------------------------------------------------------
(***************************************************************************)
(* Migrate.  NothingLost and ChangesKept follow from the checks of each    *)
(* step alone.  MovesAsOne needs more: a folder that the journal, or the   *)
(* process in memory, calls removed is gone (RemovedIsGone), the process   *)
(* patches the settings only when every folder has moved (AllMoved), and   *)
(* the settings a daemon has read are as good as those on disk             *)
(* (NamedAreThere).                                                        *)
(***************************************************************************)
MigrateAssumption == Move!OrderAssumption /\ Move!NoneAssumption

(***************************************************************************)
(* The invariant.                                                          *)
(***************************************************************************)
\* The process works on a journal that is on disk.
Underway ==
    /\ at \notin {"idle", "confirm"} => journal # None /\ mem # None
    /\ at = "save" => to # None

\* Files are copied into a stage that is there.
Building == at = "build" => (Move!item \in Move!Items => stage[Move!item] # None)

\* An old folder is removed before it is called removed.
SourceIsGone(i) == src[i] = None /\ parked[i] = None
CallsRemoved(j, i) == j # None /\ j.item[i] = "source-removed"
RemovedIsGone ==
    /\ \A i \in Move!Items : CallsRemoved(journal, i) \/ CallsRemoved(mem, i) => SourceIsGone(i)
    /\ at = "save" /\ to = "source-removed" /\ Move!item \in Move!Items => SourceIsGone(Move!item)

\* A new folder holds something, if the old one did.
Filled(i) == Files # {} => Move!Nonempty(dst[i])

\* From the last folder on.
AllMoved ==
    at = "patch" \/ (at = "save" /\ to \in Move!Phases) =>
        \A i \in Move!Items : mem.item[i] = "source-removed" /\ Filled(i)

NamedAreThere ==
    settings.refs = "new" \/ known.refs = "new" => \A i \in Move!Items : Filled(i)

\* Without a journal nothing has moved, or everything.
Together ==
    journal = None /\ at \in {"idle", "confirm"} =>
        \/ \A i \in Move!Items : src[i] # None
        \/ \A i \in Move!Items : SourceIsGone(i) /\ Filled(i)

MigrateInv ==
    Move!TypeOK /\ Underway /\ Building /\ RemovedIsGone /\ AllMoved /\ NamedAreThere /\ Together

(***************************************************************************)
(* Facts the steps keep needing.                                           *)
(***************************************************************************)
LEMMA WholeIsNonempty ==
  ASSUME Files # {}, NEW f, NEW identity \in BOOLEAN, Move!verifyTree(f, identity)
  PROVE  Move!Nonempty(f)
BY DEF Move!verifyTree, Move!Nonempty, Move!Names

LEMMA FolderFacts ==
  ASSUME MigrateAssumption
  PROVE  /\ None \notin Move!FolderSet /\ None \notin Move!Journals
         /\ None \notin Move!ItemPhases /\ None \notin Move!Phases
         /\ Move!Whole("old") \in Move!FolderSet /\ Move!EmptyDir \in Move!FolderSet
         /\ \A f \in Move!FolderSet, n \in Move!Names : f[n] \in {"absent", "old", "copy", "other"}
BY DEF MigrateAssumption, Move!NoneAssumption, Move!FolderSet, Move!Whole, Move!EmptyDir

-----------------------------------------------------------------------------
LEMMA MigrateInit == MigrateAssumption /\ Move!Init => MigrateInv
<1> SUFFICES ASSUME MigrateAssumption, Move!Init PROVE MigrateInv
  OBVIOUS
<1>1. Move!TypeOK
  <2>1. src \in Move!Locations /\ parked \in Move!Locations /\ stage \in Move!Locations /\ dst \in Move!Locations
    <3>1. Move!Whole("old") \in Move!FolderSet \union {None}
      BY FolderFacts
    <3>2. Move!Init
      OBVIOUS
    <3> QED BY <3>1, <3>2 DEF Move!Init, Move!Locations
  <2>2. settings \in Move!Settings
    <3>1. PICK r \in {"old", "none"} : settings = [refs |-> r, edited |-> FALSE]
      BY DEF Move!Init
    <3> QED BY <3>1 DEF Move!Settings
  <2>3. faults \in 0..MaxFaults /\ hands \in 0..MaxHands
    BY DEF Move!Init, MigrateAssumption, Move!OrderAssumption
  <2> QED BY <2>1, <2>2, <2>3 DEF Move!Init, Move!TypeOK
<1>2. \A i \in Move!Items : src[i] # None
  BY FolderFacts DEF Move!Init
<1>3. settings.refs # "new"
  BY DEF Move!Init
<1> QED BY <1>1, <1>2, <1>3 DEF Move!Init, MigrateInv, Underway, Building, RemovedIsGone, CallsRemoved,
   AllMoved, Filled, NamedAreThere, Together

-----------------------------------------------------------------------------
(***************************************************************************)
(* One lemma per group of actions.                                         *)
(***************************************************************************)
LEMMA MigrateService ==
  ASSUME MigrateAssumption, MigrateInv, Move!Service
  PROVE  MigrateInv'
<1> USE DEF MigrateInv, Underway, Building, RemovedIsGone, CallsRemoved, SourceIsGone, AllMoved, Filled,
        NamedAreThere, Together
<1>1. CASE Move!DaemonReads
  <2>1. UNCHANGED <<mode, Move!folders, journal, settings, Move!proc, faults, hands>> /\ known' = settings /\ daemon' = "read"
    BY <1>1 DEF Move!DaemonReads
  <2> QED BY <2>1 DEF Move!TypeOK, Move!folders, Move!proc, Move!Items, Move!item, Move!Current,
     Move!Nonempty
<1>2. CASE Move!checkMigrationBeforeStart \/ Move!DaemonEnds
  <2>1. UNCHANGED <<mode, Move!folders, journal, settings, Move!proc, faults, hands, known>> /\ daemon' \in {"up", "off"}
    BY <1>2 DEF Move!checkMigrationBeforeStart, Move!DaemonEnds
  <2> QED BY <2>1 DEF Move!TypeOK, Move!folders, Move!proc, Move!Items, Move!item, Move!Current,
     Move!Nonempty
<1>3. CASE Move!DaemonSaves
  <2>1. UNCHANGED <<mode, Move!folders, journal, known, Move!proc, faults, hands, daemon>> /\ settings' = known
    BY <1>3 DEF Move!DaemonSaves, Move!service
  <2> QED BY <2>1 DEF Move!TypeOK, Move!folders, Move!proc, Move!Items, Move!item, Move!Current,
     Move!Nonempty
<1>4. ASSUME NEW i \in Move!Items, Move!ensureModsDir(i) PROVE MigrateInv'
  <2>1. /\ dst[i] = None /\ dst' = [dst EXCEPT ![i] = Move!EmptyDir]
        /\ UNCHANGED <<mode, src, parked, stage, journal, settings, at, mem, to, daemon, known, faults, hands>>
    BY <1>4 DEF Move!ensureModsDir, Move!proc, Move!service
  <2>2. dst' \in Move!Locations
    BY <2>1, FolderFacts DEF Move!TypeOK, Move!Locations
  <2>3. \A k \in Move!Items : Move!Nonempty(dst[k]) => Move!Nonempty(dst'[k])
    BY <2>1 DEF Move!TypeOK, Move!Locations, Move!Nonempty
  <2>4. Move!TypeOK'
    BY <2>1, <2>2 DEF Move!TypeOK, Move!Items
  <2>5. Move!item' = Move!item
    BY <2>1 DEF Move!item, Move!Current
  <2> QED BY <2>1, <2>3, <2>4, <2>5 DEF Move!Items
<1> QED BY <1>1, <1>2, <1>3, <1>4 DEF Move!Service

LEMMA MigrateHand ==
  ASSUME MigrateAssumption, MigrateInv, Move!Hand
  PROVE  MigrateInv'
<1> USE DEF MigrateInv, Underway, Building, RemovedIsGone, CallsRemoved, SourceIsGone, AllMoved, Filled,
        NamedAreThere, Together
<1>1. /\ UNCHANGED <<mode, journal, at, mem, to, daemon, known, faults>>
      /\ hands' \in 0..MaxHands /\ Move!item' = Move!item
  BY DEF Move!Hand, Move!proc, Move!service, Move!TypeOK, Move!item, Move!Current, MigrateAssumption,
     Move!OrderAssumption
<1>2. ASSUME NEW f \in Move!Locations, NEW i \in Move!Items, NEW n \in Move!Names, Move!CanTouch(f, i, n)
      PROVE  /\ Move!Touched(f, i, n) \in Move!Locations
             /\ \A k \in Move!Items : Move!Nonempty(f[k]) => Move!Nonempty(Move!Touched(f, i, n)[k])
             /\ \A k \in Move!Items : Move!Touched(f, i, n)[k] = None <=> f[k] = None
  <2> DEFINE g == [f[i] EXCEPT ![n] = "other"]
  <2>1. f[i] # None /\ f[i] \in Move!FolderSet
    BY <1>2 DEF Move!CanTouch, Move!Locations
  <2>2. g \in Move!FolderSet /\ g[n] = "other"
    BY <2>1 DEF Move!FolderSet
  <2>3. g # None /\ Move!Nonempty(g)
    <3> HIDE DEF g
    <3> QED BY <2>2, FolderFacts DEF Move!Nonempty
  <2>4. Move!Touched(f, i, n) = [f EXCEPT ![i] = g]
    BY DEF Move!Touched
  <2> HIDE DEF g
  <2> QED BY <2>1, <2>2, <2>3, <2>4 DEF Move!Locations
<1>3. CASE UNCHANGED settings
  <2> DEFINE Kept(f, g) == /\ g \in Move!Locations
                           /\ \A k \in Move!Items : /\ Move!Nonempty(f[k]) => Move!Nonempty(g[k])
                                                    /\ g[k] = None <=> f[k] = None
  <2>1. Kept(src, src') /\ Kept(parked, parked') /\ Kept(stage, stage') /\ Kept(dst, dst')
    <3>1. src \in Move!Locations /\ parked \in Move!Locations /\ stage \in Move!Locations /\ dst \in Move!Locations
      BY DEF Move!TypeOK
    <3>2. Kept(src, src) /\ Kept(parked, parked) /\ Kept(stage, stage) /\ Kept(dst, dst)
      BY <3>1
    <3>3. \A f \in Move!Locations, i \in Move!Items, n \in Move!Names : Move!CanTouch(f, i, n) => Kept(f, Move!Touched(f, i, n))
      BY <1>2
    <3> HIDE DEF Kept
    <3> QED BY <1>3, <3>1, <3>2, <3>3 DEF Move!Hand, Move!folders
  <2>2. Move!TypeOK'
    BY <1>1, <1>3, <2>1 DEF Move!TypeOK, Move!Items
  <2> QED BY <1>1, <1>3, <2>1, <2>2 DEF Move!Items
<1>4. CASE settings' = [settings EXCEPT !.edited = TRUE] /\ UNCHANGED Move!folders
  <2>1. settings' \in Move!Settings /\ settings'.refs = settings.refs
    BY <1>4 DEF Move!TypeOK, Move!Settings
  <2>2. Move!TypeOK'
    BY <1>1, <1>4, <2>1 DEF Move!TypeOK, Move!Items, Move!folders
  <2> QED BY <1>1, <1>4, <2>1, <2>2 DEF Move!Items, Move!folders, Move!Nonempty
<1> QED BY <1>3, <1>4 DEF Move!Hand

\* A step that gives up leaves the disk as it is.
LEMMA StopKeeps ==
  ASSUME MigrateAssumption, MigrateInv, at \notin {"idle", "confirm"}, Move!Stops,
         UNCHANGED <<mode, Move!folders, journal, settings, Move!service, hands>>, faults' \in 0..MaxFaults
  PROVE  MigrateInv'
<1>1. Move!TypeOK'
  BY DEF MigrateInv, Move!TypeOK, Move!Stops, Move!folders, Move!service
<1>2. journal' # None /\ \A i \in Move!Items : SourceIsGone(i) => SourceIsGone(i)'
  BY DEF MigrateInv, Underway, SourceIsGone, Move!folders
<1> QED BY <1>1, <1>2 DEF MigrateInv, Underway, Building, RemovedIsGone, CallsRemoved, AllMoved, Filled,
   NamedAreThere,
       Together, Move!Stops, Move!folders, Move!service

\* A step that goes on to record how far the folder is.
LEMMA RecordKeeps ==
  ASSUME MigrateAssumption, MigrateInv, at \notin {"idle", "confirm"}, NEW p \in Move!ItemPhases, Move!Records(p),
         p = "source-removed" /\ Move!item \in Move!Items => SourceIsGone(Move!item),
         Move!Same, UNCHANGED Move!folders
  PROVE  MigrateInv'
<1>1. Move!TypeOK'
  BY DEF MigrateInv, Move!TypeOK, Move!Records, Move!Same, Move!folders, Move!service
<1>2. Move!item' = Move!item
  BY DEF Move!Records, Move!item, Move!Current
<1>3. p # None /\ p \notin Move!Phases
  BY FolderFacts DEF Move!ItemPhases, Move!Phases
<1>4. \A i \in Move!Items : SourceIsGone(i) <=> SourceIsGone(i)'
  BY DEF SourceIsGone, Move!folders
<1>5. RemovedIsGone'
  BY <1>2, <1>4 DEF MigrateInv, RemovedIsGone, CallsRemoved, Move!Records, Move!Same
<1> QED BY <1>1, <1>3, <1>5 DEF MigrateInv, Underway, Building, AllMoved, Filled, NamedAreThere,
   Together, Move!Records, Move!Same,
       Move!folders, Move!service

LEMMA MigrateControl ==
  ASSUME MigrateAssumption, MigrateInv, Move!Plan \/ Move!Execute \/ Move!Resume \/ Move!Fails
  PROVE  MigrateInv'
<1>1. CASE Move!Plan
  <2>1. /\ at = "idle" /\ journal = None /\ at' = "confirm"
        /\ UNCHANGED <<mode, Move!folders, journal, settings, mem, to, Move!service, faults, hands>>
    BY <1>1 DEF Move!Plan, Move!LockFree
  <2>2. Move!TypeOK'
    BY <2>1 DEF MigrateInv, Move!TypeOK, Move!folders, Move!service
  <2> QED BY <2>1, <2>2 DEF MigrateInv, Underway, Building, RemovedIsGone, CallsRemoved, SourceIsGone,
     AllMoved, Filled,
         NamedAreThere, Together, Move!folders, Move!service
<1>2. CASE Move!Execute
  <2>1. at = "confirm" /\ UNCHANGED <<mode, Move!folders, settings, Move!service, faults, hands>>
    BY <1>2 DEF Move!Execute
  <2>2. CASE Move!Stops /\ UNCHANGED journal
    <3>1. Move!TypeOK'
      BY <2>1, <2>2 DEF MigrateInv, Move!TypeOK, Move!folders, Move!service, Move!Stops
    <3> QED BY <2>1, <2>2, <3>1 DEF MigrateInv, Underway, Building, RemovedIsGone, CallsRemoved,
       SourceIsGone,
           AllMoved, Filled, NamedAreThere, Together, Move!folders, Move!service, Move!Stops
  <2>3. CASE ~(Move!Stops /\ UNCHANGED journal)
    <3> DEFINE j == [phase |-> "moving", item |-> [i \in Move!Items |-> "planned"],
                     sha |-> [i \in Move!Items |-> {}], before |-> settings]
    <3>1. journal' = j /\ mem' = j /\ at' = "advance" /\ to' = None
      BY <1>2, <2>3 DEF Move!Execute
    <3>2. j \in Move!Journals
      BY DEF Move!Journals, Move!Phases, Move!ItemPhases, MigrateInv, Move!TypeOK
    <3>3. j # None /\ \A i \in Move!Items : j.item[i] # "source-removed"
      BY <3>2, FolderFacts
    <3> HIDE DEF j
    <3>4. Move!TypeOK'
      BY <2>1, <3>1, <3>2 DEF MigrateInv, Move!TypeOK, Move!folders, Move!service
    <3> QED BY <2>1, <3>1, <3>3, <3>4 DEF MigrateInv, Underway, Building, RemovedIsGone, CallsRemoved,
       AllMoved, Filled,
           NamedAreThere, Together, Move!folders, Move!service
  <2> QED BY <2>2, <2>3
<1>3. CASE Move!Resume
  <2>1. /\ at = "idle" /\ journal # None /\ mem' = journal /\ at' = "advance" /\ to' = None
        /\ UNCHANGED <<mode, Move!folders, journal, settings, Move!service, faults, hands>>
    BY <1>3 DEF Move!Resume, Move!LockFree
  <2>2. Move!TypeOK'
    BY <2>1 DEF MigrateInv, Move!TypeOK, Move!folders, Move!service
  <2> QED BY <2>1, <2>2 DEF MigrateInv, Underway, Building, RemovedIsGone, CallsRemoved, SourceIsGone,
     AllMoved, Filled,
         NamedAreThere, Together, Move!folders, Move!service
<1>4. CASE Move!Fails
  <2>1. faults' \in 0..MaxFaults
    BY <1>4 DEF Move!Fails, Move!Fault, MigrateInv, Move!TypeOK, MigrateAssumption, Move!OrderAssumption
  <2> QED BY <1>4, <2>1, StopKeeps DEF Move!Fails
<1> QED BY <1>1, <1>2, <1>3, <1>4

\* The journal is replaced, and the process goes on or stops.
LEMMA MigrateSave ==
  ASSUME MigrateAssumption, MigrateInv, Move!SavePhase
  PROVE  MigrateInv'
<1>1. /\ at = "save" /\ mem \in Move!Journals /\ mem # None /\ to \in Move!ItemPhases \union Move!Phases
      /\ UNCHANGED <<mode, Move!folders, settings, Move!service, hands>> /\ faults' \in 0..MaxFaults
  BY FolderFacts DEF Move!SavePhase, Move!Saved, Move!Fault, MigrateInv, Underway, Move!TypeOK,
     MigrateAssumption, Move!OrderAssumption
<1>2. /\ journal' \in Move!Journals /\ journal' # None
      /\ \A i \in Move!Items : journal'.item[i] = "source-removed" => SourceIsGone(i)
      /\ to \in Move!Phases => journal'.item = mem.item
  <2>1. CASE to \in Move!Phases
    <3>1. journal' = [mem EXCEPT !.phase = to]
      BY <2>1 DEF Move!SavePhase, Move!Saved
    <3>2. journal' \in Move!Journals /\ journal'.item = mem.item
      BY <1>1, <2>1, <3>1 DEF Move!Journals
    <3> QED BY <1>1, <3>2, FolderFacts DEF MigrateInv, RemovedIsGone, CallsRemoved
  <2>2. CASE to \notin Move!Phases
    <3>1. journal' = [mem EXCEPT !.item[Move!item] = to] /\ to \in Move!ItemPhases
      BY <1>1, <2>2 DEF Move!SavePhase, Move!Saved
    <3>2. journal' \in Move!Journals /\ \A i \in Move!Items : journal'.item[i] = IF i = Move!item THEN to ELSE mem.item[i]
      BY <1>1, <3>1 DEF Move!Journals
    <3> QED BY <1>1, <2>2, <3>2, FolderFacts DEF MigrateInv, RemovedIsGone, CallsRemoved
  <2> QED BY <2>1, <2>2
<1>3. \A i \in Move!Items : SourceIsGone(i) <=> SourceIsGone(i)'
  BY <1>1 DEF SourceIsGone, Move!folders
<1>4. CASE mem' = journal' /\ at' = (IF to \in Move!Phases THEN "patch" ELSE "advance") /\ to' = None
  <2>1. Move!TypeOK'
    BY <1>1, <1>2, <1>4 DEF MigrateInv, Move!TypeOK, Move!folders, Move!service
  <2> QED BY <1>1, <1>2, <1>3, <1>4, <2>1 DEF MigrateInv, Underway, Building, RemovedIsGone,
     CallsRemoved, AllMoved, Filled,
         NamedAreThere, Together, Move!folders, Move!service
<1>5. CASE Move!Stops
  <2>1. Move!TypeOK'
    BY <1>1, <1>2, <1>5 DEF MigrateInv, Move!TypeOK, Move!folders, Move!service, Move!Stops
  <2> QED BY <1>1, <1>2, <1>3, <1>5, <2>1 DEF MigrateInv, Underway, Building, RemovedIsGone,
     CallsRemoved, AllMoved, Filled,
         NamedAreThere, Together, Move!folders, Move!service, Move!Stops
<1> QED BY <1>4, <1>5 DEF Move!SavePhase

\* A step that moves a folder.
LEMMA ShiftKeeps ==
  ASSUME MigrateAssumption, MigrateInv, at = "advance", Move!Same, mem' = mem,
         src' \in Move!Locations, parked' \in Move!Locations, stage' \in Move!Locations, dst' \in Move!Locations,
         \A i \in Move!Items : Move!Nonempty(dst[i]) => Move!Nonempty(dst'[i]),
         \A i \in Move!Items : SourceIsGone(i) => SourceIsGone(i)',
         \/ at' = "advance" /\ to' = to
         \/ at' = "save" /\ to' = "moved"
         \/ at' = "build" /\ to' = to /\ (Move!item \in Move!Items => stage'[Move!item] # None)
  PROVE  MigrateInv'
<1>1. Move!TypeOK'
  BY DEF MigrateInv, Move!TypeOK, Move!Same, Move!service, Move!ItemPhases
<1>2. Move!item' = Move!item
  BY DEF Move!item, Move!Current
<1>3. "moved" # None
  BY FolderFacts DEF Move!ItemPhases
<1>4. RemovedIsGone'
  BY DEF MigrateInv, RemovedIsGone, CallsRemoved, Move!Same
<1> QED BY <1>1, <1>2, <1>3, <1>4 DEF MigrateInv, Underway, Building, AllMoved, Filled, NamedAreThere,
   Together, Move!Same,
       Move!service, Move!Phases

LEMMA RefusalKeeps ==
  ASSUME MigrateAssumption, MigrateInv, at \notin {"idle", "confirm"}, NEW cond, Move!Refuses(cond)
  PROVE  MigrateInv'
<1>1. faults' \in 0..MaxFaults
  BY DEF Move!Refuses, MigrateInv, Move!TypeOK
<1> QED BY <1>1, StopKeeps DEF Move!Refuses

LEMMA MigrateRename ==
  ASSUME MigrateAssumption, MigrateInv, Move!RenameTree \/ Move!Renamed \/ Move!VerifyMoved
  PROVE  MigrateInv'
<1>1. at = "advance"
  BY DEF Move!RenameTree, Move!Renamed, Move!VerifyMoved, Move!Advancing
<1>2. CASE Move!Refuses(~Move!verifyTree(src[Move!item], TRUE) \/ Move!Nonempty(dst[Move!item])) \/ Move!Refuses(~Move!verifyTree(dst[Move!item], TRUE))
  BY <1>1, <1>2, RefusalKeeps
<1>3. CASE (Move!Records("moved") \/ Move!Records("verified")) /\ UNCHANGED Move!folders /\ Move!Same
  BY <1>1, <1>3, RecordKeeps DEF Move!ItemPhases
<1>4. CASE /\ Move!verifyTree(src[Move!item], TRUE) /\ ~Move!Nonempty(dst[Move!item])
           /\ dst' = [dst EXCEPT ![Move!item] = src[Move!item]] /\ src' = [src EXCEPT ![Move!item] = None]
           /\ Move!Records("moved") /\ UNCHANGED <<parked, stage>> /\ Move!Same
  <2>1. src' \in Move!Locations /\ parked' \in Move!Locations /\ stage' \in Move!Locations /\ dst' \in Move!Locations
    BY <1>4 DEF MigrateInv, Move!TypeOK, Move!Locations
  <2>2. \A i \in Move!Items : Move!Nonempty(dst[i]) => Move!Nonempty(dst'[i])
    BY <1>4 DEF MigrateInv, Move!TypeOK, Move!Locations
  <2>3. \A i \in Move!Items : SourceIsGone(i) => SourceIsGone(i)'
    BY <1>4 DEF MigrateInv, Move!TypeOK, Move!Locations, SourceIsGone
  <2>4. at' = "save" /\ to' = "moved" /\ mem' = mem
    BY <1>4 DEF Move!Records
  <2> QED BY <1>1, <1>4, <2>1, <2>2, <2>3, <2>4, ShiftKeeps
<1> QED BY <1>2, <1>3, <1>4 DEF Move!RenameTree, Move!Renamed, Move!VerifyMoved

\* On another drive, as long as only a phase is recorded or nothing.
LEMMA MigrateChecks ==
  ASSUME MigrateAssumption, MigrateInv,
         Move!CopyPublished \/ Move!StageBuilt \/ Move!BuildFails \/ Move!VerifyCopied \/ Move!VerifyPublished \/ Move!SourceGone
  PROVE  MigrateInv'
<1>1. CASE Move!CopyPublished
  <2>1. at = "advance"
    BY <1>1 DEF Move!CopyPublished, Move!Advancing
  <2> QED BY <1>1, <2>1, RecordKeeps, RefusalKeeps DEF Move!CopyPublished, Move!ItemPhases
<1>2. CASE Move!StageBuilt
  <2>1. at = "build"
    BY <1>2 DEF Move!StageBuilt
  <2> QED BY <1>2, <2>1, RecordKeeps, RefusalKeeps DEF Move!StageBuilt, Move!ItemPhases
<1>3. CASE Move!BuildFails
  <2>1. at = "build"
    BY <1>3 DEF Move!BuildFails, Move!Refuses
  <2> QED BY <1>3, <2>1, RefusalKeeps DEF Move!BuildFails
<1>4. CASE Move!VerifyCopied
  <2>1. at = "advance"
    BY <1>4 DEF Move!VerifyCopied, Move!Advancing
  <2> QED BY <1>4, <2>1, RecordKeeps, RefusalKeeps DEF Move!VerifyCopied, Move!ItemPhases
<1>5. CASE Move!VerifyPublished
  <2>1. at = "advance"
    BY <1>5 DEF Move!VerifyPublished, Move!Advancing
  <2> QED BY <1>5, <2>1, RecordKeeps, RefusalKeeps DEF Move!VerifyPublished, Move!ItemPhases
<1>6. CASE Move!SourceGone
  <2>1. at = "advance" /\ parked[Move!item] = None
    BY <1>6 DEF Move!SourceGone, Move!Advancing
  <2> QED BY <1>6, <2>1, RecordKeeps, RefusalKeeps DEF Move!SourceGone, Move!ItemPhases, SourceIsGone
<1> QED BY <1>1, <1>2, <1>3, <1>4, <1>5, <1>6

LEMMA MigrateCopy ==
  ASSUME MigrateAssumption, MigrateInv, Move!BuildStage \/ Move!Publish \/ Move!ParkSource \/ Move!RemoveParked
  PROVE  MigrateInv'
<1>1. at = "advance"
  BY DEF Move!BuildStage, Move!Publish, Move!ParkSource, Move!RemoveParked, Move!Advancing
<1>2. src \in Move!Locations /\ parked \in Move!Locations /\ stage \in Move!Locations /\ dst \in Move!Locations
  BY DEF MigrateInv, Move!TypeOK
<1>3. CASE Move!BuildStage
  <2>1. CASE Move!Refuses(~Move!verifyTree(src[Move!item], TRUE))
    BY <1>1, <2>1, RefusalKeeps
  <2>2. CASE /\ stage' = [stage EXCEPT ![Move!item] = Move!EmptyDir] /\ at' = "build"
             /\ UNCHANGED <<mem, to, src, parked, dst>> /\ Move!Same
    <3>1. stage' \in Move!Locations /\ (Move!item \in Move!Items => stage'[Move!item] # None)
      BY <1>2, <2>2, FolderFacts DEF Move!Locations
    <3> QED BY <1>1, <1>2, <2>2, <3>1, ShiftKeeps DEF SourceIsGone
  <2> QED BY <1>3, <2>1, <2>2 DEF Move!BuildStage
<1>4. CASE Move!Publish
  <2>1. CASE Move!Refuses(~Move!verifyTree(stage[Move!item], FALSE))
    BY <1>1, <2>1, RefusalKeeps
  <2>2. CASE ~Move!Refuses(~Move!verifyTree(stage[Move!item], FALSE))
    <3>1. /\ dst' = [dst EXCEPT ![Move!item] = stage[Move!item]] /\ stage' = [stage EXCEPT ![Move!item] = None]
          /\ UNCHANGED <<src, parked, at, mem, to>> /\ Move!Same /\ ~Move!Nonempty(dst[Move!item])
      BY <1>4, <2>2 DEF Move!Publish, Move!proc
    <3>2. stage' \in Move!Locations /\ dst' \in Move!Locations
      BY <1>2, <3>1 DEF Move!Locations
    <3>3. \A i \in Move!Items : Move!Nonempty(dst[i]) => Move!Nonempty(dst'[i])
      BY <1>2, <3>1 DEF Move!Locations
    <3> QED BY <1>1, <1>2, <3>1, <3>2, <3>3, ShiftKeeps DEF SourceIsGone
  <2> QED BY <2>1, <2>2
<1>5. CASE Move!ParkSource
  <2>1. CASE Move!Refuses(~Move!Standing \/ ~Move!CheckedSource)
    BY <1>1, <2>1, RefusalKeeps
  <2>2. CASE ~Move!Refuses(~Move!Standing \/ ~Move!CheckedSource)
    <3>1. /\ parked' = [parked EXCEPT ![Move!item] = src[Move!item]] /\ src' = [src EXCEPT ![Move!item] = None]
          /\ UNCHANGED <<stage, dst, at, mem, to>> /\ Move!Same /\ src[Move!item] # None
      BY <1>5, <2>2 DEF Move!ParkSource, Move!proc
    <3>2. parked' \in Move!Locations /\ src' \in Move!Locations
      BY <1>2, <3>1 DEF Move!Locations
    <3>3. \A i \in Move!Items : SourceIsGone(i) => SourceIsGone(i)'
      BY <1>2, <3>1 DEF Move!Locations, SourceIsGone
    <3> QED BY <1>1, <1>2, <3>1, <3>2, <3>3, ShiftKeeps
  <2> QED BY <2>1, <2>2
<1>6. CASE Move!RemoveParked
  <2>1. CASE Move!Refuses(~Move!Standing \/ ~Move!CheckedSource)
    BY <1>1, <2>1, RefusalKeeps
  <2>2. CASE parked' = [parked EXCEPT ![Move!item] = None] /\ UNCHANGED <<src, stage, dst>> /\ UNCHANGED Move!proc /\ Move!Same
    <3>1. parked' \in Move!Locations /\ \A i \in Move!Items : SourceIsGone(i) => SourceIsGone(i)'
      BY <1>2, <2>2 DEF Move!Locations, SourceIsGone
    <3> QED BY <1>1, <1>2, <2>2, <3>1, ShiftKeeps DEF Move!proc
  <2>3. ASSUME NEW gone \in SUBSET Move!Names, src[Move!item] = None, parked[Move!item] # None,
               parked' = [parked EXCEPT ![Move!item] = [n \in Move!Names |-> IF n \in gone THEN "absent" ELSE @[n]]],
               UNCHANGED <<src, stage, dst>>, Move!Fault, Move!Stops, UNCHANGED <<mode, journal, settings, Move!service, hands>>
        PROVE  MigrateInv'
    <3> DEFINE rest == [n \in Move!Names |-> IF n \in gone THEN "absent" ELSE parked[Move!item][n]]
    <3>1. Move!item \in Move!Items => rest \in Move!FolderSet
      BY <1>2, <2>3 DEF Move!Locations, Move!FolderSet
    <3>2. parked' = [parked EXCEPT ![Move!item] = rest]
      BY <2>3
    <3> HIDE DEF rest
    <3>3. parked' \in Move!Locations /\ \A i \in Move!Items : SourceIsGone(i) => SourceIsGone(i)'
      BY ZenonT(30), <1>2, <2>3, <3>1, <3>2 DEF Move!Locations, SourceIsGone
    <3>4. faults' \in 0..MaxFaults
      BY <2>3 DEF Move!Fault, MigrateInv, Move!TypeOK, MigrateAssumption, Move!OrderAssumption
    <3>5. Move!TypeOK'
      BY <1>2, <2>3, <3>3, <3>4 DEF MigrateInv, Move!TypeOK, Move!Stops, Move!service
    <3>6. RemovedIsGone'
      BY <2>3, <3>3 DEF MigrateInv, RemovedIsGone, CallsRemoved, Move!Stops
    <3> QED BY <1>1, <2>3, <3>5, <3>6 DEF MigrateInv, Underway, Building, AllMoved, Filled,
       NamedAreThere, Together, Move!Stops,
           Move!service
  <2> QED BY <1>6, <2>1, <2>2, <2>3 DEF Move!RemoveParked
<1> QED BY <1>3, <1>4, <1>5, <1>6

LEMMA MigrateFiles ==
  ASSUME MigrateAssumption, MigrateInv, NEW n \in Files, Move!HashFile(n) \/ Move!CopyFile(n)
  PROVE  MigrateInv'
<1>1. at = "build" /\ mem \in Move!Journals /\ mem # None /\ journal # None
  BY DEF Move!HashFile, Move!CopyFile, MigrateInv, Underway, Move!TypeOK
<1>2. CASE Move!HashFile(n)
  <2>1. /\ mem' = [mem EXCEPT !.sha[Move!item] = @ \union {n}] /\ journal' = mem'
        /\ UNCHANGED <<mode, Move!folders, settings, at, to, Move!service, faults, hands>>
    BY <1>2 DEF Move!HashFile
  <2>2. mem' \in Move!Journals /\ mem'.item = mem.item
    BY <1>1, <2>1 DEF Move!Journals
  <2>3. mem' # None /\ Move!item' = Move!item
    BY <2>2, FolderFacts DEF Move!item, Move!Current
  <2>4. Move!TypeOK'
    BY <2>1, <2>2 DEF MigrateInv, Move!TypeOK, Move!folders, Move!service
  <2>5. RemovedIsGone'
    BY <1>1, <2>1, <2>2 DEF MigrateInv, RemovedIsGone, CallsRemoved, SourceIsGone, Move!folders
  <2> QED BY <1>1, <2>1, <2>3, <2>4, <2>5 DEF MigrateInv, Underway, Building, AllMoved, Filled,
     NamedAreThere, Together,
         Move!folders, Move!service
<1>3. CASE Move!Refuses(src[Move!item] = None \/ src[Move!item][n] # "old")
  BY <1>1, <1>3, RefusalKeeps
<1>4. CASE stage' = [stage EXCEPT ![Move!item][n] = "copy"] /\ UNCHANGED <<src, parked, dst, Move!proc>> /\ Move!Same
  <2>1. Move!item \in Move!Items => stage[Move!item] \in Move!FolderSet
    BY <1>1 DEF MigrateInv, Building, Move!TypeOK, Move!Locations
  <2>2. Move!item \in Move!Items => [stage[Move!item] EXCEPT ![n] = "copy"] \in Move!FolderSet
    BY <2>1 DEF Move!FolderSet
  <2>3. stage' = [stage EXCEPT ![Move!item] = [stage[Move!item] EXCEPT ![n] = "copy"]]
    BY <1>4
  <2>4. stage' \in Move!Locations /\ (Move!item \in Move!Items => stage'[Move!item] # None)
    <3>1. stage \in [Move!Items -> Move!FolderSet \union {None}]
      BY DEF MigrateInv, Move!TypeOK, Move!Locations
    <3>2. None \notin Move!FolderSet
      BY FolderFacts
    <3> QED BY <2>2, <2>3, <3>1, <3>2 DEF Move!Locations
  <2>5. Move!item' = Move!item
    BY <1>4 DEF Move!item, Move!Current, Move!proc
  <2>6. Move!TypeOK'
    BY <1>4, <2>4 DEF MigrateInv, Move!TypeOK, Move!Same, Move!proc, Move!service
  <2>7. RemovedIsGone'
    BY <1>1, <1>4 DEF MigrateInv, RemovedIsGone, CallsRemoved, SourceIsGone, Move!Same, Move!proc
  <2> QED BY <1>1, <1>4, <2>4, <2>5, <2>6, <2>7 DEF MigrateInv, Underway, Building, AllMoved, Filled,
     NamedAreThere,
         Together, Move!Same, Move!proc, Move!service
<1> QED BY <1>2, <1>3, <1>4 DEF Move!CopyFile

LEMMA MigrateDone ==
  ASSUME MigrateAssumption, MigrateInv, Move!ItemsDone
  PROVE  MigrateInv'
<1>1. at = "advance" /\ Move!AllDone
  BY DEF Move!ItemsDone
<1>2. CASE Move!Refuses(\E i \in Move!Items : ~Move!verifyTree(dst[i], FALSE))
  BY <1>1, <1>2, RefusalKeeps
<1>3. CASE ~Move!Refuses(\E i \in Move!Items : ~Move!verifyTree(dst[i], FALSE))
  <2>1. /\ \A i \in Move!Items : Move!verifyTree(dst[i], FALSE)
        /\ at' = "patch" /\ UNCHANGED <<mem, to, Move!folders>> /\ Move!Same
    BY <1>3 DEF Move!ItemsDone
  <2>2. \A i \in Move!Items : mem.item[i] = "source-removed"
    BY <1>1 DEF Move!AllDone, Move!Current, Move!Items
  <2>3. \A i \in Move!Items : Filled(i)
    BY <2>1, WholeIsNonempty DEF Filled
  <2>4. Move!TypeOK'
    BY <2>1 DEF MigrateInv, Move!TypeOK, Move!Same, Move!folders, Move!service
  <2>5. RemovedIsGone'
    BY <2>1 DEF MigrateInv, RemovedIsGone, CallsRemoved, SourceIsGone, Move!Same, Move!folders
  <2> QED BY <1>1, <2>1, <2>2, <2>3, <2>4, <2>5 DEF MigrateInv, Underway, Building, AllMoved, Filled,
     NamedAreThere,
         Together, Move!Same, Move!folders, Move!service
<1> QED BY <1>2, <1>3

LEMMA MigrateSettings ==
  ASSUME MigrateAssumption, MigrateInv, Move!patchConfig \/ Move!verifyPatchedConfig \/ Move!Finish
  PROVE  MigrateInv'
<1>1. /\ at = "patch" /\ journal # None /\ mem # None
      /\ \A i \in Move!Items : mem.item[i] = "source-removed" /\ Filled(i) /\ SourceIsGone(i)
  <2>1. at = "patch"
    BY DEF Move!patchConfig, Move!verifyPatchedConfig, Move!Finish
  <2> QED BY <2>1 DEF MigrateInv, Underway, AllMoved, RemovedIsGone, CallsRemoved
<1>2. ASSUME NEW cond, Move!Refuses(cond) PROVE MigrateInv'
  BY <1>1, <1>2, RefusalKeeps
<1>3. ASSUME NEW p \in {"config-patched", "committed"}, Move!Records(p), settings' \in Move!Settings,
             UNCHANGED <<mode, Move!folders, journal, Move!service, faults, hands>>
      PROVE  MigrateInv'
  <2>1. p \in Move!Phases /\ p \notin Move!ItemPhases /\ p # None
    BY <1>3, FolderFacts DEF Move!Phases, Move!ItemPhases
  <2>2. Move!TypeOK'
    BY <1>3, <2>1 DEF MigrateInv, Move!TypeOK, Move!Records, Move!folders, Move!service
  <2>3. RemovedIsGone'
    BY <1>1, <1>3, <2>1 DEF MigrateInv, RemovedIsGone, CallsRemoved, SourceIsGone, Move!Records,
       Move!folders
  <2> QED BY <1>1, <1>3, <2>1, <2>2, <2>3 DEF MigrateInv, Underway, Building, AllMoved, Filled,
     NamedAreThere,
         Together, Move!Records, Move!folders, Move!service
<1>4. CASE Move!patchConfig
  <2>1. CASE settings' = Move!Patched(settings) /\ Move!Records("config-patched")
    <3>1. settings' \in Move!Settings
      BY <2>1 DEF Move!Patched, MigrateInv, Move!TypeOK, Move!Settings
    <3>2. UNCHANGED <<mode, Move!folders, journal, Move!service, faults, hands>>
      BY <1>4, <2>1 DEF Move!patchConfig, Move!Same, Move!Refuses, Move!Records, Move!Stops
    <3> QED BY <1>3, <2>1, <3>1, <3>2
  <2>2. CASE Move!Records("config-patched") /\ UNCHANGED Move!folders /\ Move!Same
    BY <1>3, <2>2 DEF Move!Same, MigrateInv, Move!TypeOK
  <2> QED BY <1>2, <1>4, <2>1, <2>2 DEF Move!patchConfig
<1>5. CASE Move!verifyPatchedConfig
  BY <1>2, <1>3, <1>5 DEF Move!verifyPatchedConfig, Move!Same, MigrateInv, Move!TypeOK
<1>6. CASE Move!Finish
  <2>1. CASE journal' = None /\ Move!Stops /\ UNCHANGED <<mode, Move!folders, settings, Move!service, faults, hands>>
    <3>1. Move!TypeOK'
      BY <2>1 DEF MigrateInv, Move!TypeOK, Move!Stops, Move!folders, Move!service
    <3> QED BY <1>1, <2>1, <3>1 DEF MigrateInv, Underway, Building, RemovedIsGone, CallsRemoved,
       SourceIsGone, AllMoved,
           Filled, NamedAreThere, Together, Move!Stops, Move!folders, Move!service
  <2> QED BY <1>2, <1>6, <2>1 DEF Move!Finish
<1> QED BY <1>4, <1>5, <1>6

LEMMA MigrateNext == MigrateAssumption /\ MigrateInv /\ [Move!Next]_(Move!vars) => MigrateInv'
<1> SUFFICES ASSUME MigrateAssumption, MigrateInv, [Move!Next]_(Move!vars) PROVE MigrateInv'
  OBVIOUS
<1>1. CASE Move!Moves
  BY <1>1, MigrateControl, MigrateSave, MigrateRename, MigrateChecks, MigrateCopy, MigrateFiles, MigrateDone,
     MigrateSettings DEF Move!Moves
<1>2. CASE Move!Plan \/ Move!Resume \/ Move!Fails
  BY <1>2, MigrateControl
<1>3. CASE Move!Service
  BY <1>3, MigrateService
<1>4. CASE Move!Hand
  BY <1>4, MigrateHand
<1>5. CASE UNCHANGED Move!vars
  <2>1. Move!TypeOK'
    BY <1>5 DEF MigrateInv, Move!TypeOK, Move!vars, Move!folders, Move!proc, Move!service
  <2>2. Move!item' = Move!item
    BY <1>5 DEF Move!item, Move!Current, Move!vars, Move!proc
  <2> QED BY <1>5, <2>1, <2>2 DEF MigrateInv, Underway, Building, RemovedIsGone, CallsRemoved,
     SourceIsGone, AllMoved,
         Filled, NamedAreThere, Together, Move!vars, Move!folders, Move!proc, Move!service
<1> QED BY <1>1, <1>2, <1>3, <1>4, <1>5 DEF Move!Next

\* The invariant holds in every state (Migrate's Init and Next).
THEOREM MigrateInvariance ==
  ASSUME MigrateAssumption
  PROVE  Move!Spec => []MigrateInv
BY MigrateInit, MigrateNext, PTL DEF Move!Spec

\* Type correctness.
THEOREM MigrateTyped ==
  ASSUME MigrateAssumption
  PROVE  Move!Spec => []Move!TypeOK
<1>1. MigrateInv => Move!TypeOK
  BY DEF MigrateInv
<1> QED BY <1>1, MigrateInvariance, PTL

\* Settings that name the new folders name folders with something in them, and
\* without a journal the folders have moved together or not at all (run,
\* readJournal).  Files # {}: an old folder with nothing in it has nothing to move.
THEOREM MovesTogether ==
  ASSUME MigrateAssumption, Files # {}
  PROVE  Move!Spec => []Move!MovesAsOne
<1>1. MigrateInv => Move!MovesAsOne
  BY DEF MigrateInv, NamedAreThere, Together, SourceIsGone, Filled, Move!MovesAsOne
<1> QED BY <1>1, MigrateInvariance, PTL

-----------------------------------------------------------------------------
(***************************************************************************)
(* What a step does to the folders that count: the old, parked and new.    *)
(***************************************************************************)
\* One of the three has file n, in one of the states V.
Has(i, n, V) ==
    \/ src[i] # None /\ src[i][n] \in V
    \/ parked[i] # None /\ parked[i][n] \in V
    \/ dst[i] # None /\ dst[i][n] \in V

LEMMA HomesHave ==
  ASSUME NEW i \in Move!Items, NEW n \in Move!Names, NEW V
  PROVE  (\E f \in Move!Homes(i) : f[n] \in V) <=> Has(i, n, V)
BY DEF Move!Homes, Has

LEMMA HomesHaveNext ==
  ASSUME NEW i \in Move!Items, NEW n \in Move!Names, NEW V
  PROVE  (\E f \in Move!Homes(i)' : f[n] \in V) <=> Has(i, n, V)'
BY DEF Move!Homes, Has

\* A folder moves, or one that is checked to hold no more than its originals goes.
LEMMA HasMoved ==
  ASSUME MigrateAssumption, MigrateInv, Move!RenameTree \/ Move!Publish \/ Move!ParkSource \/ Move!RemoveParked,
         NEW i \in Move!Items, NEW n \in Move!Names, NEW V \in SUBSET {"old", "copy", "other"},
         V = {"other"} \/ (n \in Files /\ V = {"old", "copy", "other"}), Has(i, n, V)
  PROVE  Has(i, n, V)'
<1>1. src \in Move!Locations /\ parked \in Move!Locations /\ stage \in Move!Locations /\ dst \in Move!Locations
  BY DEF MigrateInv, Move!TypeOK
<1>2. \A f : f # None /\ ~Move!Nonempty(f) => f[n] \notin V
  BY DEF Move!Nonempty
<1>3. Move!item \in Move!Items => Move!item \in DOMAIN src /\ Move!item \in DOMAIN parked /\ Move!item \in DOMAIN dst
  BY <1>1 DEF Move!Locations
<1>4. ASSUME UNCHANGED <<src, parked, dst>> PROVE Has(i, n, V)'
  BY <1>4 DEF Has
<1>5. CASE Move!RenameTree
  <2>1. CASE /\ Move!verifyTree(src[Move!item], TRUE) /\ ~Move!Nonempty(dst[Move!item])
             /\ dst' = [dst EXCEPT ![Move!item] = src[Move!item]] /\ src' = [src EXCEPT ![Move!item] = None]
             /\ parked' = parked
    <3>1. CASE i = Move!item
      <4>1. dst'[i] = src[i] /\ dst[i] # None => dst[i][n] \notin V
        BY <1>1, <1>2, <2>1, <3>1 DEF Move!Locations
      <4>2. dst'[i] = src[i] /\ src[i] # None
        BY <1>1, <2>1, <3>1 DEF Move!Locations, Move!verifyTree
      <4> QED BY <2>1, <4>1, <4>2 DEF Has
    <3>2. CASE i # Move!item
      BY <1>1, <2>1, <3>2 DEF Has, Move!Locations
    <3> QED BY <3>1, <3>2
  <2> QED BY <1>4, <1>5, <2>1 DEF Move!RenameTree, Move!Refuses, Move!folders
<1>6. CASE Move!Publish
  <2>1. CASE /\ dst' = [dst EXCEPT ![Move!item] = stage[Move!item]] /\ UNCHANGED <<src, parked>>
             /\ ~Move!Nonempty(dst[Move!item])
    <3>1. CASE i = Move!item
      <4>1. dst[i] # None => dst[i][n] \notin V
        BY <1>2, <2>1, <3>1
      <4> QED BY <2>1, <4>1 DEF Has
    <3>2. CASE i # Move!item
      BY <1>1, <2>1, <3>2 DEF Has, Move!Locations
    <3> QED BY <3>1, <3>2
  <2> QED BY <1>4, <1>6, <2>1 DEF Move!Publish, Move!Refuses, Move!folders
<1>7. CASE Move!ParkSource
  <2>1. CASE /\ Move!CheckedSource /\ src[Move!item] # None /\ UNCHANGED dst
             /\ parked' = [parked EXCEPT ![Move!item] = src[Move!item]] /\ src' = [src EXCEPT ![Move!item] = None]
    <3>1. CASE i = Move!item
      <4>1. parked[i] = None /\ parked'[i] = src[i] /\ src[i] # None
        BY <1>1, <2>1, <3>1 DEF Move!CheckedSource, Move!Locations
      <4> QED BY <2>1, <4>1 DEF Has
    <3>2. CASE i # Move!item
      BY <1>1, <2>1, <3>2 DEF Has, Move!Locations
    <3> QED BY <3>1, <3>2
  <2> QED BY <1>4, <1>7, <2>1 DEF Move!ParkSource, Move!Refuses, Move!folders
<1>8. CASE Move!RemoveParked
  <2>1. CASE /\ Move!Standing /\ Move!CheckedSource /\ src[Move!item] = None /\ UNCHANGED <<src, dst>>
             /\ \E f : parked' = [parked EXCEPT ![Move!item] = f]
    <3>1. CASE i = Move!item
      <4>1. Move!verifyTree(dst[i], mode[Move!item] = "rename") /\ Move!verifyRemaining(parked[i])
        BY <2>1, <3>1 DEF Move!Standing, Move!CheckedSource
      <4>2. CASE V = {"other"}
        <5>1. parked[i] # None => parked[i][n] \notin V
          BY <4>1, <4>2 DEF Move!verifyRemaining
        <5> QED BY <2>1, <5>1 DEF Has
      <4>3. CASE n \in Files /\ V = {"old", "copy", "other"}
        <5>1. dst[i] # None /\ dst[i][n] \in V
          BY <4>1, <4>3 DEF Move!verifyTree
        <5> QED BY <2>1, <5>1 DEF Has
      <4> QED BY <4>2, <4>3
    <3>2. CASE i # Move!item
      BY <1>1, <2>1, <3>2 DEF Has, Move!Locations
    <3> QED BY <3>1, <3>2
  <2> QED BY <1>4, <1>8, <2>1 DEF Move!RemoveParked, Move!Refuses, Move!folders
<1> QED BY <1>5, <1>6, <1>7, <1>8

LEMMA HasNext ==
  ASSUME MigrateAssumption, MigrateInv, [Move!Next]_(Move!vars),
         NEW i \in Move!Items, NEW n \in Move!Names, NEW V \in SUBSET {"old", "copy", "other"},
         V = {"other"} \/ (n \in Files /\ V = {"old", "copy", "other"}), Has(i, n, V)
  PROVE  Has(i, n, V)'
<1>1. src \in Move!Locations /\ parked \in Move!Locations /\ dst \in Move!Locations
  BY DEF MigrateInv, Move!TypeOK
<1>2. CASE Move!RenameTree \/ Move!Publish \/ Move!ParkSource \/ Move!RemoveParked
  BY <1>2, HasMoved
<1>3. CASE UNCHANGED <<src, parked, dst>>
  BY <1>3 DEF Has
<1>4. ASSUME NEW k \in Move!Items, Move!ensureModsDir(k) PROVE Has(i, n, V)'
  BY <1>1, <1>4 DEF Move!ensureModsDir, Has, Move!Locations
<1>5. CASE Move!Hand
  <2>1. "other" \in V
    OBVIOUS
  <2>2. ASSUME NEW k \in Move!Items, NEW m \in Move!Names, NEW f \in Move!Locations, f[i] # None,
               Move!CanTouch(f, k, m), f[i][n] \in V
        PROVE  Move!Touched(f, k, m)[i] # None /\ Move!Touched(f, k, m)[i][n] \in V
    <3>1. CASE i = k
      <4>1. f[i] \in Move!FolderSet
        BY <2>2 DEF Move!Locations
      <4>2. Move!Touched(f, k, m)[i] = [f[i] EXCEPT ![m] = "other"]
        BY <2>2, <3>1 DEF Move!Touched, Move!Locations
      <4>3. [f[i] EXCEPT ![m] = "other"] \in Move!FolderSet
        BY <4>1 DEF Move!FolderSet
      <4>4. [f[i] EXCEPT ![m] = "other"][n] \in V
        BY <2>1, <2>2, <4>1 DEF Move!FolderSet
      <4> QED BY <4>2, <4>3, <4>4, FolderFacts
    <3>2. CASE i # k
      BY <2>2, <3>2 DEF Move!Touched, Move!Locations
    <3> QED BY <3>1, <3>2
  <2>3. CASE UNCHANGED Move!folders
    BY <1>3, <2>3 DEF Move!folders
  <2>4. ASSUME NEW k \in Move!Items, NEW m \in Move!Names,
               \/ Move!CanTouch(src, k, m) /\ src' = Move!Touched(src, k, m) /\ UNCHANGED <<parked, dst>>
               \/ Move!CanTouch(parked, k, m) /\ parked' = Move!Touched(parked, k, m) /\ UNCHANGED <<src, dst>>
               \/ UNCHANGED <<src, parked, dst>>
               \/ Move!CanTouch(dst, k, m) /\ dst' = Move!Touched(dst, k, m) /\ UNCHANGED <<src, parked>>
        PROVE  Has(i, n, V)'
    <3>1. CASE Move!CanTouch(src, k, m) /\ src' = Move!Touched(src, k, m) /\ UNCHANGED <<parked, dst>>
      BY <1>1, <2>2, <3>1 DEF Has
    <3>2. CASE Move!CanTouch(parked, k, m) /\ parked' = Move!Touched(parked, k, m) /\ UNCHANGED <<src, dst>>
      BY <1>1, <2>2, <3>2 DEF Has
    <3>3. CASE Move!CanTouch(dst, k, m) /\ dst' = Move!Touched(dst, k, m) /\ UNCHANGED <<src, parked>>
      BY <1>1, <2>2, <3>3 DEF Has
    <3> QED BY <1>3, <2>4, <3>1, <3>2, <3>3
  <2> QED BY <1>5, <2>3, <2>4 DEF Move!Hand
<1>6. CASE \/ Move!Execute \/ Move!SavePhase \/ Move!Renamed \/ Move!VerifyMoved \/ Move!CopyPublished \/ Move!BuildStage \/ Move!StageBuilt
           \/ Move!BuildFails \/ Move!VerifyCopied \/ Move!VerifyPublished \/ Move!SourceGone
  <2>1. UNCHANGED <<src, parked, dst>>
    BY <1>6 DEF Move!Execute, Move!SavePhase, Move!Renamed, Move!VerifyMoved, Move!CopyPublished,
       Move!BuildStage, Move!StageBuilt, Move!BuildFails,
       Move!VerifyCopied, Move!VerifyPublished, Move!SourceGone, Move!Refuses, Move!folders
  <2> QED BY <1>3, <2>1
<1>7. CASE \/ Move!ItemsDone \/ Move!patchConfig \/ Move!verifyPatchedConfig \/ Move!Finish \/ Move!Plan \/ Move!Resume \/ Move!Fails
           \/ \E m \in Files : Move!HashFile(m) \/ Move!CopyFile(m)
  <2>1. UNCHANGED <<src, parked, dst>>
    BY <1>7 DEF Move!ItemsDone, Move!patchConfig, Move!verifyPatchedConfig, Move!Finish, Move!Plan,
       Move!Resume, Move!Fails, Move!HashFile, Move!CopyFile,
       Move!Refuses, Move!folders
  <2> QED BY <1>3, <2>1
<1>8. CASE Move!DaemonReads \/ Move!checkMigrationBeforeStart \/ Move!DaemonSaves \/ Move!DaemonEnds
  BY <1>3, <1>8 DEF Move!DaemonReads, Move!checkMigrationBeforeStart, Move!DaemonSaves, Move!DaemonEnds,
     Move!folders
<1>9. CASE UNCHANGED Move!vars
  BY <1>3, <1>9 DEF Move!vars, Move!folders
<1> QED BY <1>2, <1>4, <1>5, <1>6, <1>7, <1>8, <1>9 DEF Move!Next, Move!Moves, Move!Service

-----------------------------------------------------------------------------
Changes == {"other"}
Present == {"old", "copy", "other"}

LEMMA PresentIs ==
  ASSUME MigrateAssumption, Move!TypeOK, NEW i \in Move!Items, NEW n \in Move!Names
  PROVE  \A f \in Move!Homes(i) : f[n] # "absent" <=> f[n] \in Present
<1>1. \A f \in Move!Homes(i) : f \in Move!FolderSet
  BY DEF Move!TypeOK, Move!Locations, Move!Homes
<1> QED BY <1>1, FolderFacts DEF Present

\* Every file of the old folders is whole in the old, the parked or the new one
\* (verifyTree before each step of advanceItem).
THEOREM NothingIsLost ==
  ASSUME MigrateAssumption
  PROVE  Move!Spec => []Move!NothingLost
<1> DEFINE Kept == \A i \in Move!Items, n \in Files : Has(i, n, Present)
<1>1. Move!Init => Kept
  <2> SUFFICES ASSUME Move!Init, NEW i \in Move!Items, NEW n \in Files PROVE Has(i, n, Present)
    OBVIOUS
  <2>1. src[i] = Move!Whole("old")
    BY DEF Move!Init
  <2>2. src[i] # None
    BY <2>1, FolderFacts
  <2>3. src[i][n] = "old"
    BY <2>1 DEF Move!Whole, Move!Names
  <2> QED BY <2>2, <2>3 DEF Has, Present
<1>2. MigrateInv /\ Kept /\ [Move!Next]_(Move!vars) => Kept'
  <2> SUFFICES ASSUME MigrateInv, Kept, [Move!Next]_(Move!vars) PROVE Kept'
    OBVIOUS
  <2>1. ASSUME NEW i \in Move!Items, NEW n \in Files PROVE Has(i, n, Present)'
    <3>1. Has(i, n, Present) /\ n \in Move!Names
      BY DEF Move!Names
    <3> QED BY <3>1, HasNext DEF Present
  <2> QED BY <2>1 DEF Move!Items, Present
<1>3. MigrateInv /\ Kept => Move!NothingLost
  <2> SUFFICES ASSUME MigrateInv, Kept, NEW i \in Move!Items, NEW n \in Files
               PROVE  \E f \in Move!Homes(i) : f[n] # "absent"
    BY DEF Move!NothingLost
  <2>1. n \in Move!Names /\ Has(i, n, Present)
    BY DEF Move!Names
  <2>2. \E f \in Move!Homes(i) : f[n] \in Present
    BY <2>1, HomesHave
  <2> QED BY <2>1, <2>2, PresentIs DEF MigrateInv
<1> HIDE DEF Kept
<1> QED BY <1>1, <1>2, <1>3, MigrateInvariance, PTL DEF Move!Spec

\* What somebody changed or added is never deleted or replaced (CheckedSource,
\* prepareDestination).
THEOREM ChangesAreKept ==
  ASSUME MigrateAssumption
  PROVE  Move!Spec => [][Move!ChangesKept]_(Move!vars)
<1>1. MigrateInv /\ [Move!Next]_(Move!vars) => Move!ChangesKept
  <2> SUFFICES ASSUME MigrateInv, [Move!Next]_(Move!vars), NEW i \in Move!Items, NEW n \in Move!Names,
                      \E f \in Move!Homes(i) : f[n] = "other"
               PROVE  \E f \in Move!Homes(i)' : f[n] = "other"
    BY DEF Move!ChangesKept
  <2>1. Has(i, n, Changes)
    BY HomesHave DEF Changes
  <2>2. Has(i, n, Changes)'
    <3>1. ASSUME NEW V, V = {"other"}, Has(i, n, V) PROVE Has(i, n, V)'
      BY <3>1, HasNext
    <3> QED BY <2>1, <3>1 DEF Changes
  <2>3. \E f \in Move!Homes(i)' : f[n] \in Changes
    BY <2>2, HomesHaveNext DEF Changes
  <2> QED BY <2>3 DEF Changes
<1> QED BY <1>1, MigrateInvariance, PTL DEF Move!Spec

-----------------------------------------------------------------------------
(***************************************************************************)
(* FolderSwap.  Where the old folder, the new one and the hidden ones of a *)
(* replacement are follows from the step it is at (OpFits), as long as     *)
(* nobody else changed its name.  Replacements meet only at their name,    *)
(* and one that runs has claimed it (OneClaim), so that a step touches the *)
(* folders of its own replacement (OpStep, RunStep, BootStep).  Recovery   *)
(* has an obligation for every replacement it has yet to look at           *)
(* (BootFits).                                                             *)
(***************************************************************************)
(***************************************************************************)
(* The invariant.                                                          *)
(***************************************************************************)
Base(o)  == op[o].base
Ended(o) == Swap!At(o, "ended")

\* Who a replacement is, and that it runs only in a daemon that serves.
Steady(o) ==
    /\ Swap!At(o, "idle") => /\ ~intent[o] /\ stage[o] = None /\ old[o] = None /\ kept[o] = None
                             /\ Swap!Name(o) = None
    /\ ~Swap!At(o, "idle") => /\ Swap!Name(o) \in Swap!Names /\ Base(o) \notin {None, o}
                              /\ ~Swap!Transfer(o) => Swap!Name(o) \in Mods
    /\ Swap!Running(o) => phase = "up" /\ kept[o] = None
    /\ stage[o] \in {o, Torn, None}

\* Where the old folder is.
Before(o)  == old[o] = None /\ folder[Swap!Name(o)] = Base(o)
Between(o) == old[o] = Base(o) /\ folder[Swap!Name(o)] = None
Placed(o)  == folder[Swap!Name(o)] = o

\* ... at each step of a replacement that runs
StepFits(o) ==
    /\ op[o].at \in {"building", "built"} => ~intent[o] /\ Before(o)
    /\ op[o].at \in {"intended", "synced", "discard", "undone"} => intent[o] /\ Before(o)
    /\ op[o].at \in {"built", "intended", "synced", "aside", "restore", "rollback"} => stage[o] = o
    /\ op[o].at \in {"aside", "restore", "rollback"} => intent[o] /\ Between(o)
    /\ op[o].at \in {"rebuild", "installed", "clear"} => intent[o] /\ Placed(o) /\ old[o] = Base(o)
    /\ Swap!At(o, "unclaim") => intent[o] /\ Placed(o) /\ old[o] = None
    /\ op[o].at \in {"rebuild", "rollback"} => ~Swap!Transfer(o)
    /\ Swap!At(o, "aside") /\ op[o].used => ~Swap!Transfer(o)

\* ... after it, if nobody else changed the name
Untouched(o) ==
    Swap!Name(o) \notin touched =>
        /\ ~intent[o] => old[o] = None
        /\ intent[o] /\ Ended(o) => Placed(o) \/ Before(o) \/ Between(o)

\* A torn folder is no folder's only copy, but by hand.
TornFits(o) ==
    /\ old[o] = Torn => \/ Swap!Name(o) \in meddled
                        \/ Ended(o) /\ intent[o] /\ folder[Swap!Name(o)] # None
    /\ intent[o] /\ folder[Swap!Name(o)] = None => old[o] # None \/ Swap!Name(o) \in meddled

OpFits(o) == Steady(o) /\ StepFits(o) /\ Untouched(o) /\ TornFits(o)

\* A missing folder was taken, or is one that a replacement put aside.
NameFits(n) ==
    /\ folder[n] = Torn => n \in meddled
    /\ folder[n] = None /\ n \notin taken => \E o \in Ops : Swap!Name(o) = n /\ old[o] # None

\* One replacement at a time has a claim to a name.
OneClaim == \A o, p \in Ops : Swap!Pending(o) /\ Swap!Pending(p) /\ Swap!Name(o) = Swap!Name(p) => o = p

\* An id that was not used yet is on no folder.
Unused ==
    \A o \in Ops : Swap!At(o, "idle") =>
        /\ \A n \in Swap!Names : folder[n] # o
        /\ \A p \in Ops : old[p] # o /\ Base(p) # o

\* What a start has looked at, and what it left.
Turning(o) == turn # None /\ turn.op = o
Due(o)     == o \in todo \/ Turning(o)
BootOp(o) ==
    /\ Due(o) /\ phase \in {"transfers", "reinstalls"} =>
          intent[o] /\ Ended(o) /\ (Swap!Transfer(o) <=> phase = "transfers") /\ o \notin failed
    /\ Due(o) /\ phase = "orphans" => Ended(o) /\ ~Swap!Transfer(o)
    /\ o \in failed =>
          intent[o] /\ Ended(o) /\ phase # "down" /\ (phase = "transfers" => Swap!Transfer(o))
    /\ Turning(o) /\ phase = "orphans" => turn.at = "target"
    /\ Turning(o) /\ turn.at # "target" =>
          folder[Swap!Name(o)] # None /\ (old[o] # None => Placed(o))
    /\ Turning(o) /\ turn.at = "claim" => old[o] = None
    /\ old[o] \notin {None, Torn} /\ ~intent[o] =>
          ~Swap!Transfer(o) /\ Ended(o) /\ phase # "up" /\ (phase = "orphans" => Due(o))
BootFits ==
    /\ phase \in {"up", "down"} => turn = None /\ todo = {}
    /\ turn # None => turn.op \notin todo
    /\ \A o \in Ops : BootOp(o)

SwapInv ==
    /\ Swap!TypeOK
    /\ \A o \in Ops : OpFits(o)
    /\ \A n \in Swap!Names : NameFits(n)
    /\ OneClaim /\ Unused /\ BootFits
    /\ meddled \subseteq touched

-----------------------------------------------------------------------------
LEMMA Distinct ==
  ASSUME Swap!SwapAssumption
  PROVE  /\ None \notin Swap!Names /\ None \notin Ops /\ None \notin Swap!Folders
         /\ Torn \notin Swap!Names /\ Torn \notin Ops /\ Torn # None /\ Torn # Other
         /\ Other \notin Swap!Names /\ Other \notin Ops /\ Other # None
         /\ Unknown \notin Swap!Folders /\ Unknown # None
         /\ Swap!Names \intersect Ops = {}
         /\ None \notin [op : Ops, at : {"target", "stage", "old", "claim"}]
BY DEF Swap!SwapAssumption, Swap!Names, Swap!Folders

LEMMA SwapInitial == Swap!SwapAssumption /\ Swap!Init => SwapInv
<1> SUFFICES ASSUME Swap!SwapAssumption, Swap!Init PROVE SwapInv
  OBVIOUS
<1>1. /\ folder = [n \in Swap!Names |-> n] /\ stage = [o \in Ops |-> None] /\ old = [o \in Ops |-> None]
      /\ kept = [o \in Ops |-> None] /\ intent = [o \in Ops |-> FALSE]
      /\ phase = "up" /\ todo = {} /\ turn = None /\ failed = {} /\ meddled = {} /\ taken = {}
      /\ touched = {} /\ hands = 0 /\ faults = 0
  BY DEF Swap!Init
<1>2. \A o \in Ops : op[o] = [at |-> "idle", kind |-> "transfer", name |-> None, base |-> None,
                              used |-> FALSE, report |-> None]
  BY DEF Swap!Init
<1>3. Swap!TypeOK
  <2>1. op \in [Ops -> [at : Swap!Steps, kind : Swap!Kinds, name : Swap!Names \union {None},
                       base : Swap!Folders \union {None}, used : BOOLEAN,
                       report : Swap!Reports \union {None}]]
    BY DEF Swap!Init, Swap!Steps, Swap!Kinds
  <2>2. folder \in [Swap!Names -> Swap!Folders \union {None}]
    BY <1>1 DEF Swap!Folders
  <2>3. hands \in 0..MaxHands /\ faults \in 0..MaxFaults
    BY <1>1 DEF Swap!SwapAssumption
  <2> QED BY <1>1, <2>1, <2>2, <2>3 DEF Swap!TypeOK
<1>4. \A o \in Ops : OpFits(o)
  BY <1>1, <1>2, Distinct DEF OpFits, Steady, StepFits, Untouched, TornFits, Swap!At, Swap!Name,
     Swap!Running, Ended
<1>5. \A n \in Swap!Names : NameFits(n)
  BY <1>1, Distinct DEF NameFits
<1>6. OneClaim
  BY <1>1, <1>2 DEF OneClaim, Swap!Pending, Swap!Running
<1>7. Unused
  BY <1>1, <1>2, Distinct DEF Unused, Base
<1>8. BootFits
  BY <1>1, <1>2 DEF BootFits, BootOp, Due, Turning
<1> QED BY <1>1, <1>3, <1>4, <1>5, <1>6, <1>7, <1>8 DEF SwapInv

-----------------------------------------------------------------------------
(***************************************************************************)
(* A step of one replacement: what it does to its own folders and name is  *)
(* all there is to check.                                                  *)
(***************************************************************************)
Alone(o) ==
    /\ \A p \in Ops : p # o => /\ op'[p] = op[p] /\ stage'[p] = stage[p] /\ old'[p] = old[p]
                               /\ kept'[p] = kept[p] /\ intent'[p] = intent[p]
    /\ \A n \in Swap!Names : n # Swap!Name(o) => folder'[n] = folder[n]
    /\ UNCHANGED <<phase, todo, Swap!hist>>
    /\ op'[o].name = Swap!Name(o) /\ op'[o].base = Base(o) /\ op'[o].kind = op[o].kind
    /\ op'[o].at # "idle"

Own(o) ==
    /\ folder'[Swap!Name(o)] \in {folder[Swap!Name(o)], o, old[o], Torn, None}
    /\ old'[o] \in {old[o], folder[Swap!Name(o)], Torn, None}
    /\ \/ folder'[Swap!Name(o)] = folder[Swap!Name(o)] \/ Swap!Pending(o)
       \/ Swap!Name(o) \in meddled /\ phase # "up"
    /\ Swap!Pending(o)' => Swap!Pending(o)

LEMMA OpStep ==
  ASSUME Swap!SwapAssumption, SwapInv, NEW o \in Ops, ~Swap!At(o, "idle"), Alone(o), Own(o),
         Swap!TypeOK', OpFits(o)', NameFits(Swap!Name(o))'
  PROVE  /\ \A p \in Ops : OpFits(p)'
         /\ \A n \in Swap!Names : NameFits(n)'
         /\ OneClaim' /\ Unused' /\ (meddled \subseteq touched)'
<1> USE DEF SwapInv
<1>0. Swap!Name(o) \in Swap!Names /\ Swap!Name(o)' = Swap!Name(o) /\ Base(o)' = Base(o) /\ (Swap!Transfer(o)' <=> Swap!Transfer(o))
  BY DEF OpFits, Steady, Alone, Swap!Name, Base, Swap!Transfer
<1>1. ASSUME NEW p \in Ops, p # o PROVE OpFits(p)'
  <2>1. /\ op'[p] = op[p] /\ stage'[p] = stage[p] /\ old'[p] = old[p]
        /\ kept'[p] = kept[p] /\ intent'[p] = intent[p]
        /\ phase' = phase /\ touched' = touched /\ meddled' = meddled
    BY <1>1 DEF Alone, Swap!hist
  <2>2. OpFits(p)
    OBVIOUS
  <2>3. CASE Swap!At(p, "idle")
    BY <2>1, <2>2, <2>3, Distinct DEF OpFits, Steady, StepFits, Untouched, TornFits, Swap!At, Swap!Name,
       Swap!Running, Ended, Base, Swap!Transfer
  <2>4. CASE ~Swap!At(p, "idle") /\ Swap!Name(p) # Swap!Name(o)
    <3>1. Swap!Name(p) \in Swap!Names /\ folder'[Swap!Name(p)] = folder[Swap!Name(p)]
      BY <2>2, <2>4 DEF OpFits, Steady, Alone
    <3> QED BY <2>1, <2>2, <3>1 DEF OpFits, Steady, StepFits, Untouched, TornFits, Swap!At, Swap!Name,
       Swap!Running, Ended, Base, Swap!Transfer, Before, Between, Placed
  <2>5. CASE ~Swap!At(p, "idle") /\ Swap!Name(p) = Swap!Name(o) /\ folder'[Swap!Name(o)] = folder[Swap!Name(o)]
    BY <2>1, <2>2, <2>5 DEF OpFits, Steady, StepFits, Untouched, TornFits, Swap!At, Swap!Name,
       Swap!Running, Ended, Base, Swap!Transfer, Before, Between, Placed
  <2>6. CASE ~Swap!At(p, "idle") /\ Swap!Name(p) = Swap!Name(o) /\ Swap!Pending(o)
    <3>1. ~Swap!Pending(p)
      BY <1>1, <2>6 DEF OneClaim
    <3>2. Ended(p) /\ ~intent[p] /\ old[p] \in {None, Torn}
      BY <2>6, <3>1 DEF Swap!Pending, Swap!Running, Ended, Swap!At
    <3> QED BY <2>1, <2>2, <3>2, Distinct DEF OpFits, Steady, StepFits, Untouched, TornFits, Swap!At,
       Swap!Name, Swap!Running, Ended, Base, Swap!Transfer
  <2>7. CASE ~Swap!At(p, "idle") /\ Swap!Name(p) = Swap!Name(o) /\ Swap!Name(o) \in meddled /\ phase # "up"
    <3>1. ~Swap!Running(p) /\ Swap!Name(o) \in touched
      BY <2>2, <2>7 DEF OpFits, Steady
    <3>2. Ended(p)
      BY <2>7, <3>1 DEF Swap!Running, Ended, Swap!At
    <3> QED BY <2>1, <2>2, <2>7, <3>1, <3>2 DEF OpFits, Steady, StepFits, Untouched, TornFits, Swap!At,
       Swap!Name, Swap!Running, Ended, Base, Swap!Transfer
  <2> QED BY <2>3, <2>4, <2>5, <2>6, <2>7 DEF Own
<1>2. ASSUME NEW n \in Swap!Names, n # Swap!Name(o) PROVE NameFits(n)'
  <2>1. folder'[n] = folder[n] /\ NameFits(n) /\ taken' = taken /\ meddled' = meddled
    BY <1>2 DEF Alone, Swap!hist
  <2>2. \A p \in Ops : Swap!Name(p) = n => Swap!Name(p)' = n /\ old'[p] = old[p]
    BY <1>2 DEF Alone, Swap!Name
  <2> QED BY <2>1, <2>2 DEF NameFits
<1>3. OneClaim'
  <2>1. \A p \in Ops : Swap!Pending(p)' => Swap!Pending(p)
    BY DEF Own, Alone, Swap!Pending, Swap!Running
  <2>2. \A p \in Ops : Swap!Name(p)' = Swap!Name(p)
    BY DEF Alone, Swap!Name
  <2> QED BY <2>1, <2>2 DEF OneClaim
<1>4. Unused'
  <2> SUFFICES ASSUME NEW q \in Ops, Swap!At(q, "idle")'
               PROVE  /\ \A n \in Swap!Names : folder'[n] # q
                      /\ \A p \in Ops : old'[p] # q /\ Base(p)' # q
    BY DEF Unused
  <2>1. q # o /\ Swap!At(q, "idle")
    BY DEF Alone, Swap!At
  <2>2. /\ \A n \in Swap!Names : folder[n] # q
        /\ \A p \in Ops : old[p] # q /\ Base(p) # q
    BY <2>1 DEF Unused
  <2>3. q # None /\ q # Torn
    BY Distinct
  <2>4. folder'[Swap!Name(o)] # q /\ old'[o] # q
    BY <1>0, <2>1, <2>2, <2>3 DEF Own
  <2>5. \A p \in Ops : old'[p] # q /\ Base(p)' # q
    BY <1>0, <2>2, <2>4 DEF Alone, Base
  <2> QED BY <2>2, <2>4, <2>5 DEF Alone
<1>5. (meddled \subseteq touched)'
  BY DEF Alone, Swap!hist
<1> QED BY <1>0, <1>1, <1>2, <1>3, <1>4, <1>5

\* ... while the daemon serves
LEMMA RunStep ==
  ASSUME Swap!SwapAssumption, SwapInv, NEW o \in Ops, Swap!Running(o), Alone(o),
         /\ folder'[Swap!Name(o)] \in {folder[Swap!Name(o)], o, old[o], Torn, None}
         /\ old'[o] \in {old[o], folder[Swap!Name(o)], Torn, None}
         /\ ~intent'[o] => old'[o] \in {None, Torn},
         UNCHANGED Swap!boot, Swap!TypeOK', OpFits(o)', NameFits(Swap!Name(o))'
  PROVE  SwapInv'
<1>1. ~Swap!At(o, "idle") /\ ~Ended(o) /\ Swap!Pending(o) /\ phase = "up"
  BY DEF Swap!Running, Swap!At, Ended, Swap!Pending, SwapInv, OpFits, Steady
<1>2. Own(o)
  BY <1>1 DEF Own
<1>3. BootFits'
  <2>1. BootFits /\ turn' = turn /\ todo' = todo /\ failed' = failed /\ phase' = phase
    BY DEF SwapInv, Swap!boot, Alone
  <2>2. ASSUME NEW p \in Ops PROVE BootOp(p)'
    <3>1. BootOp(p)
      BY <2>1 DEF BootFits
    <3>2. ~Due(p) /\ ~Due(p)' /\ ~Turning(p)'
      BY <1>1, <2>1 DEF BootFits, Due, Turning
    <3>3. CASE p = o
      BY <1>1, <2>1, <3>1, <3>2, <3>3 DEF BootOp
    <3>4. CASE p # o
      BY <1>1, <2>1, <3>1, <3>2, <3>4 DEF BootOp, Alone, Ended, Swap!At, Swap!Transfer
    <3> QED BY <3>3, <3>4
  <2> QED BY <2>1, <2>2 DEF BootFits
<1> QED BY <1>1, <1>2, <1>3, OpStep DEF SwapInv
-----------------------------------------------------------------------------
OpType == [at : Swap!Steps, kind : Swap!Kinds, name : Swap!Names \union {None},
           base : Swap!Folders \union {None}, used : BOOLEAN,
           report : Swap!Reports \union {None}]

\* What a replacement is does not change.
Same(o) ==
    /\ op'[o].name = Swap!Name(o) /\ op'[o].base = Base(o) /\ op'[o].kind = op[o].kind
    /\ \A p \in Ops : p # o => op'[p] = op[p]

LEMMA GoView ==
  ASSUME Swap!TypeOK, NEW o \in Ops, NEW step \in Swap!Steps, Swap!Go(o, step)
  PROVE  /\ op' \in [Ops -> OpType] /\ op'[o].at = step /\ Same(o)
         /\ op'[o].used = op[o].used /\ op'[o].report = op[o].report
<1>1. op \in [Ops -> OpType]
  BY DEF Swap!TypeOK, OpType
<1>2. op' = [op EXCEPT ![o].at = step]
  BY DEF Swap!Go
<1>3. op'[o] = [op[o] EXCEPT !.at = step] /\ \A p \in Ops : p # o => op'[p] = op[p]
  BY <1>1, <1>2
<1>4. [op[o] EXCEPT !.at = step] \in OpType
  BY <1>1 DEF OpType
<1>5. op' \in [Ops -> OpType]
  BY <1>1, <1>2, <1>4
<1> QED BY <1>1, <1>3, <1>5 DEF Same, Swap!Name, Base, OpType

LEMMA EndsView ==
  ASSUME Swap!TypeOK, NEW o \in Ops, NEW r \in Swap!Reports, Swap!Ends(o, r)
  PROVE  op' \in [Ops -> OpType] /\ op'[o].at = "ended" /\ op'[o].report = r /\ Same(o)
<1>1. op \in [Ops -> OpType]
  BY DEF Swap!TypeOK, OpType
<1>2. op' = [op EXCEPT ![o].at = "ended", ![o].report = r]
  BY DEF Swap!Ends
<1>3. op'[o] = [op[o] EXCEPT !.at = "ended", !.report = r] /\ \A p \in Ops : p # o => op'[p] = op[p]
  BY <1>1, <1>2
<1>4. [op[o] EXCEPT !.at = "ended", !.report = r] \in OpType
  BY <1>1 DEF OpType, Swap!Steps
<1>5. op' \in [Ops -> OpType]
  BY <1>1, <1>2, <1>3, <1>4
<1> QED BY <1>1, <1>3, <1>5 DEF Same, Swap!Name, Base, OpType

LEMMA Faulty == ASSUME Swap!SwapAssumption, Swap!TypeOK, Swap!Fault \/ UNCHANGED faults PROVE faults' \in 0..MaxFaults
BY DEF Swap!SwapAssumption, Swap!TypeOK, Swap!Fault

\* A step that begins nothing; the reports are the words it may end with.
Moved(o) ==
    /\ op' \in [Ops -> OpType] /\ Same(o) /\ op'[o].at # "idle"
    /\ faults' \in 0..MaxFaults

LEMMA SwapBuild ==
  ASSUME Swap!SwapAssumption, SwapInv, NEW o \in Ops, Swap!Build(o)
  PROVE  SwapInv'
<1>1. op[o].at \in {"building"} /\ Swap!Running(o) /\ OpFits(o) /\ Swap!TypeOK
  BY DEF Swap!Build, Swap!At, Swap!Running, SwapInv
<1>2. Swap!Name(o) \in Swap!Names /\ Base(o) \notin {None, o} /\ phase = "up"
  BY <1>1 DEF OpFits, Steady, Swap!Running, Swap!At
<1>3. NameFits(Swap!Name(o))
  BY <1>2 DEF SwapInv
<1>4. Moved(o)
  BY <1>1, GoView, EndsView, Faulty DEF Swap!Build, Moved, Swap!GivesUp, Swap!Committed, Swap!Steps,
     Swap!Reports, Swap!Transfer
<1>5. /\ UNCHANGED <<phase, Swap!boot, Swap!hist, kept>>
      /\ folder \in [Swap!Names -> Swap!Folders \union {None}] /\ stage \in [Ops -> Ops \union {Torn, None}]
      /\ old \in [Ops -> Swap!Folders \union {None}] /\ intent \in [Ops -> BOOLEAN]
  BY <1>1 DEF Swap!Build, Swap!TypeOK, Swap!disk
<1>6. Swap!TypeOK'
  BY <1>1, <1>2, <1>4, <1>5 DEF Swap!Build, Swap!TypeOK, OpType, Moved, Swap!boot, Swap!hist, Swap!disk,
     Swap!Removed, Swap!Tears, Swap!Unclaims, Swap!Folders
<1>7. Alone(o)
  BY <1>1, <1>2, <1>4, <1>5 DEF Swap!Build, Alone, Moved, Same, Swap!boot, Swap!disk, Swap!Removed,
     Swap!Tears, Swap!Unclaims
<1>8. OpFits(o)'
  <2>1. Steady(o)'
    BY <1>1, <1>2, <1>4, <1>5, GoView, EndsView, Distinct DEF Swap!Build, OpFits, Steady, StepFits,
       Untouched, TornFits, Swap!At, Swap!Name, Swap!Running, Ended, Base, Swap!Transfer, Before,
       Between, Placed, Moved, Same, Swap!Removed, Swap!Tears, Swap!Unclaims, Swap!disk, Swap!hist,
       Swap!GivesUp, Swap!Committed, Swap!Steps, Swap!Reports
  <2>2. StepFits(o)'
    BY <1>1, <1>2, <1>4, <1>5, GoView, EndsView, Distinct DEF Swap!Build, OpFits, Steady, StepFits,
       Untouched, TornFits, Swap!At, Swap!Name, Swap!Running, Ended, Base, Swap!Transfer, Before,
       Between, Placed, Moved, Same, Swap!Removed, Swap!Tears, Swap!Unclaims, Swap!disk, Swap!hist,
       Swap!GivesUp, Swap!Committed, Swap!Steps, Swap!Reports
  <2>3. Untouched(o)'
    BY <1>1, <1>2, <1>4, <1>5, GoView, EndsView, Distinct DEF Swap!Build, OpFits, Steady, StepFits,
       Untouched, TornFits, Swap!At, Swap!Name, Swap!Running, Ended, Base, Swap!Transfer, Before,
       Between, Placed, Moved, Same, Swap!Removed, Swap!Tears, Swap!Unclaims, Swap!disk, Swap!hist,
       Swap!GivesUp, Swap!Committed, Swap!Steps, Swap!Reports
  <2>4. TornFits(o)'
    BY <1>1, <1>2, <1>4, <1>5, GoView, EndsView, Distinct DEF Swap!Build, OpFits, Steady, StepFits,
       Untouched, TornFits, Swap!At, Swap!Name, Swap!Running, Ended, Base, Swap!Transfer, Before,
       Between, Placed, Moved, Same, Swap!Removed, Swap!Tears, Swap!Unclaims, Swap!disk, Swap!hist,
       Swap!GivesUp, Swap!Committed, Swap!Steps, Swap!Reports
  <2> QED BY <2>1, <2>2, <2>3, <2>4 DEF OpFits
<1>9. NameFits(Swap!Name(o))'
  BY <1>1, <1>2, <1>3, <1>4, <1>5, Distinct DEF Swap!Build, NameFits, OpFits, Steady, StepFits,
     Untouched, TornFits, Swap!At, Swap!Name, Swap!Running, Ended, Base, Swap!Transfer, Before, Between,
     Placed, Moved, Same, Swap!Removed, Swap!Tears, Swap!Unclaims, Swap!disk, Swap!hist, Swap!GivesUp,
     Swap!Committed, Swap!Steps, Swap!Reports
<1>10. /\ folder'[Swap!Name(o)] \in {folder[Swap!Name(o)], o, old[o], Torn, None}
       /\ old'[o] \in {old[o], folder[Swap!Name(o)], Torn, None}
       /\ ~intent'[o] => old'[o] \in {None, Torn}
  BY <1>1, <1>2, <1>5 DEF Swap!Build, OpFits, Steady, StepFits, Untouched, TornFits, Swap!At, Swap!Name,
     Swap!Running, Ended, Base, Swap!Transfer, Before, Between, Placed, Moved, Same, Swap!Removed,
     Swap!Tears, Swap!Unclaims, Swap!disk, Swap!hist, Swap!GivesUp, Swap!Committed, Swap!Steps,
     Swap!Reports
<1> QED BY <1>1, <1>5, <1>6, <1>7, <1>8, <1>9, <1>10, RunStep

LEMMA SwapRecord ==
  ASSUME Swap!SwapAssumption, SwapInv, NEW o \in Ops, Swap!Record(o)
  PROVE  SwapInv'
<1>1. op[o].at \in {"built"} /\ Swap!Running(o) /\ OpFits(o) /\ Swap!TypeOK
  BY DEF Swap!Record, Swap!At, Swap!Running, SwapInv
<1>2. Swap!Name(o) \in Swap!Names /\ Base(o) \notin {None, o} /\ phase = "up"
  BY <1>1 DEF OpFits, Steady, Swap!Running, Swap!At
<1>3. NameFits(Swap!Name(o))
  BY <1>2 DEF SwapInv
<1>4. Moved(o)
  BY <1>1, GoView, EndsView, Faulty DEF Swap!Record, Moved, Swap!GivesUp, Swap!Committed, Swap!Steps,
     Swap!Reports, Swap!Transfer
<1>5. /\ UNCHANGED <<phase, Swap!boot, Swap!hist, kept>>
      /\ folder \in [Swap!Names -> Swap!Folders \union {None}] /\ stage \in [Ops -> Ops \union {Torn, None}]
      /\ old \in [Ops -> Swap!Folders \union {None}] /\ intent \in [Ops -> BOOLEAN]
  BY <1>1 DEF Swap!Record, Swap!TypeOK, Swap!disk
<1>6. Swap!TypeOK'
  <2>1. intent' \in [Ops -> BOOLEAN] /\ stage' \in [Ops -> Ops \union {Torn, None}]
    BY <1>1, <1>5 DEF Swap!Record
  <2> QED BY <2>1, <1>1, <1>2, <1>4, <1>5, <1>1 DEF Swap!Record, Swap!TypeOK, OpType, Moved, Swap!boot,
     Swap!hist, Swap!disk
<1>7. Alone(o)
  BY <1>1, <1>2, <1>4, <1>5 DEF Swap!Record, Alone, Moved, Same, Swap!boot, Swap!disk, Swap!Removed,
     Swap!Tears, Swap!Unclaims
<1>8. OpFits(o)'
  <2>1. Steady(o)'
    BY <1>1, <1>2, <1>4, <1>5, GoView, EndsView, Distinct DEF Swap!Record, OpFits, Steady, StepFits,
       Untouched, TornFits, Swap!At, Swap!Name, Swap!Running, Ended, Base, Swap!Transfer, Before,
       Between, Placed, Moved, Same, Swap!Removed, Swap!Tears, Swap!Unclaims, Swap!disk, Swap!hist,
       Swap!GivesUp, Swap!Committed, Swap!Steps, Swap!Reports
  <2>2. StepFits(o)'
    BY <1>1, <1>2, <1>4, <1>5, GoView, EndsView, Distinct DEF Swap!Record, OpFits, Steady, StepFits,
       Untouched, TornFits, Swap!At, Swap!Name, Swap!Running, Ended, Base, Swap!Transfer, Before,
       Between, Placed, Moved, Same, Swap!Removed, Swap!Tears, Swap!Unclaims, Swap!disk, Swap!hist,
       Swap!GivesUp, Swap!Committed, Swap!Steps, Swap!Reports
  <2>3. Untouched(o)'
    BY <1>1, <1>2, <1>4, <1>5, GoView, EndsView, Distinct DEF Swap!Record, OpFits, Steady, StepFits,
       Untouched, TornFits, Swap!At, Swap!Name, Swap!Running, Ended, Base, Swap!Transfer, Before,
       Between, Placed, Moved, Same, Swap!Removed, Swap!Tears, Swap!Unclaims, Swap!disk, Swap!hist,
       Swap!GivesUp, Swap!Committed, Swap!Steps, Swap!Reports
  <2>4. TornFits(o)'
    BY <1>1, <1>2, <1>4, <1>5, GoView, EndsView, Distinct DEF Swap!Record, OpFits, Steady, StepFits,
       Untouched, TornFits, Swap!At, Swap!Name, Swap!Running, Ended, Base, Swap!Transfer, Before,
       Between, Placed, Moved, Same, Swap!Removed, Swap!Tears, Swap!Unclaims, Swap!disk, Swap!hist,
       Swap!GivesUp, Swap!Committed, Swap!Steps, Swap!Reports
  <2> QED BY <2>1, <2>2, <2>3, <2>4 DEF OpFits
<1>9. NameFits(Swap!Name(o))'
  BY <1>1, <1>2, <1>3, <1>4, <1>5, Distinct DEF Swap!Record, NameFits, OpFits, Steady, StepFits,
     Untouched, TornFits, Swap!At, Swap!Name, Swap!Running, Ended, Base, Swap!Transfer, Before, Between,
     Placed, Moved, Same, Swap!Removed, Swap!Tears, Swap!Unclaims, Swap!disk, Swap!hist, Swap!GivesUp,
     Swap!Committed, Swap!Steps, Swap!Reports
<1>10. /\ folder'[Swap!Name(o)] \in {folder[Swap!Name(o)], o, old[o], Torn, None}
       /\ old'[o] \in {old[o], folder[Swap!Name(o)], Torn, None}
       /\ ~intent'[o] => old'[o] \in {None, Torn}
  BY <1>1, <1>2, <1>5 DEF Swap!Record, OpFits, Steady, StepFits, Untouched, TornFits, Swap!At,
     Swap!Name, Swap!Running, Ended, Base, Swap!Transfer, Before, Between, Placed, Moved, Same,
     Swap!Removed, Swap!Tears, Swap!Unclaims, Swap!disk, Swap!hist, Swap!GivesUp, Swap!Committed,
     Swap!Steps, Swap!Reports
<1> QED BY <1>1, <1>5, <1>6, <1>7, <1>8, <1>9, <1>10, RunStep

LEMMA SwapSync ==
  ASSUME Swap!SwapAssumption, SwapInv, NEW o \in Ops, Swap!Sync(o)
  PROVE  SwapInv'
<1>1. op[o].at \in {"intended"} /\ Swap!Running(o) /\ OpFits(o) /\ Swap!TypeOK
  BY DEF Swap!Sync, Swap!At, Swap!Running, SwapInv
<1>2. Swap!Name(o) \in Swap!Names /\ Base(o) \notin {None, o} /\ phase = "up"
  BY <1>1 DEF OpFits, Steady, Swap!Running, Swap!At
<1>3. NameFits(Swap!Name(o))
  BY <1>2 DEF SwapInv
<1>4. Moved(o)
  BY <1>1, GoView, EndsView, Faulty DEF Swap!Sync, Moved, Swap!GivesUp, Swap!Committed, Swap!Steps,
     Swap!Reports, Swap!Transfer
<1>5. /\ UNCHANGED <<phase, Swap!boot, Swap!hist, kept>>
      /\ folder \in [Swap!Names -> Swap!Folders \union {None}] /\ stage \in [Ops -> Ops \union {Torn, None}]
      /\ old \in [Ops -> Swap!Folders \union {None}] /\ intent \in [Ops -> BOOLEAN]
  BY <1>1 DEF Swap!Sync, Swap!TypeOK, Swap!disk
<1>6. Swap!TypeOK'
  BY <1>1, <1>2, <1>4, <1>5 DEF Swap!Sync, Swap!TypeOK, OpType, Moved, Swap!boot, Swap!hist, Swap!disk,
     Swap!Removed, Swap!Tears, Swap!Unclaims, Swap!Folders
<1>7. Alone(o)
  BY <1>1, <1>2, <1>4, <1>5 DEF Swap!Sync, Alone, Moved, Same, Swap!boot, Swap!disk, Swap!Removed,
     Swap!Tears, Swap!Unclaims
<1>8. OpFits(o)'
  <2>1. Steady(o)'
    BY <1>1, <1>2, <1>4, <1>5, GoView, EndsView, Distinct DEF Swap!Sync, OpFits, Steady, StepFits,
       Untouched, TornFits, Swap!At, Swap!Name, Swap!Running, Ended, Base, Swap!Transfer, Before,
       Between, Placed, Moved, Same, Swap!Removed, Swap!Tears, Swap!Unclaims, Swap!disk, Swap!hist,
       Swap!GivesUp, Swap!Committed, Swap!Steps, Swap!Reports
  <2>2. StepFits(o)'
    BY <1>1, <1>2, <1>4, <1>5, GoView, EndsView, Distinct DEF Swap!Sync, OpFits, Steady, StepFits,
       Untouched, TornFits, Swap!At, Swap!Name, Swap!Running, Ended, Base, Swap!Transfer, Before,
       Between, Placed, Moved, Same, Swap!Removed, Swap!Tears, Swap!Unclaims, Swap!disk, Swap!hist,
       Swap!GivesUp, Swap!Committed, Swap!Steps, Swap!Reports
  <2>3. Untouched(o)'
    BY <1>1, <1>2, <1>4, <1>5, GoView, EndsView, Distinct DEF Swap!Sync, OpFits, Steady, StepFits,
       Untouched, TornFits, Swap!At, Swap!Name, Swap!Running, Ended, Base, Swap!Transfer, Before,
       Between, Placed, Moved, Same, Swap!Removed, Swap!Tears, Swap!Unclaims, Swap!disk, Swap!hist,
       Swap!GivesUp, Swap!Committed, Swap!Steps, Swap!Reports
  <2>4. TornFits(o)'
    BY <1>1, <1>2, <1>4, <1>5, GoView, EndsView, Distinct DEF Swap!Sync, OpFits, Steady, StepFits,
       Untouched, TornFits, Swap!At, Swap!Name, Swap!Running, Ended, Base, Swap!Transfer, Before,
       Between, Placed, Moved, Same, Swap!Removed, Swap!Tears, Swap!Unclaims, Swap!disk, Swap!hist,
       Swap!GivesUp, Swap!Committed, Swap!Steps, Swap!Reports
  <2> QED BY <2>1, <2>2, <2>3, <2>4 DEF OpFits
<1>9. NameFits(Swap!Name(o))'
  BY <1>1, <1>2, <1>3, <1>4, <1>5, Distinct DEF Swap!Sync, NameFits, OpFits, Steady, StepFits,
     Untouched, TornFits, Swap!At, Swap!Name, Swap!Running, Ended, Base, Swap!Transfer, Before, Between,
     Placed, Moved, Same, Swap!Removed, Swap!Tears, Swap!Unclaims, Swap!disk, Swap!hist, Swap!GivesUp,
     Swap!Committed, Swap!Steps, Swap!Reports
<1>10. /\ folder'[Swap!Name(o)] \in {folder[Swap!Name(o)], o, old[o], Torn, None}
       /\ old'[o] \in {old[o], folder[Swap!Name(o)], Torn, None}
       /\ ~intent'[o] => old'[o] \in {None, Torn}
  BY <1>1, <1>2, <1>5 DEF Swap!Sync, OpFits, Steady, StepFits, Untouched, TornFits, Swap!At, Swap!Name,
     Swap!Running, Ended, Base, Swap!Transfer, Before, Between, Placed, Moved, Same, Swap!Removed,
     Swap!Tears, Swap!Unclaims, Swap!disk, Swap!hist, Swap!GivesUp, Swap!Committed, Swap!Steps,
     Swap!Reports
<1> QED BY <1>1, <1>5, <1>6, <1>7, <1>8, <1>9, <1>10, RunStep

LEMMA SwapInstall ==
  ASSUME Swap!SwapAssumption, SwapInv, NEW o \in Ops, Swap!Install(o)
  PROVE  SwapInv'
<1>1. op[o].at \in {"aside"} /\ Swap!Running(o) /\ OpFits(o) /\ Swap!TypeOK
  BY DEF Swap!Install, Swap!At, Swap!Running, SwapInv
<1>2. Swap!Name(o) \in Swap!Names /\ Base(o) \notin {None, o} /\ phase = "up"
  BY <1>1 DEF OpFits, Steady, Swap!Running, Swap!At
<1>3. NameFits(Swap!Name(o))
  BY <1>2 DEF SwapInv
<1>4. Moved(o)
  BY <1>1, GoView, EndsView, Faulty DEF Swap!Install, Moved, Swap!GivesUp, Swap!Committed, Swap!Steps,
     Swap!Reports, Swap!Transfer
<1>5. /\ UNCHANGED <<phase, Swap!boot, Swap!hist, kept>>
      /\ folder \in [Swap!Names -> Swap!Folders \union {None}] /\ stage \in [Ops -> Ops \union {Torn, None}]
      /\ old \in [Ops -> Swap!Folders \union {None}] /\ intent \in [Ops -> BOOLEAN]
  BY <1>1 DEF Swap!Install, Swap!TypeOK, Swap!disk
<1>6. Swap!TypeOK'
  BY <1>1, <1>2, <1>4, <1>5 DEF Swap!Install, Swap!TypeOK, OpType, Moved, Swap!boot, Swap!hist,
     Swap!disk, Swap!Removed, Swap!Tears, Swap!Unclaims, Swap!Folders
<1>7. Alone(o)
  BY <1>1, <1>2, <1>4, <1>5 DEF Swap!Install, Alone, Moved, Same, Swap!boot, Swap!disk, Swap!Removed,
     Swap!Tears, Swap!Unclaims
<1>8. OpFits(o)'
  <2>0. op'[o].at = IF faults' = faults THEN (IF op[o].used THEN "rebuild" ELSE "installed") ELSE "restore"
    <3>1. CASE UNCHANGED faults /\ op[o].used /\ Swap!Go(o, "rebuild")
      BY <1>1, <3>1, GoView DEF Swap!Steps
    <3>2. CASE UNCHANGED faults /\ ~op[o].used /\ Swap!Go(o, "installed")
      BY <1>1, <3>2, GoView DEF Swap!Steps
    <3>3. CASE faults' # faults /\ Swap!Go(o, "restore")
      BY <1>1, <3>3, GoView DEF Swap!Steps
    <3>4. faults \in Nat
      BY <1>1 DEF Swap!TypeOK
    <3> QED BY <3>1, <3>2, <3>3, <3>4 DEF Swap!Install, Swap!Fault
  <2>1. Steady(o)'
    BY <1>1, <1>2, <1>4, <1>5, GoView, EndsView, Distinct DEF Swap!Install, OpFits, Steady, StepFits,
       Untouched, TornFits, Swap!At, Swap!Name, Swap!Running, Ended, Base, Swap!Transfer, Before,
       Between, Placed, Moved, Same, Swap!Removed, Swap!Tears, Swap!Unclaims, Swap!disk, Swap!hist,
       Swap!GivesUp, Swap!Committed, Swap!Steps, Swap!Reports
  <2>2. StepFits(o)'
    <3>1. UNCHANGED <<op[o].kind, Swap!Name(o), Base(o)>> /\ old' = old /\ intent' = intent /\ intent[o]
          /\ Between(o) /\ stage[o] = o /\ (op[o].used => ~Swap!Transfer(o))
      BY <1>1, <1>4 DEF Swap!Install, OpFits, StepFits, Moved, Same, Swap!Name, Base, Swap!At
    <3>2. CASE faults' = faults
      <4>1. op'[o].at \in {"rebuild", "installed"} /\ (op'[o].at = "rebuild" => op[o].used)
        BY <2>0, <3>2
      <4>2. folder'[Swap!Name(o)] = o
        <5>1. faults' # faults + 1
          BY <1>1, <3>2 DEF Swap!TypeOK
        <5> QED BY <1>2, <1>5, <3>1, <3>2, <5>1 DEF Swap!Install, Swap!Fault
      <4> QED BY <3>1, <4>1, <4>2 DEF StepFits, Placed, Between, Swap!At, Swap!Transfer, Swap!Name, Base
    <3>3. CASE faults' # faults
      <4>1. op'[o].at = "restore" /\ folder' = folder /\ stage' = stage
        BY <2>0, <3>3 DEF Swap!Install
      <4> QED BY <3>1, <4>1 DEF StepFits, Between, Swap!At, Swap!Transfer, Swap!Name, Base
    <3> QED BY <3>2, <3>3
  <2>3. Untouched(o)'
    BY <1>1, <1>2, <1>4, <1>5, GoView, EndsView, Distinct DEF Swap!Install, OpFits, Steady, StepFits,
       Untouched, TornFits, Swap!At, Swap!Name, Swap!Running, Ended, Base, Swap!Transfer, Before,
       Between, Placed, Moved, Same, Swap!Removed, Swap!Tears, Swap!Unclaims, Swap!disk, Swap!hist,
       Swap!GivesUp, Swap!Committed, Swap!Steps, Swap!Reports
  <2>4. TornFits(o)'
    BY <1>1, <1>2, <1>4, <1>5, GoView, EndsView, Distinct DEF Swap!Install, OpFits, Steady, StepFits,
       Untouched, TornFits, Swap!At, Swap!Name, Swap!Running, Ended, Base, Swap!Transfer, Before,
       Between, Placed, Moved, Same, Swap!Removed, Swap!Tears, Swap!Unclaims, Swap!disk, Swap!hist,
       Swap!GivesUp, Swap!Committed, Swap!Steps, Swap!Reports
  <2> QED BY <2>1, <2>2, <2>3, <2>4 DEF OpFits
<1>9. NameFits(Swap!Name(o))'
  BY <1>1, <1>2, <1>3, <1>4, <1>5, Distinct DEF Swap!Install, NameFits, OpFits, Steady, StepFits,
     Untouched, TornFits, Swap!At, Swap!Name, Swap!Running, Ended, Base, Swap!Transfer, Before, Between,
     Placed, Moved, Same, Swap!Removed, Swap!Tears, Swap!Unclaims, Swap!disk, Swap!hist, Swap!GivesUp,
     Swap!Committed, Swap!Steps, Swap!Reports
<1>10. /\ folder'[Swap!Name(o)] \in {folder[Swap!Name(o)], o, old[o], Torn, None}
       /\ old'[o] \in {old[o], folder[Swap!Name(o)], Torn, None}
       /\ ~intent'[o] => old'[o] \in {None, Torn}
  BY <1>1, <1>2, <1>5 DEF Swap!Install, OpFits, Steady, StepFits, Untouched, TornFits, Swap!At,
     Swap!Name, Swap!Running, Ended, Base, Swap!Transfer, Before, Between, Placed, Moved, Same,
     Swap!Removed, Swap!Tears, Swap!Unclaims, Swap!disk, Swap!hist, Swap!GivesUp, Swap!Committed,
     Swap!Steps, Swap!Reports
<1> QED BY <1>1, <1>5, <1>6, <1>7, <1>8, <1>9, <1>10, RunStep

LEMMA SwapRestore ==
  ASSUME Swap!SwapAssumption, SwapInv, NEW o \in Ops, Swap!Restore(o)
  PROVE  SwapInv'
<1>1. op[o].at \in {"restore", "rollback"} /\ Swap!Running(o) /\ OpFits(o) /\ Swap!TypeOK
  BY DEF Swap!Restore, Swap!At, Swap!Running, SwapInv
<1>2. Swap!Name(o) \in Swap!Names /\ Base(o) \notin {None, o} /\ phase = "up"
  BY <1>1 DEF OpFits, Steady, Swap!Running, Swap!At
<1>3. NameFits(Swap!Name(o))
  BY <1>2 DEF SwapInv
<1>4. Moved(o)
  BY <1>1, GoView, EndsView, Faulty DEF Swap!Restore, Moved, Swap!GivesUp, Swap!Committed, Swap!Steps,
     Swap!Reports, Swap!Transfer
<1>5. /\ UNCHANGED <<phase, Swap!boot, Swap!hist, kept>>
      /\ folder \in [Swap!Names -> Swap!Folders \union {None}] /\ stage \in [Ops -> Ops \union {Torn, None}]
      /\ old \in [Ops -> Swap!Folders \union {None}] /\ intent \in [Ops -> BOOLEAN]
  BY <1>1 DEF Swap!Restore, Swap!TypeOK, Swap!disk
<1>6. Swap!TypeOK'
  BY <1>1, <1>2, <1>4, <1>5 DEF Swap!Restore, Swap!TypeOK, OpType, Moved, Swap!boot, Swap!hist,
     Swap!disk, Swap!Removed, Swap!Tears, Swap!Unclaims, Swap!Folders
<1>7. Alone(o)
  BY <1>1, <1>2, <1>4, <1>5 DEF Swap!Restore, Alone, Moved, Same, Swap!boot, Swap!disk, Swap!Removed,
     Swap!Tears, Swap!Unclaims
<1>8. OpFits(o)'
  <2>1. Steady(o)'
    BY <1>1, <1>2, <1>4, <1>5, GoView, EndsView, Distinct DEF Swap!Restore, OpFits, Steady, StepFits,
       Untouched, TornFits, Swap!At, Swap!Name, Swap!Running, Ended, Base, Swap!Transfer, Before,
       Between, Placed, Moved, Same, Swap!Removed, Swap!Tears, Swap!Unclaims, Swap!disk, Swap!hist,
       Swap!GivesUp, Swap!Committed, Swap!Steps, Swap!Reports
  <2>2. StepFits(o)'
    BY <1>1, <1>2, <1>4, <1>5, GoView, EndsView, Distinct DEF Swap!Restore, OpFits, Steady, StepFits,
       Untouched, TornFits, Swap!At, Swap!Name, Swap!Running, Ended, Base, Swap!Transfer, Before,
       Between, Placed, Moved, Same, Swap!Removed, Swap!Tears, Swap!Unclaims, Swap!disk, Swap!hist,
       Swap!GivesUp, Swap!Committed, Swap!Steps, Swap!Reports
  <2>3. Untouched(o)'
    BY SMTT(40), <1>1, <1>2, <1>4, <1>5, GoView, EndsView, Distinct DEF Swap!Restore, OpFits, Steady, StepFits,
       Untouched, TornFits, Swap!At, Swap!Name, Swap!Running, Ended, Base, Swap!Transfer, Before,
       Between, Placed, Moved, Same, Swap!Removed, Swap!Tears, Swap!Unclaims, Swap!disk, Swap!hist,
       Swap!GivesUp, Swap!Committed, Swap!Steps, Swap!Reports
  <2>4. TornFits(o)'
    BY SMTT(40), <1>1, <1>2, <1>4, <1>5, GoView, EndsView, Distinct DEF Swap!Restore, OpFits, Steady, StepFits,
       Untouched, TornFits, Swap!At, Swap!Name, Swap!Running, Ended, Base, Swap!Transfer, Before,
       Between, Placed, Moved, Same, Swap!Removed, Swap!Tears, Swap!Unclaims, Swap!disk, Swap!hist,
       Swap!GivesUp, Swap!Committed, Swap!Steps, Swap!Reports
  <2> QED BY <2>1, <2>2, <2>3, <2>4 DEF OpFits
<1>9. NameFits(Swap!Name(o))'
  BY <1>1, <1>2, <1>3, <1>4, <1>5, Distinct DEF Swap!Restore, NameFits, OpFits, Steady, StepFits,
     Untouched, TornFits, Swap!At, Swap!Name, Swap!Running, Ended, Base, Swap!Transfer, Before, Between,
     Placed, Moved, Same, Swap!Removed, Swap!Tears, Swap!Unclaims, Swap!disk, Swap!hist, Swap!GivesUp,
     Swap!Committed, Swap!Steps, Swap!Reports
<1>10. /\ folder'[Swap!Name(o)] \in {folder[Swap!Name(o)], o, old[o], Torn, None}
       /\ old'[o] \in {old[o], folder[Swap!Name(o)], Torn, None}
       /\ ~intent'[o] => old'[o] \in {None, Torn}
  BY <1>1, <1>2, <1>5 DEF Swap!Restore, OpFits, Steady, StepFits, Untouched, TornFits, Swap!At,
     Swap!Name, Swap!Running, Ended, Base, Swap!Transfer, Before, Between, Placed, Moved, Same,
     Swap!Removed, Swap!Tears, Swap!Unclaims, Swap!disk, Swap!hist, Swap!GivesUp, Swap!Committed,
     Swap!Steps, Swap!Reports
<1> QED BY <1>1, <1>5, <1>6, <1>7, <1>8, <1>9, <1>10, RunStep

LEMMA SwapRebuild ==
  ASSUME Swap!SwapAssumption, SwapInv, NEW o \in Ops, Swap!Rebuild(o)
  PROVE  SwapInv'
<1>1. op[o].at \in {"rebuild"} /\ Swap!Running(o) /\ OpFits(o) /\ Swap!TypeOK
  BY DEF Swap!Rebuild, Swap!At, Swap!Running, SwapInv
<1>2. Swap!Name(o) \in Swap!Names /\ Base(o) \notin {None, o} /\ phase = "up"
  BY <1>1 DEF OpFits, Steady, Swap!Running, Swap!At
<1>3. NameFits(Swap!Name(o))
  BY <1>2 DEF SwapInv
<1>4. Moved(o)
  BY <1>1, GoView, EndsView, Faulty DEF Swap!Rebuild, Moved, Swap!GivesUp, Swap!Committed, Swap!Steps,
     Swap!Reports, Swap!Transfer
<1>5. /\ UNCHANGED <<phase, Swap!boot, Swap!hist, kept>>
      /\ folder \in [Swap!Names -> Swap!Folders \union {None}] /\ stage \in [Ops -> Ops \union {Torn, None}]
      /\ old \in [Ops -> Swap!Folders \union {None}] /\ intent \in [Ops -> BOOLEAN]
  BY <1>1 DEF Swap!Rebuild, Swap!TypeOK, Swap!disk
<1>6. Swap!TypeOK'
  BY <1>1, <1>2, <1>4, <1>5 DEF Swap!Rebuild, OpFits, StepFits, Placed, Swap!TypeOK, OpType, Moved,
     Swap!boot, Swap!hist, Swap!disk, Swap!Removed, Swap!Tears, Swap!Unclaims, Swap!Folders
<1>7. Alone(o)
  BY <1>1, <1>2, <1>4, <1>5 DEF Swap!Rebuild, Alone, Moved, Same, Swap!boot, Swap!disk, Swap!Removed,
     Swap!Tears, Swap!Unclaims
<1>8. OpFits(o)'
  <2>1. Steady(o)'
    BY SMTT(40), <1>1, <1>2, <1>4, <1>5, GoView, EndsView, Distinct DEF Swap!Rebuild, OpFits, Steady, StepFits,
       Untouched, TornFits, Swap!At, Swap!Name, Swap!Running, Ended, Base, Swap!Transfer, Before,
       Between, Placed, Moved, Same, Swap!Removed, Swap!Tears, Swap!Unclaims, Swap!disk, Swap!hist,
       Swap!GivesUp, Swap!Committed, Swap!Steps, Swap!Reports
  <2>2. StepFits(o)'
    BY <1>1, <1>2, <1>4, <1>5, GoView, EndsView, Distinct DEF Swap!Rebuild, OpFits, Steady, StepFits,
       Untouched, TornFits, Swap!At, Swap!Name, Swap!Running, Ended, Base, Swap!Transfer, Before,
       Between, Placed, Moved, Same, Swap!Removed, Swap!Tears, Swap!Unclaims, Swap!disk, Swap!hist,
       Swap!GivesUp, Swap!Committed, Swap!Steps, Swap!Reports
  <2>3. Untouched(o)'
    BY <1>1, <1>2, <1>4, <1>5, GoView, EndsView, Distinct DEF Swap!Rebuild, OpFits, Steady, StepFits,
       Untouched, TornFits, Swap!At, Swap!Name, Swap!Running, Ended, Base, Swap!Transfer, Before,
       Between, Placed, Moved, Same, Swap!Removed, Swap!Tears, Swap!Unclaims, Swap!disk, Swap!hist,
       Swap!GivesUp, Swap!Committed, Swap!Steps, Swap!Reports
  <2>4. TornFits(o)'
    BY <1>1, <1>2, <1>4, <1>5, GoView, EndsView, Distinct DEF Swap!Rebuild, OpFits, Steady, StepFits,
       Untouched, TornFits, Swap!At, Swap!Name, Swap!Running, Ended, Base, Swap!Transfer, Before,
       Between, Placed, Moved, Same, Swap!Removed, Swap!Tears, Swap!Unclaims, Swap!disk, Swap!hist,
       Swap!GivesUp, Swap!Committed, Swap!Steps, Swap!Reports
  <2> QED BY <2>1, <2>2, <2>3, <2>4 DEF OpFits
<1>9. NameFits(Swap!Name(o))'
  BY <1>1, <1>2, <1>3, <1>4, <1>5, Distinct DEF Swap!Rebuild, NameFits, OpFits, Steady, StepFits,
     Untouched, TornFits, Swap!At, Swap!Name, Swap!Running, Ended, Base, Swap!Transfer, Before, Between,
     Placed, Moved, Same, Swap!Removed, Swap!Tears, Swap!Unclaims, Swap!disk, Swap!hist, Swap!GivesUp,
     Swap!Committed, Swap!Steps, Swap!Reports
<1>10. /\ folder'[Swap!Name(o)] \in {folder[Swap!Name(o)], o, old[o], Torn, None}
       /\ old'[o] \in {old[o], folder[Swap!Name(o)], Torn, None}
       /\ ~intent'[o] => old'[o] \in {None, Torn}
  BY <1>1, <1>2, <1>5 DEF Swap!Rebuild, OpFits, Steady, StepFits, Untouched, TornFits, Swap!At,
     Swap!Name, Swap!Running, Ended, Base, Swap!Transfer, Before, Between, Placed, Moved, Same,
     Swap!Removed, Swap!Tears, Swap!Unclaims, Swap!disk, Swap!hist, Swap!GivesUp, Swap!Committed,
     Swap!Steps, Swap!Reports
<1> QED BY <1>1, <1>5, <1>6, <1>7, <1>8, <1>9, <1>10, RunStep

LEMMA SwapInstalled ==
  ASSUME Swap!SwapAssumption, SwapInv, NEW o \in Ops, Swap!Installed(o)
  PROVE  SwapInv'
<1>1. op[o].at \in {"installed"} /\ Swap!Running(o) /\ OpFits(o) /\ Swap!TypeOK
  BY DEF Swap!Installed, Swap!At, Swap!Running, SwapInv
<1>2. Swap!Name(o) \in Swap!Names /\ Base(o) \notin {None, o} /\ phase = "up"
  BY <1>1 DEF OpFits, Steady, Swap!Running, Swap!At
<1>3. NameFits(Swap!Name(o))
  BY <1>2 DEF SwapInv
<1>4. Moved(o)
  BY <1>1, GoView, EndsView, Faulty DEF Swap!Installed, Moved, Swap!GivesUp, Swap!Committed, Swap!Steps,
     Swap!Reports, Swap!Transfer
<1>5. /\ UNCHANGED <<phase, Swap!boot, Swap!hist, kept>>
      /\ folder \in [Swap!Names -> Swap!Folders \union {None}] /\ stage \in [Ops -> Ops \union {Torn, None}]
      /\ old \in [Ops -> Swap!Folders \union {None}] /\ intent \in [Ops -> BOOLEAN]
  BY <1>1 DEF Swap!Installed, Swap!TypeOK, Swap!disk
<1>6. Swap!TypeOK'
  BY <1>1, <1>2, <1>4, <1>5 DEF Swap!Installed, Swap!TypeOK, OpType, Moved, Swap!boot, Swap!hist,
     Swap!disk, Swap!Removed, Swap!Tears, Swap!Unclaims, Swap!Folders
<1>7. Alone(o)
  BY <1>1, <1>2, <1>4, <1>5 DEF Swap!Installed, Alone, Moved, Same, Swap!boot, Swap!disk, Swap!Removed,
     Swap!Tears, Swap!Unclaims
<1>8. OpFits(o)'
  <2>1. Steady(o)'
    BY <1>1, <1>2, <1>4, <1>5, GoView, EndsView, Distinct DEF Swap!Installed, OpFits, Steady, StepFits,
       Untouched, TornFits, Swap!At, Swap!Name, Swap!Running, Ended, Base, Swap!Transfer, Before,
       Between, Placed, Moved, Same, Swap!Removed, Swap!Tears, Swap!Unclaims, Swap!disk, Swap!hist,
       Swap!GivesUp, Swap!Committed, Swap!Steps, Swap!Reports
  <2>2. StepFits(o)'
    BY <1>1, <1>2, <1>4, <1>5, GoView, EndsView, Distinct DEF Swap!Installed, OpFits, Steady, StepFits,
       Untouched, TornFits, Swap!At, Swap!Name, Swap!Running, Ended, Base, Swap!Transfer, Before,
       Between, Placed, Moved, Same, Swap!Removed, Swap!Tears, Swap!Unclaims, Swap!disk, Swap!hist,
       Swap!GivesUp, Swap!Committed, Swap!Steps, Swap!Reports
  <2>3. Untouched(o)'
    BY <1>1, <1>2, <1>4, <1>5, GoView, EndsView, Distinct DEF Swap!Installed, OpFits, Steady, StepFits,
       Untouched, TornFits, Swap!At, Swap!Name, Swap!Running, Ended, Base, Swap!Transfer, Before,
       Between, Placed, Moved, Same, Swap!Removed, Swap!Tears, Swap!Unclaims, Swap!disk, Swap!hist,
       Swap!GivesUp, Swap!Committed, Swap!Steps, Swap!Reports
  <2>4. TornFits(o)'
    BY <1>1, <1>2, <1>4, <1>5, GoView, EndsView, Distinct DEF Swap!Installed, OpFits, Steady, StepFits,
       Untouched, TornFits, Swap!At, Swap!Name, Swap!Running, Ended, Base, Swap!Transfer, Before,
       Between, Placed, Moved, Same, Swap!Removed, Swap!Tears, Swap!Unclaims, Swap!disk, Swap!hist,
       Swap!GivesUp, Swap!Committed, Swap!Steps, Swap!Reports
  <2> QED BY <2>1, <2>2, <2>3, <2>4 DEF OpFits
<1>9. NameFits(Swap!Name(o))'
  BY <1>1, <1>2, <1>3, <1>4, <1>5, Distinct DEF Swap!Installed, NameFits, OpFits, Steady, StepFits,
     Untouched, TornFits, Swap!At, Swap!Name, Swap!Running, Ended, Base, Swap!Transfer, Before, Between,
     Placed, Moved, Same, Swap!Removed, Swap!Tears, Swap!Unclaims, Swap!disk, Swap!hist, Swap!GivesUp,
     Swap!Committed, Swap!Steps, Swap!Reports
<1>10. /\ folder'[Swap!Name(o)] \in {folder[Swap!Name(o)], o, old[o], Torn, None}
       /\ old'[o] \in {old[o], folder[Swap!Name(o)], Torn, None}
       /\ ~intent'[o] => old'[o] \in {None, Torn}
  BY <1>1, <1>2, <1>5 DEF Swap!Installed, OpFits, Steady, StepFits, Untouched, TornFits, Swap!At,
     Swap!Name, Swap!Running, Ended, Base, Swap!Transfer, Before, Between, Placed, Moved, Same,
     Swap!Removed, Swap!Tears, Swap!Unclaims, Swap!disk, Swap!hist, Swap!GivesUp, Swap!Committed,
     Swap!Steps, Swap!Reports
<1> QED BY <1>1, <1>5, <1>6, <1>7, <1>8, <1>9, <1>10, RunStep

LEMMA SwapClear ==
  ASSUME Swap!SwapAssumption, SwapInv, NEW o \in Ops, Swap!Clear(o)
  PROVE  SwapInv'
<1>1. op[o].at \in {"clear"} /\ Swap!Running(o) /\ OpFits(o) /\ Swap!TypeOK
  BY DEF Swap!Clear, Swap!At, Swap!Running, SwapInv
<1>2. Swap!Name(o) \in Swap!Names /\ Base(o) \notin {None, o} /\ phase = "up"
  BY <1>1 DEF OpFits, Steady, Swap!Running, Swap!At
<1>3. NameFits(Swap!Name(o))
  BY <1>2 DEF SwapInv
<1>4. Moved(o)
  BY <1>1, GoView, EndsView, Faulty DEF Swap!Clear, Moved, Swap!GivesUp, Swap!Committed, Swap!Steps,
     Swap!Reports, Swap!Transfer
<1>5. /\ UNCHANGED <<phase, Swap!boot, Swap!hist, kept>>
      /\ folder \in [Swap!Names -> Swap!Folders \union {None}] /\ stage \in [Ops -> Ops \union {Torn, None}]
      /\ old \in [Ops -> Swap!Folders \union {None}] /\ intent \in [Ops -> BOOLEAN]
  BY <1>1 DEF Swap!Clear, Swap!TypeOK, Swap!disk
<1>6. Swap!TypeOK'
  BY SMTT(20), <1>1, <1>2, <1>4, <1>5 DEF Swap!Clear, Swap!TypeOK, OpType, Moved, Swap!boot, Swap!hist, Swap!disk,
     Swap!Removed, Swap!Tears, Swap!Unclaims, Swap!Folders
<1>7. Alone(o)
  BY <1>1, <1>2, <1>4, <1>5 DEF Swap!Clear, Alone, Moved, Same, Swap!boot, Swap!disk, Swap!Removed,
     Swap!Tears, Swap!Unclaims
<1>8. OpFits(o)'
  <2>1. Steady(o)'
    BY <1>1, <1>2, <1>4, <1>5, GoView, EndsView, Distinct DEF Swap!Clear, OpFits, Steady, StepFits,
       Untouched, TornFits, Swap!At, Swap!Name, Swap!Running, Ended, Base, Swap!Transfer, Before,
       Between, Placed, Moved, Same, Swap!Removed, Swap!Tears, Swap!Unclaims, Swap!disk, Swap!hist,
       Swap!GivesUp, Swap!Committed, Swap!Steps, Swap!Reports
  <2>2. StepFits(o)'
    BY <1>1, <1>2, <1>4, <1>5, GoView, EndsView, Distinct DEF Swap!Clear, OpFits, Steady, StepFits,
       Untouched, TornFits, Swap!At, Swap!Name, Swap!Running, Ended, Base, Swap!Transfer, Before,
       Between, Placed, Moved, Same, Swap!Removed, Swap!Tears, Swap!Unclaims, Swap!disk, Swap!hist,
       Swap!GivesUp, Swap!Committed, Swap!Steps, Swap!Reports
  <2>3. Untouched(o)'
    BY <1>1, <1>2, <1>4, <1>5, GoView, EndsView, Distinct DEF Swap!Clear, OpFits, Steady, StepFits,
       Untouched, TornFits, Swap!At, Swap!Name, Swap!Running, Ended, Base, Swap!Transfer, Before,
       Between, Placed, Moved, Same, Swap!Removed, Swap!Tears, Swap!Unclaims, Swap!disk, Swap!hist,
       Swap!GivesUp, Swap!Committed, Swap!Steps, Swap!Reports
  <2>4. TornFits(o)'
    BY SMTT(40), <1>1, <1>2, <1>4, <1>5, GoView, EndsView, Distinct DEF Swap!Clear, OpFits, Steady, StepFits,
       Untouched, TornFits, Swap!At, Swap!Name, Swap!Running, Ended, Base, Swap!Transfer, Before,
       Between, Placed, Moved, Same, Swap!Removed, Swap!Tears, Swap!Unclaims, Swap!disk, Swap!hist,
       Swap!GivesUp, Swap!Committed, Swap!Steps, Swap!Reports
  <2> QED BY <2>1, <2>2, <2>3, <2>4 DEF OpFits
<1>9. NameFits(Swap!Name(o))'
  BY <1>1, <1>2, <1>3, <1>4, <1>5, Distinct DEF Swap!Clear, NameFits, OpFits, Steady, StepFits,
     Untouched, TornFits, Swap!At, Swap!Name, Swap!Running, Ended, Base, Swap!Transfer, Before, Between,
     Placed, Moved, Same, Swap!Removed, Swap!Tears, Swap!Unclaims, Swap!disk, Swap!hist, Swap!GivesUp,
     Swap!Committed, Swap!Steps, Swap!Reports
<1>10. /\ folder'[Swap!Name(o)] \in {folder[Swap!Name(o)], o, old[o], Torn, None}
       /\ old'[o] \in {old[o], folder[Swap!Name(o)], Torn, None}
       /\ ~intent'[o] => old'[o] \in {None, Torn}
  BY <1>1, <1>2, <1>5 DEF Swap!Clear, OpFits, Steady, StepFits, Untouched, TornFits, Swap!At, Swap!Name,
     Swap!Running, Ended, Base, Swap!Transfer, Before, Between, Placed, Moved, Same, Swap!Removed,
     Swap!Tears, Swap!Unclaims, Swap!disk, Swap!hist, Swap!GivesUp, Swap!Committed, Swap!Steps,
     Swap!Reports
<1> QED BY <1>1, <1>5, <1>6, <1>7, <1>8, <1>9, <1>10, RunStep

LEMMA SwapUnclaim ==
  ASSUME Swap!SwapAssumption, SwapInv, NEW o \in Ops, Swap!Unclaim(o)
  PROVE  SwapInv'
<1>1. op[o].at \in {"unclaim"} /\ Swap!Running(o) /\ OpFits(o) /\ Swap!TypeOK
  BY DEF Swap!Unclaim, Swap!At, Swap!Running, SwapInv
<1>2. Swap!Name(o) \in Swap!Names /\ Base(o) \notin {None, o} /\ phase = "up"
  BY <1>1 DEF OpFits, Steady, Swap!Running, Swap!At
<1>3. NameFits(Swap!Name(o))
  BY <1>2 DEF SwapInv
<1>4. Moved(o)
  BY <1>1, GoView, EndsView, Faulty DEF Swap!Unclaim, Moved, Swap!GivesUp, Swap!Committed, Swap!Steps,
     Swap!Reports, Swap!Transfer
<1>5. /\ UNCHANGED <<phase, Swap!boot, Swap!hist, kept>>
      /\ folder \in [Swap!Names -> Swap!Folders \union {None}] /\ stage \in [Ops -> Ops \union {Torn, None}]
      /\ old \in [Ops -> Swap!Folders \union {None}] /\ intent \in [Ops -> BOOLEAN]
  BY <1>1 DEF Swap!Unclaim, Swap!TypeOK, Swap!disk
<1>6. Swap!TypeOK'
  BY ZenonT(30), <1>1, <1>2, <1>4, <1>5 DEF Swap!Unclaim, Swap!TypeOK, OpType, Moved, Swap!boot, Swap!hist,
     Swap!disk, Swap!Removed, Swap!Tears, Swap!Unclaims, Swap!Folders
<1>7. Alone(o)
  BY <1>1, <1>2, <1>4, <1>5 DEF Swap!Unclaim, Alone, Moved, Same, Swap!boot, Swap!disk, Swap!Removed,
     Swap!Tears, Swap!Unclaims
<1>8. OpFits(o)'
  <2>1. Steady(o)'
    BY <1>1, <1>2, <1>4, <1>5, GoView, EndsView, Distinct DEF Swap!Unclaim, OpFits, Steady, StepFits,
       Untouched, TornFits, Swap!At, Swap!Name, Swap!Running, Ended, Base, Swap!Transfer, Before,
       Between, Placed, Moved, Same, Swap!Removed, Swap!Tears, Swap!Unclaims, Swap!disk, Swap!hist,
       Swap!GivesUp, Swap!Committed, Swap!Steps, Swap!Reports
  <2>2. StepFits(o)'
    BY <1>1, <1>2, <1>4, <1>5, GoView, EndsView, Distinct DEF Swap!Unclaim, OpFits, Steady, StepFits,
       Untouched, TornFits, Swap!At, Swap!Name, Swap!Running, Ended, Base, Swap!Transfer, Before,
       Between, Placed, Moved, Same, Swap!Removed, Swap!Tears, Swap!Unclaims, Swap!disk, Swap!hist,
       Swap!GivesUp, Swap!Committed, Swap!Steps, Swap!Reports
  <2>3. Untouched(o)'
    BY <1>1, <1>2, <1>4, <1>5, GoView, EndsView, Distinct DEF Swap!Unclaim, OpFits, Steady, StepFits,
       Untouched, TornFits, Swap!At, Swap!Name, Swap!Running, Ended, Base, Swap!Transfer, Before,
       Between, Placed, Moved, Same, Swap!Removed, Swap!Tears, Swap!Unclaims, Swap!disk, Swap!hist,
       Swap!GivesUp, Swap!Committed, Swap!Steps, Swap!Reports
  <2>4. TornFits(o)'
    BY <1>1, <1>2, <1>4, <1>5, GoView, EndsView, Distinct DEF Swap!Unclaim, OpFits, Steady, StepFits,
       Untouched, TornFits, Swap!At, Swap!Name, Swap!Running, Ended, Base, Swap!Transfer, Before,
       Between, Placed, Moved, Same, Swap!Removed, Swap!Tears, Swap!Unclaims, Swap!disk, Swap!hist,
       Swap!GivesUp, Swap!Committed, Swap!Steps, Swap!Reports
  <2> QED BY <2>1, <2>2, <2>3, <2>4 DEF OpFits
<1>9. NameFits(Swap!Name(o))'
  BY <1>1, <1>2, <1>3, <1>4, <1>5, Distinct DEF Swap!Unclaim, NameFits, OpFits, Steady, StepFits,
     Untouched, TornFits, Swap!At, Swap!Name, Swap!Running, Ended, Base, Swap!Transfer, Before, Between,
     Placed, Moved, Same, Swap!Removed, Swap!Tears, Swap!Unclaims, Swap!disk, Swap!hist, Swap!GivesUp,
     Swap!Committed, Swap!Steps, Swap!Reports
<1>10. /\ folder'[Swap!Name(o)] \in {folder[Swap!Name(o)], o, old[o], Torn, None}
       /\ old'[o] \in {old[o], folder[Swap!Name(o)], Torn, None}
       /\ ~intent'[o] => old'[o] \in {None, Torn}
  BY <1>1, <1>2, <1>5 DEF Swap!Unclaim, OpFits, Steady, StepFits, Untouched, TornFits, Swap!At,
     Swap!Name, Swap!Running, Ended, Base, Swap!Transfer, Before, Between, Placed, Moved, Same,
     Swap!Removed, Swap!Tears, Swap!Unclaims, Swap!disk, Swap!hist, Swap!GivesUp, Swap!Committed,
     Swap!Steps, Swap!Reports
<1> QED BY <1>1, <1>5, <1>6, <1>7, <1>8, <1>9, <1>10, RunStep

LEMMA SwapDiscard ==
  ASSUME Swap!SwapAssumption, SwapInv, NEW o \in Ops, Swap!Discard(o)
  PROVE  SwapInv'
<1>1. op[o].at \in {"discard"} /\ Swap!Running(o) /\ OpFits(o) /\ Swap!TypeOK
  BY DEF Swap!Discard, Swap!At, Swap!Running, SwapInv
<1>2. Swap!Name(o) \in Swap!Names /\ Base(o) \notin {None, o} /\ phase = "up"
  BY <1>1 DEF OpFits, Steady, Swap!Running, Swap!At
<1>3. NameFits(Swap!Name(o))
  BY <1>2 DEF SwapInv
<1>4. Moved(o)
  BY <1>1, GoView, EndsView, Faulty DEF Swap!Discard, Moved, Swap!GivesUp, Swap!Committed, Swap!Steps,
     Swap!Reports, Swap!Transfer
<1>5. /\ UNCHANGED <<phase, Swap!boot, Swap!hist, kept>>
      /\ folder \in [Swap!Names -> Swap!Folders \union {None}] /\ stage \in [Ops -> Ops \union {Torn, None}]
      /\ old \in [Ops -> Swap!Folders \union {None}] /\ intent \in [Ops -> BOOLEAN]
  BY <1>1 DEF Swap!Discard, Swap!TypeOK, Swap!disk
<1>6. Swap!TypeOK'
  BY <1>1, <1>2, <1>4, <1>5 DEF Swap!Discard, Swap!TypeOK, OpType, Moved, Swap!boot, Swap!hist,
     Swap!disk, Swap!Removed, Swap!Tears, Swap!Unclaims, Swap!Folders
<1>7. Alone(o)
  BY <1>1, <1>2, <1>4, <1>5 DEF Swap!Discard, Alone, Moved, Same, Swap!boot, Swap!disk, Swap!Removed,
     Swap!Tears, Swap!Unclaims
<1>8. OpFits(o)'
  <2>1. Steady(o)'
    BY <1>1, <1>2, <1>4, <1>5, GoView, EndsView, Distinct DEF Swap!Discard, OpFits, Steady, StepFits,
       Untouched, TornFits, Swap!At, Swap!Name, Swap!Running, Ended, Base, Swap!Transfer, Before,
       Between, Placed, Moved, Same, Swap!Removed, Swap!Tears, Swap!Unclaims, Swap!disk, Swap!hist,
       Swap!GivesUp, Swap!Committed, Swap!Steps, Swap!Reports
  <2>2. StepFits(o)'
    BY <1>1, <1>2, <1>4, <1>5, GoView, EndsView, Distinct DEF Swap!Discard, OpFits, Steady, StepFits,
       Untouched, TornFits, Swap!At, Swap!Name, Swap!Running, Ended, Base, Swap!Transfer, Before,
       Between, Placed, Moved, Same, Swap!Removed, Swap!Tears, Swap!Unclaims, Swap!disk, Swap!hist,
       Swap!GivesUp, Swap!Committed, Swap!Steps, Swap!Reports
  <2>3. Untouched(o)'
    BY <1>1, <1>2, <1>4, <1>5, GoView, EndsView, Distinct DEF Swap!Discard, OpFits, Steady, StepFits,
       Untouched, TornFits, Swap!At, Swap!Name, Swap!Running, Ended, Base, Swap!Transfer, Before,
       Between, Placed, Moved, Same, Swap!Removed, Swap!Tears, Swap!Unclaims, Swap!disk, Swap!hist,
       Swap!GivesUp, Swap!Committed, Swap!Steps, Swap!Reports
  <2>4. TornFits(o)'
    BY <1>1, <1>2, <1>4, <1>5, GoView, EndsView, Distinct DEF Swap!Discard, OpFits, Steady, StepFits,
       Untouched, TornFits, Swap!At, Swap!Name, Swap!Running, Ended, Base, Swap!Transfer, Before,
       Between, Placed, Moved, Same, Swap!Removed, Swap!Tears, Swap!Unclaims, Swap!disk, Swap!hist,
       Swap!GivesUp, Swap!Committed, Swap!Steps, Swap!Reports
  <2> QED BY <2>1, <2>2, <2>3, <2>4 DEF OpFits
<1>9. NameFits(Swap!Name(o))'
  BY <1>1, <1>2, <1>3, <1>4, <1>5, Distinct DEF Swap!Discard, NameFits, OpFits, Steady, StepFits,
     Untouched, TornFits, Swap!At, Swap!Name, Swap!Running, Ended, Base, Swap!Transfer, Before, Between,
     Placed, Moved, Same, Swap!Removed, Swap!Tears, Swap!Unclaims, Swap!disk, Swap!hist, Swap!GivesUp,
     Swap!Committed, Swap!Steps, Swap!Reports
<1>10. /\ folder'[Swap!Name(o)] \in {folder[Swap!Name(o)], o, old[o], Torn, None}
       /\ old'[o] \in {old[o], folder[Swap!Name(o)], Torn, None}
       /\ ~intent'[o] => old'[o] \in {None, Torn}
  BY <1>1, <1>2, <1>5 DEF Swap!Discard, OpFits, Steady, StepFits, Untouched, TornFits, Swap!At,
     Swap!Name, Swap!Running, Ended, Base, Swap!Transfer, Before, Between, Placed, Moved, Same,
     Swap!Removed, Swap!Tears, Swap!Unclaims, Swap!disk, Swap!hist, Swap!GivesUp, Swap!Committed,
     Swap!Steps, Swap!Reports
<1> QED BY <1>1, <1>5, <1>6, <1>7, <1>8, <1>9, <1>10, RunStep

LEMMA SwapUndone ==
  ASSUME Swap!SwapAssumption, SwapInv, NEW o \in Ops, Swap!Undone(o)
  PROVE  SwapInv'
<1>1. op[o].at \in {"undone"} /\ Swap!Running(o) /\ OpFits(o) /\ Swap!TypeOK
  BY DEF Swap!Undone, Swap!At, Swap!Running, SwapInv
<1>2. Swap!Name(o) \in Swap!Names /\ Base(o) \notin {None, o} /\ phase = "up"
  BY <1>1 DEF OpFits, Steady, Swap!Running, Swap!At
<1>3. NameFits(Swap!Name(o))
  BY <1>2 DEF SwapInv
<1>4. Moved(o)
  BY <1>1, GoView, EndsView, Faulty DEF Swap!Undone, Moved, Swap!GivesUp, Swap!Committed, Swap!Steps,
     Swap!Reports, Swap!Transfer
<1>5. /\ UNCHANGED <<phase, Swap!boot, Swap!hist, kept>>
      /\ folder \in [Swap!Names -> Swap!Folders \union {None}] /\ stage \in [Ops -> Ops \union {Torn, None}]
      /\ old \in [Ops -> Swap!Folders \union {None}] /\ intent \in [Ops -> BOOLEAN]
  BY <1>1 DEF Swap!Undone, Swap!TypeOK, Swap!disk
<1>6. Swap!TypeOK'
  BY ZenonT(30), <1>1, <1>2, <1>4, <1>5 DEF Swap!Undone, Swap!TypeOK, OpType, Moved, Swap!boot, Swap!hist,
     Swap!disk, Swap!Removed, Swap!Tears, Swap!Unclaims, Swap!Folders
<1>7. Alone(o)
  BY <1>1, <1>2, <1>4, <1>5 DEF Swap!Undone, Alone, Moved, Same, Swap!boot, Swap!disk, Swap!Removed,
     Swap!Tears, Swap!Unclaims
<1>8. OpFits(o)'
  <2>1. Steady(o)'
    BY <1>1, <1>2, <1>4, <1>5, GoView, EndsView, Distinct DEF Swap!Undone, OpFits, Steady, StepFits,
       Untouched, TornFits, Swap!At, Swap!Name, Swap!Running, Ended, Base, Swap!Transfer, Before,
       Between, Placed, Moved, Same, Swap!Removed, Swap!Tears, Swap!Unclaims, Swap!disk, Swap!hist,
       Swap!GivesUp, Swap!Committed, Swap!Steps, Swap!Reports
  <2>2. StepFits(o)'
    BY <1>1, <1>2, <1>4, <1>5, GoView, EndsView, Distinct DEF Swap!Undone, OpFits, Steady, StepFits,
       Untouched, TornFits, Swap!At, Swap!Name, Swap!Running, Ended, Base, Swap!Transfer, Before,
       Between, Placed, Moved, Same, Swap!Removed, Swap!Tears, Swap!Unclaims, Swap!disk, Swap!hist,
       Swap!GivesUp, Swap!Committed, Swap!Steps, Swap!Reports
  <2>3. Untouched(o)'
    BY <1>1, <1>2, <1>4, <1>5, GoView, EndsView, Distinct DEF Swap!Undone, OpFits, Steady, StepFits,
       Untouched, TornFits, Swap!At, Swap!Name, Swap!Running, Ended, Base, Swap!Transfer, Before,
       Between, Placed, Moved, Same, Swap!Removed, Swap!Tears, Swap!Unclaims, Swap!disk, Swap!hist,
       Swap!GivesUp, Swap!Committed, Swap!Steps, Swap!Reports
  <2>4. TornFits(o)'
    BY <1>1, <1>2, <1>4, <1>5, GoView, EndsView, Distinct DEF Swap!Undone, OpFits, Steady, StepFits,
       Untouched, TornFits, Swap!At, Swap!Name, Swap!Running, Ended, Base, Swap!Transfer, Before,
       Between, Placed, Moved, Same, Swap!Removed, Swap!Tears, Swap!Unclaims, Swap!disk, Swap!hist,
       Swap!GivesUp, Swap!Committed, Swap!Steps, Swap!Reports
  <2> QED BY <2>1, <2>2, <2>3, <2>4 DEF OpFits
<1>9. NameFits(Swap!Name(o))'
  BY <1>1, <1>2, <1>3, <1>4, <1>5, Distinct DEF Swap!Undone, NameFits, OpFits, Steady, StepFits,
     Untouched, TornFits, Swap!At, Swap!Name, Swap!Running, Ended, Base, Swap!Transfer, Before, Between,
     Placed, Moved, Same, Swap!Removed, Swap!Tears, Swap!Unclaims, Swap!disk, Swap!hist, Swap!GivesUp,
     Swap!Committed, Swap!Steps, Swap!Reports
<1>10. /\ folder'[Swap!Name(o)] \in {folder[Swap!Name(o)], o, old[o], Torn, None}
       /\ old'[o] \in {old[o], folder[Swap!Name(o)], Torn, None}
       /\ ~intent'[o] => old'[o] \in {None, Torn}
  BY <1>1, <1>2, <1>5 DEF Swap!Undone, OpFits, Steady, StepFits, Untouched, TornFits, Swap!At,
     Swap!Name, Swap!Running, Ended, Base, Swap!Transfer, Before, Between, Placed, Moved, Same,
     Swap!Removed, Swap!Tears, Swap!Unclaims, Swap!disk, Swap!hist, Swap!GivesUp, Swap!Committed,
     Swap!Steps, Swap!Reports
<1> QED BY <1>1, <1>5, <1>6, <1>7, <1>8, <1>9, <1>10, RunStep

LEMMA SwapAside ==
  ASSUME Swap!SwapAssumption, SwapInv, NEW o \in Ops, Swap!Aside(o)
  PROVE  SwapInv'
<1>1. Swap!At(o, "synced") /\ Swap!Running(o) /\ OpFits(o) /\ Swap!TypeOK
  BY DEF Swap!Aside, Swap!At, Swap!Running, SwapInv
<1>2. Swap!Name(o) \in Swap!Names /\ Base(o) \notin {None, o} /\ phase = "up" /\ intent[o] /\ Before(o) /\ stage[o] = o
  BY <1>1 DEF OpFits, Steady, StepFits, Swap!Running, Swap!At
<1>3. /\ UNCHANGED <<phase, Swap!boot, Swap!hist, kept, stage, intent>>
      /\ folder \in [Swap!Names -> Swap!Folders \union {None}] /\ old \in [Ops -> Swap!Folders \union {None}]
      /\ op \in [Ops -> OpType]
  BY <1>1 DEF Swap!Aside, Swap!TypeOK, OpType
<1>4. CASE Swap!Fault /\ Swap!Go(o, "discard") /\ UNCHANGED <<folder, old>>
  <2>1. op' \in [Ops -> OpType] /\ op'[o].at = "discard" /\ Same(o)
    BY <1>1, <1>4, GoView DEF Swap!Steps
  <2>2. Swap!TypeOK'
    BY <1>1, <1>3, <1>4, <2>1, Faulty DEF Swap!TypeOK, OpType, Swap!boot, Swap!hist
  <2>3. Alone(o)
    BY <1>3, <1>4, <2>1 DEF Alone, Same, Swap!boot
  <2>4. OpFits(o)'
    BY <1>1, <1>2, <1>3, <1>4, <2>1 DEF OpFits, Steady, StepFits, Untouched, TornFits, Swap!At,
       Swap!Name, Swap!Running, Ended, Base, Swap!Transfer, Before, Between, Placed, Same, Swap!hist
  <2>5. NameFits(Swap!Name(o))'
    BY <1>2, <1>3, <1>4, <2>1 DEF NameFits, SwapInv, Same, Swap!Name, Swap!hist
  <2> QED BY <1>1, <1>2, <1>3, <1>4, <2>2, <2>3, <2>4, <2>5, RunStep
<1>5. ASSUME old' = [old EXCEPT ![o] = folder[Swap!Name(o)]], folder' = [folder EXCEPT ![Swap!Name(o)] = None],
             NEW used \in IF Swap!Transfer(o) THEN {FALSE} ELSE BOOLEAN,
             op' = [op EXCEPT ![o].at = "aside", ![o].used = used], UNCHANGED faults
      PROVE  SwapInv'
  <2>1. /\ op'[o] = [op[o] EXCEPT !.at = "aside", !.used = used]
        /\ \A p \in Ops : p # o => op'[p] = op[p]
    BY <1>3, <1>5
  <2>2. used \in BOOLEAN /\ (used => ~Swap!Transfer(o))
    BY <1>5
  <2>3. op' \in [Ops -> OpType]
    <3>1. [op[o] EXCEPT !.at = "aside", !.used = used] \in OpType
      BY <1>3, <2>2 DEF OpType, Swap!Steps
    <3> QED BY <1>3, <1>5, <2>1, <3>1
  <2>4. op'[o].at = "aside" /\ Same(o) /\ op'[o].used = used
    BY <1>3, <2>1 DEF Same, OpType, Swap!Name, Base
  <2>5. /\ old'[o] = Base(o) /\ folder'[Swap!Name(o)] = None
        /\ \A p \in Ops : p # o => old'[p] = old[p]
        /\ \A n \in Swap!Names : n # Swap!Name(o) => folder'[n] = folder[n]
    BY <1>2, <1>3, <1>5 DEF Before
  <2>6. Swap!TypeOK'
    BY <1>1, <1>2, <1>3, <1>5, <2>3 DEF Swap!TypeOK, OpType, Swap!boot, Swap!hist
  <2>7. Alone(o)
    BY <1>3, <2>4, <2>5 DEF Alone, Same, Swap!boot
  <2>8. Base(o) = Torn => Swap!Name(o) \in meddled
    BY <1>2 DEF SwapInv, NameFits, Before
  <2>9. OpFits(o)'
    BY <1>1, <1>2, <1>3, <2>2, <2>4, <2>5, <2>8 DEF OpFits, Steady, StepFits, Untouched, TornFits,
       Swap!At, Swap!Name, Swap!Running, Ended, Base, Swap!Transfer, Before, Between, Placed, Same,
       Swap!hist
  <2>10. NameFits(Swap!Name(o))'
    BY <1>2, <1>3, <2>4, <2>5, Distinct DEF NameFits, Same, Swap!Name
  <2> QED BY <1>1, <1>2, <1>3, <2>4, <2>5, <2>6, <2>7, <2>9, <2>10, RunStep DEF Same, Swap!Name, Before
<1> QED BY <1>4, <1>5 DEF Swap!Aside

LEMMA SwapBegin ==
  ASSUME Swap!SwapAssumption, SwapInv, NEW o \in Ops, NEW n \in Swap!Names, NEW k \in Swap!Kinds, Swap!Begin(o, n, k)
  PROVE  SwapInv'
<1> DEFINE new == [at |-> "building", kind |-> k, name |-> n, base |-> folder[n],
                   used |-> FALSE, report |-> None]
<1>1. /\ Swap!At(o, "idle") /\ phase = "up" /\ folder[n] # None /\ (k # "transfer" => n \in Mods)
      /\ UNCHANGED <<folder, old, kept, intent, phase, Swap!boot, Swap!hist, faults>>
      /\ Swap!TypeOK /\ OpFits(o) /\ op \in [Ops -> OpType]
  BY DEF Swap!Begin, SwapInv, Swap!TypeOK, OpType
<1>2. new \in OpType
  BY <1>1 DEF Swap!TypeOK, OpType, Swap!Steps
<1>3. /\ op' \in [Ops -> OpType] /\ op'[o] = new
      /\ \A p \in Ops : p # o => op'[p] = op[p]
  <2>1. op' = [op EXCEPT ![o] = new]
    BY DEF Swap!Begin
  <2> QED BY <1>1, <1>2, <2>1
<1>4. /\ stage' \in [Ops -> Ops \union {Torn, None}] /\ stage'[o] \in {Torn, None}
      /\ \A p \in Ops : p # o => stage'[p] = stage[p]
  BY <1>1 DEF Swap!Begin, Swap!TypeOK, OpFits, Steady
<1>5. \A p \in Ops : Swap!Pending(p) /\ p # o => Swap!Name(p) # n
  <2>1. \A p \in Ops : old[p] \notin {None, Torn} => intent[p]
    BY <1>1 DEF SwapInv, BootFits, BootOp
  <2>2. ~Swap!Locked(n) /\ ~Swap!Claimed(n)
    BY DEF Swap!Begin
  <2> QED BY <2>1, <2>2 DEF Swap!Pending, Swap!Locked, Swap!Claimed
<1>6. Swap!TypeOK'
  BY <1>1, <1>3, <1>4 DEF Swap!TypeOK, OpType, Swap!boot, Swap!hist
<1>7. ASSUME NEW p \in Ops PROVE OpFits(p)'
  <2>1. CASE p # o
    <3>1. op'[p] = op[p] /\ stage'[p] = stage[p] /\ OpFits(p)
      BY <1>3, <1>4, <2>1 DEF SwapInv
    <3> QED BY <1>1, <3>1 DEF OpFits, Steady, StepFits, Untouched, TornFits, Swap!At, Swap!Name,
       Swap!Running, Ended, Base, Swap!Transfer, Before, Between, Placed, Swap!hist
  <2>2. CASE p = o
    <3>1. /\ op'[o].at = "building" /\ op'[o].kind = k /\ op'[o].name = n /\ op'[o].base = folder[n]
          /\ ~op'[o].used
      BY <1>3
    <3>2. ~intent[o] /\ old[o] = None /\ kept[o] = None /\ folder[n] # o
      BY <1>1 DEF OpFits, Steady, SwapInv, Unused
    <3> QED BY <1>1, <1>4, <2>2, <3>1, <3>2, Distinct DEF OpFits, Steady, StepFits, Untouched, TornFits,
       Swap!At, Swap!Name, Swap!Running, Ended, Base, Swap!Transfer, Before, Between, Placed
  <2> QED BY <2>1, <2>2
<1>8. ASSUME NEW m \in Swap!Names PROVE NameFits(m)'
  <2>1. NameFits(m) /\ folder' = folder /\ old' = old /\ taken' = taken /\ meddled' = meddled /\ old[o] = None
    BY <1>1 DEF SwapInv, Swap!hist, OpFits, Steady
  <2>2. \A p \in Ops : p # o => Swap!Name(p)' = Swap!Name(p)
    BY <1>3 DEF Swap!Name
  <2> QED BY <2>1, <2>2 DEF NameFits
<1>9. OneClaim'
  <2>1. \A p \in Ops : p # o => (Swap!Pending(p)' <=> Swap!Pending(p)) /\ Swap!Name(p)' = Swap!Name(p)
    BY <1>1, <1>3 DEF Swap!Pending, Swap!Running, Swap!Name
  <2>2. Swap!Name(o)' = n
    BY <1>3 DEF Swap!Name
  <2> QED BY <1>5, <2>1, <2>2 DEF OneClaim, SwapInv
<1>10. Unused'
  <2>1. \A p \in Ops : Swap!At(p, "idle")' => p # o /\ Swap!At(p, "idle")
    BY <1>3 DEF Swap!At
  <2>2. Base(o)' = folder[n] /\ \A p \in Ops : p # o => Base(p)' = Base(p)
    BY <1>3 DEF Base
  <2> QED BY <1>1, <2>1, <2>2 DEF Unused, SwapInv
<1>11. BootFits'
  <2>1. turn' = turn /\ todo' = todo /\ failed' = failed /\ phase' = phase /\ old' = old /\ intent' = intent
    BY <1>1 DEF Swap!boot
  <2>2. ASSUME NEW p \in Ops PROVE BootOp(p)'
    <3>1. BootOp(p) /\ ~Due(p) /\ ~Due(p)' /\ ~Turning(p)'
      BY <1>1, <2>1 DEF SwapInv, BootFits, Due, Turning
    <3>2. CASE p # o
      BY <1>1, <1>3, <2>1, <3>1, <3>2 DEF BootOp, Swap!At, Ended, Swap!Transfer
    <3>3. CASE p = o
      BY <1>1, <2>1, <3>1, <3>3 DEF BootOp, OpFits, Steady
    <3> QED BY <3>2, <3>3
  <2> QED BY <1>1, <2>1, <2>2 DEF SwapInv, BootFits
<1> QED BY <1>1, <1>6, <1>7, <1>8, <1>9, <1>10, <1>11 DEF SwapInv, Swap!hist

-----------------------------------------------------------------------------
\* What somebody else does to one name.
LEMMA HandStep ==
  ASSUME Swap!SwapAssumption, SwapInv, NEW n \in Swap!Names, NEW x \in {Other, None}, Swap!MayRemove(n), Swap!Hand(n),
         folder' = [folder EXCEPT ![n] = x],
         taken' = (IF x = None THEN taken \union {n} ELSE taken \ {n}),
         UNCHANGED <<stage, old, kept, intent, op, phase, Swap!boot, faults>>
  PROVE  SwapInv'
<1>1. /\ Swap!TypeOK /\ turn' = turn /\ todo' = todo /\ failed' = failed
      /\ folder'[n] = x /\ \A m \in Swap!Names : m # n => folder'[m] = folder[m]
      /\ touched' = touched \union {n}
      /\ meddled' = IF Swap!Claimed(n) THEN meddled \union {n} ELSE meddled
  BY DEF SwapInv, Swap!TypeOK, Swap!boot, Swap!Hand
<1>2. Swap!TypeOK'
  <2>1. hands' \in 0..MaxHands
    BY <1>1 DEF Swap!Hand, Swap!TypeOK, Swap!SwapAssumption
  <2>2. taken' \subseteq Swap!Names /\ meddled' \subseteq Swap!Names /\ touched' \subseteq Swap!Names
    BY <1>1 DEF Swap!TypeOK
  <2>3. folder' \in [Swap!Names -> Swap!Folders \union {None}]
    BY <1>1 DEF Swap!TypeOK, Swap!Folders
  <2> QED BY <1>1, <2>1, <2>2, <2>3 DEF Swap!TypeOK
<1>3. phase \in {"up", "down"}
  BY DEF Swap!MayRemove
<1>4. \A o \in Ops : Swap!Running(o) => Swap!Name(o) # n
  <2> SUFFICES ASSUME NEW o \in Ops, Swap!Running(o), Swap!Name(o) = n PROVE FALSE
    OBVIOUS
  <2>1. phase = "up" /\ (~Swap!Transfer(o) => n \in Mods)
    BY DEF SwapInv, OpFits, Steady, Swap!Running, Swap!At
  <2>2. CASE n \in Mods
    BY <2>1, <2>2 DEF Swap!MayRemove, Swap!Locked
  <2>3. CASE n \notin Mods
    BY <2>1, <2>3 DEF Swap!MayRemove, Swap!Swapping
  <2> QED BY <2>2, <2>3
<1>5. ASSUME NEW o \in Ops PROVE OpFits(o)'
  <2>1. OpFits(o)
    BY DEF SwapInv
  <2>2. CASE Swap!At(o, "idle")
    BY <1>1, <2>1, <2>2, Distinct DEF OpFits, Steady, StepFits, Untouched, TornFits, Swap!At, Swap!Name,
       Swap!Running, Ended, Base, Swap!Transfer
  <2>3. CASE ~Swap!At(o, "idle") /\ Swap!Name(o) # n
    <3>1. folder'[Swap!Name(o)] = folder[Swap!Name(o)]
      BY <1>1, <2>1, <2>3 DEF OpFits, Steady
    <3> QED BY <1>1, <2>1, <2>3, <3>1 DEF OpFits, Steady, StepFits, Untouched, TornFits, Swap!At,
       Swap!Name, Swap!Running, Ended, Base, Swap!Transfer, Before, Between, Placed
  <2>4. CASE ~Swap!At(o, "idle") /\ Swap!Name(o) = n
    <3>1. Ended(o) /\ (intent[o] => n \in meddled')
      BY <1>1, <1>4, <2>4 DEF Swap!Running, Swap!At, Ended, Swap!Claimed
    <3> QED BY <1>1, <2>1, <2>4, <3>1 DEF OpFits, Steady, StepFits, Untouched, TornFits, Swap!At,
       Swap!Name, Swap!Running, Ended, Base, Swap!Transfer
  <2> QED BY <2>2, <2>3, <2>4
<1>6. ASSUME NEW m \in Swap!Names PROVE NameFits(m)'
  BY <1>1, Distinct DEF NameFits, SwapInv, Swap!Name
<1>7. OneClaim'
  BY DEF OneClaim, SwapInv, Swap!Pending, Swap!Running, Swap!Name
<1>8. Unused'
  BY <1>1, Distinct DEF Unused, SwapInv, Swap!At, Base
<1>9. BootFits'
  BY <1>1, <1>3, Distinct DEF BootFits, SwapInv, BootOp, Due, Turning, Ended, Swap!At, Swap!Transfer,
     Placed, Swap!Name
<1> QED BY <1>1, <1>2, <1>5, <1>6, <1>7, <1>8, <1>9 DEF SwapInv

LEMMA SwapHands ==
  ASSUME Swap!SwapAssumption, SwapInv, NEW n \in Swap!Names, Swap!Remove(n) \/ Swap!Put(n)
  PROVE  SwapInv'
<1>1. CASE Swap!Remove(n)
  BY <1>1, HandStep DEF Swap!Remove
<1>2. CASE Swap!Put(n)
  BY <1>2, HandStep, Distinct DEF Swap!Put
<1> QED BY <1>1, <1>2

LEMMA SwapLoses ==
  ASSUME Swap!SwapAssumption, SwapInv, NEW o \in Ops, Swap!LoseJournal(o)
  PROVE  SwapInv'
<1>1. /\ phase = "down" /\ intent[o] /\ ~Swap!Transfer(o) /\ Swap!TypeOK
      /\ UNCHANGED <<folder, stage, old, kept, op, phase, todo, turn, failed, taken, faults>>
      /\ intent' \in [Ops -> BOOLEAN] /\ ~intent'[o]
      /\ \A p \in Ops : p # o => intent'[p] = intent[p]
      /\ touched' = touched \union {Swap!Name(o)} /\ hands' \in 0..MaxHands
  <2>1. Swap!TypeOK
    BY DEF SwapInv
  <2>2. intent' = [intent EXCEPT ![o] = FALSE]
    BY DEF Swap!LoseJournal
  <2>3. hands' \in 0..MaxHands
    BY <2>1 DEF Swap!LoseJournal, Swap!Hand, Swap!TypeOK, Swap!SwapAssumption
  <2> QED BY <2>1, <2>2, <2>3 DEF Swap!LoseJournal, Swap!Hand, Swap!TypeOK, Swap!boot
<1>2. Swap!Name(o) \in Swap!Names /\ Ended(o)
  BY <1>1 DEF SwapInv, OpFits, Steady, Swap!At, Ended, Swap!Running
<1>3. meddled' = meddled \union {Swap!Name(o)}
  BY <1>1 DEF Swap!LoseJournal, Swap!Hand, Swap!Claimed
<1>4. Swap!TypeOK'
  BY <1>1, <1>2, <1>3 DEF Swap!TypeOK
<1>5. ASSUME NEW p \in Ops PROVE OpFits(p)'
  BY <1>1, <1>2, <1>3, Distinct DEF SwapInv, OpFits, Steady, StepFits, Untouched, TornFits, Swap!At,
     Swap!Name, Swap!Running, Ended, Base, Swap!Transfer, Before, Between, Placed
<1>6. ASSUME NEW m \in Swap!Names PROVE NameFits(m)'
  BY <1>1, <1>3 DEF NameFits, SwapInv, Swap!Name
<1>7. OneClaim'
  <2>1. \A p \in Ops : (Swap!Pending(p)' => Swap!Pending(p)) /\ Swap!Name(p)' = Swap!Name(p)
    BY <1>1 DEF Swap!Pending, Swap!Running, Swap!Name
  <2> QED BY <2>1 DEF OneClaim, SwapInv
<1>8. Unused'
  BY <1>1 DEF Unused, SwapInv, Swap!At, Base
<1>9. BootFits'
  BY <1>1, <1>2 DEF BootFits, SwapInv, BootOp, Due, Turning, Ended, Swap!At, Swap!Transfer, Placed,
     Swap!Name
<1> QED BY <1>1, <1>3, <1>4, <1>5, <1>6, <1>7, <1>8, <1>9 DEF SwapInv

LEMMA SwapCrash ==
  ASSUME Swap!SwapAssumption, SwapInv, Swap!Crash
  PROVE  SwapInv'
<1>1. /\ Swap!TypeOK /\ phase' = "down" /\ turn' = None /\ todo' = {} /\ failed' = {} /\ phase # "down"
      /\ UNCHANGED <<folder, stage, old, kept, intent, hands, touched, taken, meddled>>
      /\ faults' \in 0..MaxFaults
  BY Faulty DEF SwapInv, Swap!Crash, Swap!disk, Swap!hist
<1>2. /\ op' \in [Ops -> OpType]
      /\ \A o \in Ops : /\ op'[o].name = Swap!Name(o) /\ op'[o].base = Base(o) /\ op'[o].kind = op[o].kind
                        /\ op'[o].at = IF Swap!Running(o) THEN "ended" ELSE op[o].at
  <2>1. op \in [Ops -> OpType]
    BY <1>1 DEF Swap!TypeOK, OpType
  <2>2. op' = [o \in Ops |-> IF Swap!Running(o) THEN [op[o] EXCEPT !.at = "ended"] ELSE op[o]]
    BY DEF Swap!Crash
  <2>3. \A o \in Ops : [op[o] EXCEPT !.at = "ended"] \in OpType
    BY <2>1 DEF OpType, Swap!Steps
  <2>4. op' \in [Ops -> OpType]
    BY <2>1, <2>2, <2>3
  <2>5. ASSUME NEW o \in Ops
        PROVE  /\ op'[o].name = Swap!Name(o) /\ op'[o].base = Base(o) /\ op'[o].kind = op[o].kind
               /\ op'[o].at = IF Swap!Running(o) THEN "ended" ELSE op[o].at
    <3>1. op[o] \in OpType /\ op'[o] = IF Swap!Running(o) THEN [op[o] EXCEPT !.at = "ended"] ELSE op[o]
      BY <2>1, <2>2
    <3> QED BY <3>1 DEF OpType, Swap!Name, Base
  <2> QED BY <2>4, <2>5
<1>3. Swap!TypeOK'
  BY <1>1, <1>2 DEF Swap!TypeOK, OpType
<1>4. ASSUME NEW o \in Ops PROVE OpFits(o)'
  <2>1. /\ op'[o].name = Swap!Name(o) /\ op'[o].base = Base(o) /\ op'[o].kind = op[o].kind
        /\ op'[o].at = IF Swap!Running(o) THEN "ended" ELSE op[o].at
        /\ OpFits(o) /\ op[o].at \in Swap!Steps
    BY <1>1, <1>2 DEF SwapInv, Swap!TypeOK
  <2>2. Steady(o)' /\ StepFits(o)'
    BY <1>1, <2>1 DEF OpFits, Steady, StepFits, Swap!At, Swap!Name, Swap!Running, Base, Swap!Transfer
  <2>3. Untouched(o)'
    BY <1>1, <2>1 DEF OpFits, Steady, StepFits, Untouched, Swap!At, Swap!Name, Swap!Running, Ended,
       Base, Swap!Transfer, Before, Between, Placed, Swap!Steps
  <2>4. TornFits(o)'
    BY <1>1, <2>1 DEF OpFits, StepFits, TornFits, Swap!At, Swap!Name, Swap!Running, Ended, Between,
       Placed, Swap!Steps
  <2> QED BY <2>2, <2>3, <2>4 DEF OpFits
<1>5. ASSUME NEW m \in Swap!Names PROVE NameFits(m)'
  BY <1>1, <1>2 DEF NameFits, SwapInv, Swap!Name
<1>6. OneClaim'
  <2>1. \A p \in Ops : (Swap!Pending(p)' => Swap!Pending(p)) /\ Swap!Name(p)' = Swap!Name(p)
    BY <1>1, <1>2 DEF Swap!Pending, Swap!Running, Swap!Name
  <2> QED BY <2>1 DEF OneClaim, SwapInv
<1>7. Unused'
  BY <1>1, <1>2 DEF Unused, SwapInv, Swap!At, Base, Swap!Running
<1>8. BootFits'
  <2>1. ASSUME NEW o \in Ops PROVE BootOp(o)'
    <3>1. BootOp(o) /\ OpFits(o) /\ op'[o].at = (IF Swap!Running(o) THEN "ended" ELSE op[o].at) /\ op'[o].kind = op[o].kind
      BY <1>2 DEF SwapInv, BootFits
    <3>2. old[o] \notin {None, Torn} /\ ~intent[o] => ~Swap!Transfer(o) /\ Ended(o)
      BY <3>1 DEF BootOp
    <3> QED BY <1>1, <3>1, <3>2 DEF BootOp, Due, Turning, Ended, Swap!At, Swap!Running, Swap!Transfer
  <2> QED BY <1>1, <2>1 DEF BootFits
<1> QED BY <1>1, <1>3, <1>4, <1>5, <1>6, <1>7, <1>8 DEF SwapInv

-----------------------------------------------------------------------------
\* A step of a start for the replacement it is at.
LEMMA BootStep ==
  ASSUME Swap!SwapAssumption, SwapInv, NEW o \in Ops, Turning(o),
         phase \in {"transfers", "reinstalls", "orphans"},
         UNCHANGED op, Alone(o), Own(o), Swap!TypeOK', OpFits(o)', NameFits(Swap!Name(o))', BootOp(o)',
         turn' = None \/ (turn' # None /\ turn'.op = o),
         failed' \in {failed, failed \union {o}}
  PROVE  SwapInv'
<1>1. BootFits /\ Ended(o) /\ phase' = phase /\ todo' = todo
  BY DEF SwapInv, BootFits, BootOp, Due, Alone
<1>2. ~Swap!At(o, "idle")
  BY <1>1 DEF Swap!At, Ended
<1>3. ASSUME NEW p \in Ops, p # o PROVE BootOp(p)'
  <2>1. /\ op'[p] = op[p] /\ old'[p] = old[p] /\ intent'[p] = intent[p] /\ BootOp(p)
        /\ ~Turning(p) /\ ~Turning(p)' /\ (p \in failed' <=> p \in failed)
    BY <1>1, <1>3 DEF BootFits, Turning, Alone
  <2> QED BY <1>1, <2>1 DEF BootOp, Due, Ended, Swap!At, Swap!Transfer
<1>4. BootFits'
  BY <1>1, <1>3 DEF BootFits, Turning
<1> QED BY <1>2, <1>4, OpStep DEF SwapInv

\* What is known of it.
LEMMA TurnFacts ==
  ASSUME Swap!SwapAssumption, SwapInv, NEW o \in Ops, NEW step, Swap!Turn(o, step)
  PROVE  /\ Turning(o) /\ Due(o) /\ OpFits(o) /\ Swap!TypeOK /\ turn.at = step
         /\ turn \in [op : Ops, at : {"target", "stage", "old", "claim"}]
         /\ phase \in {"transfers", "reinstalls", "orphans"} /\ Ended(o)
         /\ Swap!Name(o) \in Swap!Names /\ NameFits(Swap!Name(o)) /\ BootOp(o)
         /\ (phase # "orphans" => intent[o])
<1>1. Turning(o) /\ Due(o) /\ OpFits(o) /\ Swap!TypeOK /\ turn.at = step
      /\ turn \in [op : Ops, at : {"target", "stage", "old", "claim"}]
  BY DEF SwapInv, Turning, Due, Swap!Turn, Swap!TypeOK
<1>2. phase \in {"transfers", "reinstalls", "orphans"} /\ Ended(o) /\ BootOp(o) /\ (phase # "orphans" => intent[o])
  BY <1>1 DEF SwapInv, BootFits, BootOp, Swap!TypeOK, Turning
<1>3. Swap!Name(o) \in Swap!Names
  BY <1>1, <1>2 DEF OpFits, Steady, Ended, Swap!At
<1> QED BY <1>1, <1>2, <1>3 DEF SwapInv

LEMMA ThenView ==
  ASSUME Swap!SwapAssumption, NEW o \in Ops, turn \in [op : Ops, at : {"target", "stage", "old", "claim"}],
         turn.op = o, NEW step \in {"target", "stage", "old", "claim"}, turn' = [turn EXCEPT !.at = step]
  PROVE  /\ turn' \in [op : Ops, at : {"target", "stage", "old", "claim"}]
         /\ turn' # None /\ turn'.op = o /\ turn'.at = step
BY Distinct

LEMMA SwapTargets ==
  ASSUME Swap!SwapAssumption, SwapInv, NEW o \in Ops, Swap!ResolveTarget(o)
  PROVE  SwapInv'
<1> DEFINE n == Swap!Name(o)
<1>1. /\ phase \in {"transfers", "reinstalls"} /\ Swap!Turn(o, "target")
      /\ UNCHANGED <<intent, op, phase, todo, Swap!hist>>
  BY DEF Swap!ResolveTarget
<1>2. /\ Turning(o) /\ Due(o) /\ OpFits(o) /\ Swap!TypeOK /\ Ended(o) /\ n \in Swap!Names /\ NameFits(n)
      /\ BootOp(o) /\ intent[o]
      /\ turn \in [op : Ops, at : {"target", "stage", "old", "claim"}] /\ turn.op = o
      /\ o \notin failed /\ (Swap!Transfer(o) <=> phase = "transfers")
      /\ o \notin todo
  BY <1>1, TurnFacts DEF Turning, BootOp, SwapInv, BootFits
<1>3. \A p \in Ops : op'[p] = op[p] /\ intent'[p] = intent[p] /\ Swap!At(p, "ended")' = Swap!At(p, "ended")
  BY <1>1 DEF Swap!At
<1>4. CASE folder[n] = None /\ (old[o] # None \/ stage[o] # None) /\ Swap!PutBack(o) /\ Swap!Then("stage") /\ UNCHANGED kept
  <2>1. turn' \in [op : Ops, at : {"target", "stage", "old", "claim"}] /\ turn' # None /\ turn'.op = o /\ turn'.at = "stage"
    BY <1>2, <1>4, ThenView DEF Swap!Then
  <2>2. \/ /\ old[o] # None /\ folder' = [folder EXCEPT ![n] = old[o]]
           /\ old' = [old EXCEPT ![o] = None] /\ stage' = stage
        \/ /\ old[o] = None /\ stage[o] # None /\ folder' = [folder EXCEPT ![n] = stage[o]]
           /\ stage' = [stage EXCEPT ![o] = None] /\ old' = old
    BY <1>4 DEF Swap!PutBack
  <2>3. Swap!TypeOK'
    BY <1>1, <1>2, <1>4, <2>1, <2>2 DEF Swap!TypeOK, Swap!Folders, Swap!Then, Swap!hist
  <2>4. /\ folder'[n] # None /\ old'[o] = None
        /\ folder'[n] = IF old[o] # None THEN old[o] ELSE stage[o]
        /\ \A p \in Ops : p # o => old'[p] = old[p] /\ stage'[p] = stage[p]
        /\ \A m \in Swap!Names : m # n => folder'[m] = folder[m]
        /\ stage'[o] \in {stage[o], None}
    BY <1>2, <2>2 DEF Swap!TypeOK
  <2>5. Alone(o)
    BY <1>1, <1>2, <1>4, <2>4 DEF Alone, Swap!Name, Base, Ended, Swap!At
  <2>6. Swap!Pending(o)
    BY <1>2 DEF Swap!Pending
  <2>7. stage[o] \in {o, Torn, None}
    BY <1>2 DEF OpFits, Steady
  <2>8. Own(o)
    BY <2>4, <2>6, <2>7 DEF Own
  <2>9. OpFits(o)'
    <3>0. op'[o] = op[o] /\ intent'[o] = intent[o] /\ kept'[o] = kept[o] /\ phase' = phase
          /\ touched' = touched /\ meddled' = meddled
      BY <1>1, <1>3, <1>4 DEF Swap!hist
    <3>1. Steady(o)' /\ StepFits(o)'
      BY <1>2, <2>4, <2>7, <3>0 DEF OpFits, Steady, StepFits, Swap!At, Swap!Name, Swap!Running, Ended,
         Base, Swap!Transfer
    <3>2. Untouched(o)'
      BY <1>2, <1>4, <2>4, <3>0, Distinct DEF OpFits, Steady, Untouched, Swap!At, Swap!Name, Ended,
         Base, Before, Between, Placed
    <3>3. TornFits(o)'
      BY <1>2, <1>4, <2>4, <3>0, Distinct DEF TornFits, Ended, Swap!At, Swap!Name
    <3> QED BY <3>1, <3>2, <3>3 DEF OpFits
  <2>10. NameFits(n)'
    BY <1>1, <1>2, <1>4, <2>4, <2>7, Distinct DEF NameFits, OpFits, TornFits, Swap!hist, Swap!Name
  <2>11. BootOp(o)'
    BY <1>1, <1>2, <1>4, <2>1, <2>4 DEF BootOp, Due, Turning, Ended, Swap!At, Swap!Transfer, Swap!Then,
       Swap!Name, Placed
  <2> QED BY <1>1, <1>2, <1>4, <2>1, <2>3, <2>5, <2>8, <2>9, <2>10, <2>11, BootStep DEF Swap!Then
<1>5. CASE folder[n] # None /\ old[o] # None /\ folder[n] # o /\ Swap!Preserve(o) /\ Swap!Then("stage") /\ UNCHANGED <<folder, stage>>
  <2>1. turn' \in [op : Ops, at : {"target", "stage", "old", "claim"}] /\ turn' # None /\ turn'.op = o /\ turn'.at = "stage"
    BY <1>2, <1>5, ThenView DEF Swap!Then
  <2>2. Swap!TypeOK'
    BY <1>1, <1>2, <1>5, <2>1 DEF Swap!TypeOK, Swap!Then, Swap!Preserve, Swap!hist
  <2>3. /\ old'[o] = None /\ \A p \in Ops : p # o => old'[p] = old[p] /\ kept'[p] = kept[p]
    BY <1>2, <1>5 DEF Swap!TypeOK, Swap!Preserve
  <2>4. Alone(o)
    BY <1>1, <1>2, <1>5, <2>3 DEF Alone, Swap!Name, Base, Ended, Swap!At
  <2>5. Own(o)
    BY <1>2, <1>5, <2>3 DEF Own, Swap!Pending
  <2>6. OpFits(o)'
    BY <1>1, <1>2, <1>5, <2>3 DEF OpFits, Steady, StepFits, Untouched, TornFits, Swap!At, Swap!Name,
       Swap!Running, Ended, Base, Swap!Transfer, Before, Between, Placed, Swap!hist
  <2>7. NameFits(n)'
    BY <1>1, <1>2, <1>5 DEF NameFits, Swap!hist, Swap!Name
  <2>8. BootOp(o)'
    BY <1>1, <1>2, <1>5, <2>1, <2>3 DEF BootOp, Due, Turning, Ended, Swap!At, Swap!Transfer, Swap!Then,
       Swap!Name, Placed
  <2> QED BY <1>1, <1>2, <1>5, <2>1, <2>2, <2>4, <2>5, <2>6, <2>7, <2>8, BootStep DEF Swap!Then
<1>6. CASE folder[n] # None /\ (old[o] = None \/ folder[n] = o) /\ Swap!Then("stage") /\ UNCHANGED <<folder, stage, old, kept>>
  <2>1. turn' \in [op : Ops, at : {"target", "stage", "old", "claim"}] /\ turn' # None /\ turn'.op = o /\ turn'.at = "stage"
    BY <1>2, <1>6, ThenView DEF Swap!Then
  <2>2. Swap!TypeOK'
    BY <1>1, <1>2, <1>6, <2>1 DEF Swap!TypeOK, Swap!Then, Swap!hist
  <2>3. Alone(o)
    BY <1>1, <1>2, <1>6 DEF Alone, Swap!Name, Base, Ended, Swap!At
  <2>4. Own(o)
    BY <1>1, <1>6 DEF Own, Swap!Pending, Swap!Running
  <2>5. OpFits(o)'
    BY <1>1, <1>2, <1>6 DEF OpFits, Steady, StepFits, Untouched, TornFits, Swap!At, Swap!Name,
       Swap!Running, Ended, Base, Swap!Transfer, Before, Between, Placed, Swap!hist
  <2>6. NameFits(n)'
    BY <1>1, <1>2, <1>6 DEF NameFits, Swap!hist, Swap!Name
  <2>7. BootOp(o)'
    BY <1>1, <1>2, <1>6, <2>1 DEF BootOp, Due, Turning, Ended, Swap!At, Swap!Transfer, Swap!Then,
       Swap!Name, Placed
  <2> QED BY <1>1, <1>2, <1>6, <2>1, <2>2, <2>3, <2>4, <2>5, <2>6, <2>7, BootStep DEF Swap!Then
<1>7. CASE Swap!LeaveIt(o) /\ UNCHANGED <<folder, stage, old, kept>> /\ (Swap!Fault \/ UNCHANGED faults)
  <2>1. Swap!TypeOK'
    BY <1>1, <1>2, <1>7, Faulty DEF Swap!TypeOK, Swap!LeaveIt, Swap!hist
  <2>2. Alone(o)
    BY <1>1, <1>2, <1>7 DEF Alone, Swap!Name, Base, Ended, Swap!At
  <2>3. Own(o)
    BY <1>1, <1>7 DEF Own, Swap!Pending, Swap!Running
  <2>4. OpFits(o)'
    BY <1>1, <1>2, <1>7 DEF OpFits, Steady, StepFits, Untouched, TornFits, Swap!At, Swap!Name,
       Swap!Running, Ended, Base, Swap!Transfer, Before, Between, Placed, Swap!hist
  <2>5. NameFits(n)'
    BY <1>1, <1>2, <1>7 DEF NameFits, Swap!hist, Swap!Name
  <2>6. BootOp(o)'
    BY <1>1, <1>2, <1>3, <1>7 DEF BootOp, Due, Turning, Ended, Swap!At, Swap!Transfer, Swap!LeaveIt,
       Swap!Name, Placed
  <2> QED BY <1>1, <1>2, <1>7, <2>1, <2>2, <2>3, <2>4, <2>5, <2>6, BootStep DEF Swap!LeaveIt
<1> QED BY <1>4, <1>5, <1>6, <1>7 DEF Swap!ResolveTarget

\* One hidden folder is removed or torn, or the journal goes.
LEMMA SwapRests ==
  ASSUME Swap!SwapAssumption, SwapInv, NEW o \in Ops, Swap!ResolveRest(o)
  PROVE  SwapInv'
<1> DEFINE n == Swap!Name(o)
<1>1. phase \in {"transfers", "reinstalls"} /\ UNCHANGED <<folder, kept, op, phase, todo, Swap!hist>>
  BY DEF Swap!ResolveRest
<1>2. PICK step \in {"stage", "old", "claim"} : Swap!Turn(o, step)
  BY DEF Swap!ResolveRest
<1>3. /\ Turning(o) /\ Due(o) /\ OpFits(o) /\ Swap!TypeOK /\ Ended(o) /\ n \in Swap!Names /\ NameFits(n)
      /\ BootOp(o) /\ intent[o] /\ turn.at = step
      /\ turn \in [op : Ops, at : {"target", "stage", "old", "claim"}] /\ turn.op = o
      /\ o \notin failed /\ (Swap!Transfer(o) <=> phase = "transfers")
      /\ folder[n] # None /\ (old[o] # None => Placed(o)) /\ (step = "claim" => old[o] = None)
      /\ o \notin todo
  BY <1>1, <1>2, TurnFacts DEF Turning, BootOp, SwapInv, BootFits
<1>4. Swap!Then("old") \/ Swap!Then("claim") =>
         turn' \in [op : Ops, at : {"target", "stage", "old", "claim"}] /\ turn' # None /\ turn'.op = o
  BY <1>3, ThenView DEF Swap!Then
<1>5. CASE step = "stage"
  <2>1. \/ Swap!Removed(stage, o) /\ Swap!Then("old")
        \/ Swap!Fault /\ Swap!Tears(stage, o) /\ Swap!LeaveIt(o)
    BY <1>2, <1>5 DEF Swap!ResolveRest, Swap!Turn
  <2>2. old' = old /\ intent' = intent
    BY <1>2, <1>5 DEF Swap!ResolveRest, Swap!Turn
  <2>3. /\ stage' \in [Ops -> Ops \union {Torn, None}] /\ stage'[o] \in {stage[o], Torn, None}
        /\ \A p \in Ops : p # o => stage'[p] = stage[p]
    BY <1>3, <2>1 DEF Swap!TypeOK, Swap!Removed, Swap!Tears
  <2>4. faults' \in 0..MaxFaults
    BY <1>3, <2>1, Faulty DEF Swap!Then
  <2>5. Swap!TypeOK'
    BY <1>1, <1>3, <1>4, <2>1, <2>2, <2>3, <2>4 DEF Swap!TypeOK, Swap!Then, Swap!LeaveIt, Swap!hist
  <2>6. Alone(o)
    BY <1>1, <1>3, <2>2, <2>3 DEF Alone, Swap!Name, Base, Ended, Swap!At
  <2>7. Own(o)
    BY <1>1, <2>2 DEF Own, Swap!Pending, Swap!Running
  <2>8. OpFits(o)'
    BY <1>1, <1>3, <2>2, <2>3 DEF OpFits, Steady, StepFits, Untouched, TornFits, Swap!At, Swap!Name,
       Swap!Running, Ended, Base, Swap!Transfer, Before, Between, Placed, Swap!hist
  <2>9. NameFits(n)'
    BY <1>1, <1>3, <2>2 DEF NameFits, Swap!hist, Swap!Name
  <2>10. BootOp(o)'
    <3>1. turn' = None \/ turn'.at = "old"
      BY <1>3, <2>1 DEF Swap!Then, Swap!LeaveIt
    <3> QED BY <1>1, <1>3, <1>4, <2>1, <2>2, <3>1 DEF BootOp, Due, Turning, Ended, Swap!At,
       Swap!Transfer, Swap!LeaveIt, Swap!Then, Swap!Name, Placed
  <2> QED BY <1>1, <1>3, <1>4, <2>1, <2>5, <2>6, <2>7, <2>8, <2>9, <2>10, BootStep DEF Swap!Then,
     Swap!LeaveIt
<1>6. CASE step = "old"
  <2>1. \/ Swap!Removed(old, o) /\ Swap!Then("claim")
        \/ Swap!Fault /\ Swap!Tears(old, o) /\ Swap!LeaveIt(o)
    BY <1>2, <1>6 DEF Swap!ResolveRest, Swap!Turn
  <2>2. stage' = stage /\ intent' = intent
    BY <1>2, <1>6 DEF Swap!ResolveRest, Swap!Turn
  <2>3. /\ old' \in [Ops -> Swap!Folders \union {None}] /\ old'[o] \in {old[o], Torn, None}
        /\ (old[o] = None => old'[o] = None)
        /\ \A p \in Ops : p # o => old'[p] = old[p]
    BY <1>3, <2>1 DEF Swap!TypeOK, Swap!Removed, Swap!Tears, Swap!Folders
  <2>4. faults' \in 0..MaxFaults
    BY <1>3, <2>1, Faulty DEF Swap!Then
  <2>5. Swap!TypeOK'
    BY <1>1, <1>3, <1>4, <2>1, <2>2, <2>3, <2>4 DEF Swap!TypeOK, Swap!Then, Swap!LeaveIt, Swap!hist
  <2>6. Alone(o)
    BY <1>1, <1>3, <2>2, <2>3 DEF Alone, Swap!Name, Base, Ended, Swap!At
  <2>7. Own(o)
    BY <1>1, <1>3, <2>2, <2>3 DEF Own, Swap!Pending, Swap!Running
  <2>8. OpFits(o)'
    BY <1>1, <1>3, <2>2, <2>3 DEF OpFits, Steady, StepFits, Untouched, TornFits, Swap!At, Swap!Name,
       Swap!Running, Ended, Base, Swap!Transfer, Before, Between, Placed, Swap!hist
  <2>9. NameFits(n)'
    BY <1>1, <1>3, <2>2 DEF NameFits, Swap!hist, Swap!Name
  <2>10. BootOp(o)'
    <3>1. turn' = None \/ (turn'.at = "claim" /\ old'[o] = None)
      BY <1>3, <2>1 DEF Swap!Then, Swap!LeaveIt, Swap!Removed, Swap!TypeOK
    <3> QED BY <1>1, <1>3, <1>4, <2>1, <2>2, <2>3, <3>1 DEF BootOp, Due, Turning, Ended, Swap!At,
       Swap!Transfer, Swap!LeaveIt, Swap!Then, Swap!Name, Placed
  <2> QED BY <1>1, <1>3, <1>4, <2>1, <2>5, <2>6, <2>7, <2>8, <2>9, <2>10, BootStep DEF Swap!Then,
     Swap!LeaveIt
<1>7. CASE step = "claim"
  <2>1. /\ turn' = None /\ UNCHANGED <<stage, old, failed>> /\ (Swap!Fault \/ UNCHANGED faults)
        /\ \E left \in BOOLEAN : intent' = [intent EXCEPT ![o] = left]
    BY <1>2, <1>7 DEF Swap!ResolveRest, Swap!Turn, Swap!Unclaims
  <2>2. /\ intent' \in [Ops -> BOOLEAN] /\ \A p \in Ops : p # o => intent'[p] = intent[p]
    BY <1>3, <2>1 DEF Swap!TypeOK
  <2>3. Swap!TypeOK'
    BY <1>1, <1>3, <2>1, <2>2, Faulty DEF Swap!TypeOK, Swap!hist
  <2>4. Alone(o)
    BY <1>1, <1>3, <2>1, <2>2 DEF Alone, Swap!Name, Base, Ended, Swap!At
  <2>5. Own(o)
    BY <1>1, <1>3, <2>1, <2>2 DEF Own, Swap!Pending, Swap!Running
  <2>6. OpFits(o)'
    BY <1>1, <1>3, <1>7, <2>1, <2>2, Distinct DEF OpFits, Steady, StepFits, Untouched, TornFits,
       Swap!At, Swap!Name, Swap!Running, Ended, Base, Swap!Transfer, Before, Between, Placed, Swap!hist
  <2>7. NameFits(n)'
    BY <1>1, <1>3, <2>1 DEF NameFits, Swap!hist, Swap!Name
  <2>8. BootOp(o)'
    BY <1>1, <1>3, <1>7, <2>1, <2>2, Distinct DEF SwapInv, BootFits, BootOp, Due, Turning, Ended,
       Swap!At, Swap!Transfer, Swap!Name, Placed
  <2> QED BY <1>1, <1>3, <2>1, <2>3, <2>4, <2>5, <2>6, <2>7, <2>8, BootStep
<1> QED BY <1>5, <1>6, <1>7

LEMMA SwapOrphans ==
  ASSUME Swap!SwapAssumption, SwapInv, NEW o \in Ops, Swap!ResolveOrphan(o)
  PROVE  SwapInv'
<1> DEFINE n == Swap!Name(o)
<1>1. /\ phase = "orphans" /\ Swap!Turn(o, "target") /\ turn' = None
      /\ UNCHANGED <<intent, op, phase, todo, failed, Swap!hist>>
      /\ Swap!Removed(stage, o) \/ Swap!Tears(stage, o)
      /\ Swap!Fault \/ UNCHANGED faults
  BY DEF Swap!ResolveOrphan
<1>2. /\ Turning(o) /\ Due(o) /\ OpFits(o) /\ Swap!TypeOK /\ Ended(o) /\ n \in Swap!Names /\ NameFits(n)
      /\ BootOp(o) /\ ~Swap!Transfer(o)
  BY <1>1, TurnFacts DEF BootOp
<1>3. /\ stage' \in [Ops -> Ops \union {Torn, None}] /\ stage'[o] \in {stage[o], Torn, None}
      /\ \A p \in Ops : p # o => stage'[p] = stage[p]
  BY <1>1, <1>2 DEF Swap!TypeOK, Swap!Removed, Swap!Tears
<1>4. \/ old' = old /\ folder' = folder /\ kept' = kept /\ old[o] \in {None, Torn}
      \/ /\ folder' = folder /\ Swap!Preserve(o) /\ folder[n] # None /\ old[o] # None
      \/ /\ old[o] # None /\ folder[n] = None /\ folder' = [folder EXCEPT ![n] = old[o]]
         /\ old' = [old EXCEPT ![o] = None] /\ kept' = kept
  BY DEF Swap!ResolveOrphan
<1>5. /\ old' \in [Ops -> Swap!Folders \union {None}] /\ kept' \in [Ops -> Swap!Folders \union {None}]
      /\ folder' \in [Swap!Names -> Swap!Folders \union {None}]
      /\ \A p \in Ops : p # o => old'[p] = old[p] /\ kept'[p] = kept[p]
      /\ \A m \in Swap!Names : m # n => folder'[m] = folder[m]
      /\ \/ old'[o] = old[o] /\ folder'[n] = folder[n] /\ old' = old /\ old[o] \in {None, Torn}
         \/ old'[o] = None /\ folder'[n] = folder[n] /\ folder[n] # None /\ old[o] # None
         \/ old'[o] = None /\ folder'[n] = old[o] /\ folder[n] = None /\ old[o] # None
  BY <1>2, <1>4 DEF Swap!TypeOK, Swap!Preserve
<1>6. Swap!TypeOK'
  BY <1>1, <1>2, <1>3, <1>5, Faulty DEF Swap!TypeOK, Swap!hist
<1>7. Alone(o)
  BY <1>1, <1>2, <1>3, <1>5 DEF Alone, Swap!Name, Base, Ended, Swap!At
<1>8. old[o] = Torn /\ folder[n] = None => n \in meddled
  BY <1>2 DEF OpFits, TornFits
<1>9. Own(o)
  BY <1>1, <1>5, <1>8 DEF Own, Swap!Pending, Swap!Running
<1>10. OpFits(o)'
  BY <1>1, <1>2, <1>3, <1>5, <1>8, Distinct DEF OpFits, Steady, StepFits, Untouched, TornFits, Swap!At,
     Swap!Name, Swap!Running, Ended, Base, Swap!Transfer, Before, Between, Placed, Swap!hist
<1>11. NameFits(n)'
  BY <1>1, <1>2, <1>5, <1>8 DEF NameFits, Swap!hist, Swap!Name
<1>12. BootOp(o)'
  <2>1. old'[o] \notin {None, Torn} /\ ~intent'[o] => FALSE
    BY <1>5
  <2> QED BY <1>1, <1>2, <2>1 DEF BootOp, Due, Turning, Ended, Swap!At, Swap!Transfer
<1> QED BY <1>1, <1>2, <1>6, <1>7, <1>9, <1>10, <1>11, <1>12, BootStep

\* The phases of a start, and whose turn it is.
LEMMA SwapPhases ==
  ASSUME Swap!SwapAssumption, SwapInv, Swap!NextPhase \/ Swap!Take
  PROVE  SwapInv'
<1>1. /\ turn = None /\ UNCHANGED <<folder, stage, old, kept, intent, op, failed, hands, touched, taken, meddled, faults>>
      /\ Swap!TypeOK /\ phase' \in {"down", "transfers", "reinstalls", "orphans", "up"}
      /\ (phase' = "up" => phase = "orphans") /\ phase # "up" /\ phase' # "down"
  BY DEF SwapInv, Swap!NextPhase, Swap!Take, Swap!disk, Swap!hist
<1>2. /\ todo' \subseteq Ops
      /\ turn' \in {None} \union [op : Ops, at : {"target", "stage", "old", "claim"}]
  <2>1. CASE Swap!NextPhase
    BY <1>1, <2>1 DEF Swap!NextPhase, Swap!Journals, Swap!Orphans, Swap!TypeOK
  <2>2. CASE Swap!Take
    BY <1>1, <2>2 DEF Swap!Take, Swap!TypeOK
  <2> QED BY <2>1, <2>2
<1>3. Swap!TypeOK'
  BY <1>1, <1>2 DEF Swap!TypeOK
<1>4. ASSUME NEW o \in Ops PROVE OpFits(o)'
  <2>1. OpFits(o) /\ ~Swap!Running(o)
    BY <1>1 DEF SwapInv, OpFits, Steady
  <2> QED BY <1>1, <2>1 DEF OpFits, Steady, StepFits, Untouched, TornFits, Swap!At, Swap!Name,
     Swap!Running, Ended, Base, Swap!Transfer, Before, Between, Placed
<1>5. ASSUME NEW n \in Swap!Names PROVE NameFits(n)'
  BY <1>1 DEF SwapInv, NameFits, Swap!Name
<1>6. OneClaim' /\ Unused' /\ (meddled \subseteq touched)'
  BY <1>1 DEF SwapInv, OneClaim, Unused, Swap!Pending, Swap!Running, Swap!Name, Base, Swap!At
<1>7. BootFits'
  <2>1. CASE Swap!NextPhase
    <3>1. /\ turn' = None /\ todo = {}
          /\ \/ phase = "down" /\ phase' = "transfers" /\ todo' = Swap!Journals(TRUE)
             \/ phase = "transfers" /\ phase' = "reinstalls" /\ todo' = Swap!Journals(FALSE)
             \/ phase = "reinstalls" /\ phase' = "orphans" /\ todo' = Swap!Orphans
             \/ phase = "orphans" /\ phase' = "up" /\ todo' = {}
      BY <1>1, <2>1 DEF Swap!NextPhase
    <3>2. ASSUME NEW o \in Ops PROVE BootOp(o)'
      <4>1. BootOp(o) /\ OpFits(o) /\ ~Swap!Running(o) /\ ~Turning(o) /\ ~Turning(o)' /\ ~Due(o)
        BY <1>1, <3>1 DEF SwapInv, BootFits, OpFits, Steady, Turning, Due
      <4>2. intent[o] => Ended(o)
        BY <4>1 DEF OpFits, Steady, Swap!Running, Ended, Swap!At
      <4>3. CASE phase = "down"
        BY <1>1, <3>1, <4>1, <4>2, <4>3 DEF BootOp, Due, Ended, Swap!At, Swap!Transfer, Swap!Journals
      <4>4. CASE phase = "transfers"
        BY <1>1, <3>1, <4>1, <4>2, <4>4 DEF BootOp, Due, Ended, Swap!At, Swap!Transfer, Swap!Journals
      <4>5. CASE phase = "reinstalls"
        BY <1>1, <3>1, <4>1, <4>2, <4>5 DEF BootOp, Due, Ended, Swap!At, Swap!Transfer, Swap!Orphans
      <4>6. CASE phase = "orphans"
        BY <1>1, <3>1, <4>1, <4>2, <4>6 DEF BootOp, Due, Ended, Swap!At, Swap!Transfer
      <4> QED BY <3>1, <4>3, <4>4, <4>5, <4>6
    <3> QED BY <1>1, <3>1, <3>2 DEF BootFits
  <2>2. CASE Swap!Take
    <3>1. PICK p \in todo : turn' = [op |-> p, at |-> "target"] /\ todo' = todo \ {p}
      BY <2>2 DEF Swap!Take
    <3>2. p \in Ops /\ turn' # None /\ phase' = phase
      BY <1>1, <2>2, <3>1, Distinct DEF Swap!Take, Swap!TypeOK
    <3>3. ASSUME NEW o \in Ops PROVE BootOp(o)'
      <4>1. BootOp(o) /\ (Due(o)' <=> Due(o)) /\ turn'.at = "target"
        BY <1>1, <3>1, <3>2 DEF SwapInv, BootFits, Due, Turning
      <4> QED BY <1>1, <3>2, <4>1 DEF BootOp, Ended, Swap!At, Swap!Transfer
    <3> QED BY <1>1, <2>2, <3>1, <3>2, <3>3 DEF BootFits, Swap!Take
  <2> QED BY <2>1, <2>2
<1> QED BY <1>3, <1>4, <1>5, <1>6, <1>7 DEF SwapInv

-----------------------------------------------------------------------------
LEMMA SwapStep == Swap!SwapAssumption /\ SwapInv /\ [Swap!Next]_(Swap!vars) => SwapInv'
<1> SUFFICES ASSUME Swap!SwapAssumption, SwapInv, [Swap!Next]_(Swap!vars) PROVE SwapInv'
  OBVIOUS
<1>1. ASSUME NEW o \in Ops, Swap!Replacing(o) PROVE SwapInv'
  BY <1>1, SwapBegin, SwapBuild, SwapRecord, SwapSync, SwapAside, SwapInstall, SwapRestore,
     SwapRebuild, SwapInstalled, SwapClear, SwapUnclaim, SwapDiscard, SwapUndone DEF Swap!Replacing
<1>2. ASSUME NEW n \in Swap!Names, Swap!Remove(n) \/ Swap!Put(n) PROVE SwapInv'
  BY <1>2, SwapHands
<1>3. ASSUME NEW o \in Ops, Swap!LoseJournal(o) PROVE SwapInv'
  BY <1>3, SwapLoses
<1>4. CASE Swap!Crash
  BY <1>4, SwapCrash
<1>5. CASE Swap!Recovering
  BY <1>5, SwapPhases, SwapTargets, SwapRests, SwapOrphans DEF Swap!Recovering
<1>6. CASE UNCHANGED Swap!vars
  BY <1>6 DEF Swap!vars, Swap!disk, Swap!boot, Swap!hist, SwapInv, Swap!TypeOK, OpFits, Steady,
     StepFits, Untouched, TornFits,
      NameFits, OneClaim, Unused, BootFits, BootOp, Due, Turning, Swap!Pending, Swap!Running, Swap!At, Swap!Name, Ended,
      Base, Swap!Transfer, Before, Between, Placed
<1> QED BY <1>1, <1>2, <1>3, <1>4, <1>5, <1>6 DEF Swap!Next

\* The invariant holds in every reachable state.
THEOREM SwapInvariance == ASSUME Swap!SwapAssumption PROVE Swap!Spec => []SwapInv
<1>1. Swap!Init => SwapInv
  BY SwapInitial
<1>2. SwapInv /\ [Swap!Next]_(Swap!vars) => SwapInv'
  BY SwapStep
<1> QED BY <1>1, <1>2, PTL DEF Swap!Spec

\* Every variable keeps its type.
THEOREM SwapTypeCorrect == ASSUME Swap!SwapAssumption PROVE Swap!Spec => []Swap!TypeOK
<1>1. SwapInv => Swap!TypeOK
  BY DEF SwapInv
<1> QED BY <1>1, SwapInvariance, PTL

\* A name nobody works on and no journal claims has a whole folder, unless the
\* user removed it or only a torn one was left; a name has one journal, and no
\* folder of it is left aside without one (transfer/commit.go, reinstall.go).
THEOREM FoldersAreWhole == ASSUME Swap!SwapAssumption PROVE Swap!Spec => []Swap!AtRestWhole
<1>1. SwapInv => Swap!AtRestWhole
  <2> SUFFICES ASSUME SwapInv, NEW n \in Swap!Names
               PROVE  /\ phase = "up" /\ ~Swap!Locked(n) /\ ~Swap!Claimed(n) =>
                            /\ \/ folder[n] # None \/ n \in taken
                               \/ \E o \in Ops : Swap!Name(o) = n /\ old[o] = Torn
                            /\ \A o \in Ops : Swap!Name(o) = n => old[o] \in {None, Torn}
                      /\ folder[n] = Torn => n \in meddled
                      /\ \A o, p \in Ops : intent[o] /\ intent[p] /\ Swap!Name(o) = n /\ Swap!Name(p) = n => o = p
    BY DEF Swap!AtRestWhole
  <2>1. NameFits(n)
    BY DEF SwapInv
  <2>2. phase = "up" /\ ~Swap!Locked(n) /\ ~Swap!Claimed(n) => \A o \in Ops : Swap!Name(o) = n => old[o] \in {None, Torn}
    BY DEF Swap!Claimed, SwapInv, BootFits, BootOp
  <2>3. \A o, p \in Ops : intent[o] /\ intent[p] /\ Swap!Name(o) = n /\ Swap!Name(p) = n => o = p
    BY DEF SwapInv, OneClaim, Swap!Pending
  <2> QED BY <2>1, <2>2, <2>3 DEF NameFits
<1> QED BY <1>1, SwapInvariance, PTL

-----------------------------------------------------------------------------
(***************************************************************************)
(* What a step may do to a folder.                                         *)
(***************************************************************************)
\* A replacement touches its own folders and its own name.
LEMMA OthersStay ==
  ASSUME SwapInv, NEW p \in Ops, NEW o \in Ops, o # p, Swap!Replacing(p), Swap!Pending(o)
  PROVE  /\ op'[o] = op[o] /\ old'[o] = old[o] /\ kept'[o] = kept[o]
         /\ folder'[Swap!Name(o)] = folder[Swap!Name(o)]
<1>1. Swap!TypeOK /\ OpFits(p) /\ OpFits(o)
  BY DEF SwapInv
<1>2. Swap!Name(o) \in Swap!Names
  BY <1>1 DEF OpFits, Steady, Swap!Pending, Swap!Running, Swap!At
<1>3. CASE \E n \in Swap!Names, k \in Swap!Kinds : Swap!Begin(p, n, k)
  BY <1>1, <1>2, <1>3 DEF Swap!Begin, Swap!TypeOK
<1>4. CASE ~Swap!At(p, "idle")
  <2>1. Swap!Running(p) => Swap!Name(p) # Swap!Name(o)
    BY DEF SwapInv, OneClaim, Swap!Pending
  <2>2. CASE Swap!Build(p) \/ Swap!Record(p) \/ Swap!Sync(p) \/ Swap!Aside(p) \/ Swap!Install(p) \/ Swap!Restore(p)
    BY <1>1, <1>2, <2>1, <2>2 DEF Swap!TypeOK, Swap!Go, Swap!Ends, Swap!Running, Swap!At, Swap!Build,
       Swap!Record, Swap!Sync, Swap!Aside, Swap!Install, Swap!Restore, Swap!GivesUp, Swap!disk
  <2>3. CASE Swap!Rebuild(p) \/ Swap!Installed(p) \/ Swap!Clear(p) \/ Swap!Unclaim(p) \/ Swap!Discard(p) \/ Swap!Undone(p)
    BY <1>1, <1>2, <2>1, <2>3 DEF Swap!TypeOK, Swap!Go, Swap!Ends, Swap!Running, Swap!At, Swap!Rebuild,
       Swap!Installed, Swap!Clear, Swap!Unclaim, Swap!Discard, Swap!Undone, Swap!GivesUp,
       Swap!Committed, Swap!disk, Swap!Removed, Swap!Tears
  <2> QED BY <1>4, <2>2, <2>3 DEF Swap!Replacing, Swap!Begin
<1> QED BY <1>3, <1>4 DEF Swap!Replacing, Swap!Begin, Swap!At, Swap!Build, Swap!Record, Swap!Sync,
   Swap!Aside, Swap!Install, Swap!Restore, Swap!Rebuild, Swap!Installed, Swap!Clear, Swap!Unclaim,
   Swap!Discard, Swap!Undone

\* ... and never drops what it replaces before the new folder is in place.
LEMMA OwnKept ==
  ASSUME Swap!SwapAssumption, SwapInv, NEW o \in Ops, Swap!Replacing(o), Swap!Pending(o), Swap!Has(o)
  PROVE  Swap!Has(o)' \/ Placed(o)
<1>1. Swap!TypeOK /\ OpFits(o) /\ Swap!Running(o) /\ Swap!Name(o) \in Swap!Names /\ Base(o) # None
  BY DEF SwapInv, OpFits, Steady, Swap!Pending, Swap!Replacing, Swap!Begin, Swap!Build, Swap!Record,
     Swap!Sync, Swap!Aside, Swap!Install, Swap!Restore,
      Swap!Rebuild, Swap!Installed, Swap!Clear, Swap!Unclaim, Swap!Discard, Swap!Undone, Swap!Running, Swap!At
<1>2. op'[o].name = Swap!Name(o) /\ op'[o].base = Base(o)
  <2>1. CASE Swap!Build(o) \/ Swap!Record(o) \/ Swap!Sync(o) \/ Swap!Install(o) \/ Swap!Restore(o)
    BY <1>1, <2>1 DEF Swap!TypeOK, Swap!Go, Swap!Ends, Swap!Build, Swap!Record, Swap!Sync, Swap!Install,
       Swap!Restore, Swap!GivesUp, Swap!Name, Base
  <2>3. CASE Swap!Aside(o)
    <3>1. CASE Swap!Go(o, "discard")
      BY <1>1, <3>1 DEF Swap!TypeOK, Swap!Go, Swap!Name, Base
    <3>2. ASSUME NEW used, op' = [op EXCEPT ![o].at = "aside", ![o].used = used]
          PROVE  op'[o].name = Swap!Name(o) /\ op'[o].base = Base(o)
      BY <1>1, <3>2 DEF Swap!TypeOK, Swap!Name, Base
    <3> QED BY <2>3, <3>1, <3>2 DEF Swap!Aside
  <2>2. CASE Swap!Rebuild(o) \/ Swap!Installed(o) \/ Swap!Clear(o) \/ Swap!Unclaim(o) \/ Swap!Discard(o) \/ Swap!Undone(o)
    BY <1>1, <2>2 DEF Swap!TypeOK, Swap!Go, Swap!Ends, Swap!Rebuild, Swap!Installed, Swap!Clear,
       Swap!Unclaim, Swap!Discard, Swap!Undone, Swap!GivesUp, Swap!Committed, Swap!Name, Base
  <2> QED BY <1>1, <2>1, <2>2, <2>3 DEF Swap!Replacing, Swap!Begin, Swap!Running, Swap!At
<1>3. CASE Swap!Build(o) \/ Swap!Record(o) \/ Swap!Sync(o) \/ Swap!Installed(o) \/ Swap!Unclaim(o) \/ Swap!Discard(o) \/ Swap!Undone(o)
  BY <1>1, <1>2, <1>3 DEF Swap!Build, Swap!Record, Swap!Sync, Swap!Installed, Swap!Unclaim,
     Swap!Discard, Swap!Undone, Swap!Has, Swap!disk, Swap!Name, Base
<1>4. CASE Swap!Rebuild(o) \/ Swap!Clear(o)
  BY <1>1, <1>4 DEF Swap!Rebuild, Swap!Clear, OpFits, StepFits, Placed, Swap!At
<1>5. CASE Swap!Aside(o) \/ Swap!Install(o) \/ Swap!Restore(o)
  <2>1. /\ Swap!At(o, "synced") => Before(o)
        /\ op[o].at \in {"aside", "restore", "rollback"} => Between(o)
    BY <1>1 DEF OpFits, StepFits, Swap!At
  <2> QED BY <1>1, <1>2, <1>5, <2>1 DEF Swap!Aside, Swap!Install, Swap!Restore, Swap!Has, Swap!Name,
     Base, Swap!TypeOK, Before, Between, Swap!GivesUp, Swap!At
<1> QED BY <1>1, <1>3, <1>4, <1>5 DEF Swap!Replacing, Swap!Begin, Swap!Running, Swap!At

\* A start keeps it too, whatever replacement it is at.
LEMMA StartKeeps ==
  ASSUME Swap!SwapAssumption, SwapInv, NEW p \in Ops, Swap!ResolveTarget(p) \/ Swap!ResolveRest(p) \/ Swap!ResolveOrphan(p),
         NEW o \in Ops, Swap!Pending(o), Swap!Has(o)
  PROVE  Swap!Has(o)' \/ Placed(o)
<1>1. PICK step : Swap!Turn(p, step)
  BY DEF Swap!ResolveTarget, Swap!ResolveRest, Swap!ResolveOrphan
<1>2. /\ Swap!TypeOK /\ OpFits(p) /\ BootOp(p) /\ Turning(p) /\ turn.at = step /\ Swap!Name(p) \in Swap!Names
      /\ Ended(p) /\ op' = op
  BY <1>1, TurnFacts DEF Swap!ResolveTarget, Swap!ResolveRest, Swap!ResolveOrphan
<1>3. Swap!Name(o) \in Swap!Names /\ Base(o) # None
  BY DEF SwapInv, OpFits, Steady, Swap!Pending, Swap!Running, Swap!At
<1>4. CASE o # p
  <2>1. old'[o] = old[o] /\ kept'[o] = kept[o]
    BY <1>2, <1>4 DEF Swap!ResolveTarget, Swap!ResolveRest, Swap!ResolveOrphan, Swap!PutBack,
       Swap!Preserve, Swap!Removed, Swap!Tears, Swap!TypeOK
  <2>2. folder'[Swap!Name(o)] = folder[Swap!Name(o)] \/ folder[Swap!Name(o)] = None
    BY <1>2, <1>3 DEF Swap!ResolveTarget, Swap!ResolveRest, Swap!ResolveOrphan, Swap!PutBack, Swap!TypeOK
  <2> QED BY <1>2, <1>3, <2>1, <2>2 DEF Swap!Has, Swap!Name, Base
<1>5. CASE o = p
  <2>1. CASE Swap!ResolveTarget(p)
    BY <1>2, <1>3, <1>5, <2>1 DEF Swap!ResolveTarget, Swap!PutBack, Swap!Preserve, Swap!Has, Swap!Name,
       Base, Swap!TypeOK
  <2>2. CASE Swap!ResolveRest(p)
    <3>1. old' = old \/ (Swap!Turn(p, "old") /\ \A q \in Ops : old'[q] # old[q] => q = p)
      BY <1>2, <2>2 DEF Swap!ResolveRest, Swap!Removed, Swap!Tears, Swap!TypeOK
    <3>2. CASE old' = old
      BY <1>2, <2>2, <3>2 DEF Swap!ResolveRest, Swap!Has, Swap!Name, Base
    <3>3. CASE Swap!Turn(p, "old")
      <4>1. old[p] # None => Placed(p)
        BY <1>2, <3>3 DEF BootOp, Swap!Turn
      <4> QED BY <1>2, <1>3, <1>5, <2>2, <3>3, <4>1 DEF Swap!ResolveRest, Swap!Has, Swap!Name, Base,
         Placed, Swap!Removed, Swap!Tears, Swap!TypeOK, Swap!Turn
    <3> QED BY <3>1, <3>2, <3>3
  <2>3. CASE Swap!ResolveOrphan(p)
    BY <1>2, <1>3, <1>5, <2>3 DEF Swap!ResolveOrphan, Swap!Preserve, Swap!Has, Swap!Name, Base,
       Swap!TypeOK
  <2> QED BY <2>1, <2>2, <2>3
<1> QED BY <1>4, <1>5

\* What a folder held is deleted only while the replacement it made way for
\* stands in its place, whatever fails and wherever the daemon is killed.
THEOREM OriginalsAreKept == ASSUME Swap!SwapAssumption PROVE Swap!Spec => [][Swap!OriginalKept]_(Swap!vars)
<1>1. SwapInv /\ [Swap!Next]_(Swap!vars) => [Swap!OriginalKept]_(Swap!vars)
  <2> SUFFICES ASSUME SwapInv, Swap!Next, NEW o \in Ops, Swap!Pending(o), Swap!Has(o), ~Swap!Has(o)', hands' = hands
               PROVE  folder[Swap!Name(o)] = o
    BY DEF Swap!OriginalKept
  <2>1. ASSUME NEW p \in Ops, Swap!Replacing(p) PROVE Placed(o)
    <3>1. CASE p = o
      BY <2>1, <3>1, OwnKept
    <3>2. CASE p # o
      BY <2>1, <3>2, OthersStay DEF Swap!Has, Swap!Name
    <3> QED BY <3>1, <3>2
  <2>2. ASSUME NEW n \in Swap!Names, Swap!Remove(n) \/ Swap!Put(n) PROVE FALSE
    BY <2>2 DEF Swap!Remove, Swap!Put, Swap!Hand, SwapInv, Swap!TypeOK
  <2>3. ASSUME NEW p \in Ops, Swap!LoseJournal(p) PROVE FALSE
    BY <2>3 DEF Swap!LoseJournal, Swap!Hand, SwapInv, Swap!TypeOK
  <2>4. CASE Swap!Crash
    BY <2>4 DEF Swap!Crash, Swap!disk, Swap!Has, Swap!Name, SwapInv, Swap!TypeOK
  <2>5. CASE Swap!NextPhase \/ Swap!Take
    BY <2>5 DEF Swap!NextPhase, Swap!Take, Swap!disk, Swap!Has, Swap!Name
  <2>6. ASSUME NEW p \in Ops, Swap!ResolveTarget(p) \/ Swap!ResolveRest(p) \/ Swap!ResolveOrphan(p) PROVE Placed(o)
    BY <2>6, StartKeeps
  <2> QED BY <2>1, <2>2, <2>3, <2>4, <2>5, <2>6 DEF Swap!Next, Swap!Recovering, Placed
<1> QED BY <1>1, SwapInvariance, PTL DEF Swap!Spec

-----------------------------------------------------------------------------
\* What an import says of a replacement is so: nothing pending means nothing
\* changed or all of it did, committed means the new folder is in place.
THEOREM ReportsAreTrue == ASSUME Swap!SwapAssumption PROVE Swap!Spec => [][Swap!ReportsHold]_(Swap!vars)
<1>1. SwapInv /\ [Swap!Next]_(Swap!vars) => [Swap!ReportsHold]_(Swap!vars)
  <2> SUFFICES ASSUME SwapInv, Swap!Next, NEW o \in Ops, op[o].report = None, op'[o].report # None
               PROVE  /\ op'[o].report \in {"ok", "committed"} => folder'[Swap!Name(o)] = o
                      /\ op'[o].report = "ok" /\ Swap!Transfer(o) => ~intent'[o] /\ old'[o] = None
                      /\ op'[o].report = "failed" /\ Swap!Transfer(o) =>
                            ~intent'[o] /\ folder'[Swap!Name(o)] = op[o].base
    BY DEF Swap!ReportsHold
  <2>1. Swap!TypeOK /\ OpFits(o)
    BY DEF SwapInv
  <2>2. ASSUME NEW p \in Ops, Swap!Replacing(p), p # o PROVE FALSE
    BY ZenonT(40), <2>1, <2>2 DEF Swap!TypeOK, Swap!Replacing, Swap!Go, Swap!Ends, Swap!Begin, Swap!Build,
       Swap!Record, Swap!Sync, Swap!Aside, Swap!Install, Swap!Restore, Swap!Rebuild,
        Swap!Installed, Swap!Clear, Swap!Unclaim, Swap!Discard, Swap!Undone, Swap!GivesUp, Swap!Committed
  <2>3. ~\E n \in Swap!Names, k \in Swap!Kinds : Swap!Begin(o, n, k)
    BY <2>1 DEF Swap!Begin, Swap!TypeOK
  <2>4. CASE Swap!Build(o) \/ Swap!Record(o)
    <3>1. folder' = folder /\ ~intent[o] /\ folder[Swap!Name(o)] = op[o].base /\ intent \in [Ops -> BOOLEAN]
      BY <2>1, <2>4 DEF Swap!Build, Swap!Record, OpFits, StepFits, Before, Swap!At, Base, Swap!TypeOK
    <3>2. CASE Swap!Go(o, "built") \/ Swap!Go(o, "intended")
      BY <2>1, <3>2, GoView DEF Swap!Steps
    <3>3. CASE Swap!Ends(o, "failed") /\ UNCHANGED intent
      BY <2>1, <3>1, <3>3, EndsView DEF Swap!Reports
    <3>4. CASE Swap!Ends(o, "pending")
      BY <2>1, <3>4, EndsView DEF Swap!Reports
    <3>5. CASE Swap!Ends(o, "failed") /\ ~Swap!Transfer(o)
      BY <2>1, <3>5, EndsView DEF Swap!Reports
    <3> QED BY <2>4, <3>2, <3>3, <3>4, <3>5 DEF Swap!Build, Swap!Record
  <2>5. CASE Swap!Sync(o) \/ Swap!Aside(o) \/ Swap!Install(o)
    <3>1. ASSUME NEW step, Swap!Go(o, step) PROVE FALSE
      BY <2>1, <3>1 DEF Swap!Go, Swap!TypeOK
    <3>2. ASSUME NEW used, op' = [op EXCEPT ![o].at = "aside", ![o].used = used] PROVE FALSE
      BY <2>1, <3>2 DEF Swap!TypeOK
    <3>4. CASE Swap!Sync(o)
      <4>1. CASE Swap!Transfer(o)
        BY <3>1, <3>4, <4>1 DEF Swap!Sync
      <4>2. CASE ~Swap!Transfer(o)
        <5>1. Swap!Ends(o, "failed")
          BY <3>1, <3>4, <4>2 DEF Swap!Sync
        <5> QED BY <2>1, <4>2, <5>1, EndsView DEF Swap!Reports
      <4> QED BY <4>1, <4>2
    <3> QED BY <2>5, <3>1, <3>2, <3>4 DEF Swap!Aside, Swap!Install
  <2>6. CASE Swap!Restore(o) \/ Swap!Rebuild(o)
    BY <2>1, <2>6, EndsView, GoView DEF Swap!Restore, Swap!Rebuild, Swap!GivesUp, Swap!TypeOK,
       Swap!Steps, Swap!Reports, OpFits, StepFits
  <2>7. CASE Swap!Installed(o) \/ Swap!Clear(o) \/ Swap!Unclaim(o)
    BY <2>1, <2>7, EndsView, GoView DEF Swap!Installed, Swap!Clear, Swap!Unclaim, Swap!Committed,
       Swap!TypeOK, Swap!Steps, Swap!Reports, OpFits, StepFits, Placed, Swap!At, Swap!disk, Swap!Unclaims
  <2>8. CASE Swap!Discard(o) \/ Swap!Undone(o)
    BY <2>1, <2>8, EndsView, GoView DEF Swap!Discard, Swap!Undone, Swap!TypeOK, Swap!Steps,
       Swap!Reports, OpFits, StepFits, Before, Base, Swap!At
  <2>9. ASSUME \/ \E n \in Swap!Names : Swap!Remove(n) \/ Swap!Put(n)
               \/ \E p \in Ops : Swap!LoseJournal(p)
               \/ Swap!Recovering
        PROVE  FALSE
    BY <2>9 DEF Swap!Remove, Swap!Put, Swap!LoseJournal, Swap!Recovering, Swap!NextPhase, Swap!Take,
       Swap!ResolveTarget, Swap!ResolveRest, Swap!ResolveOrphan
  <2>10. CASE Swap!Crash
    BY <2>1, <2>10 DEF Swap!Crash, Swap!TypeOK
  <2> QED BY <2>2, <2>3, <2>4, <2>5, <2>6, <2>7, <2>8, <2>9, <2>10 DEF Swap!Next, Swap!Replacing
<1> QED BY <1>1, SwapInvariance, PTL DEF Swap!Spec

-----------------------------------------------------------------------------
(***************************************************************************)
(* Replacing the folder of a name is one change of it (AtomicChange).      *)
(***************************************************************************)
Change(n) == INSTANCE AtomicChange WITH
    Values <- Swap!Folders \union {None}, RollsBack <- TRUE,
    settled <- Swap!Settled(n), intended <- Swap!Intended(n)

\* The replacement has not taken effect yet.
Open(o) == (intent[o] \/ Swap!Running(o)) /\ ~Swap!InPlace(o)

\* What AtomicChange sees of a name nobody else touched.
Seen(n) ==
    n \notin touched =>
     /\ \A o \in Ops : Swap!Name(o) = n /\ Open(o) =>
           Swap!Settled(n) = Base(o) /\ Swap!Intended(n) = (IF intent[o] THEN o ELSE None)
     /\ (\A o \in Ops : ~(Swap!Name(o) = n /\ Open(o))) => Swap!Settled(n) = folder[n] /\ Swap!Intended(n) = None

LEMMA SeenNow == ASSUME NEW n \in Swap!Names PROVE SwapInv => Seen(n)
<1> SUFFICES ASSUME SwapInv, n \notin touched
             PROVE  /\ \A o \in Ops : Swap!Name(o) = n /\ Open(o) =>
                          Swap!Settled(n) = Base(o) /\ Swap!Intended(n) = (IF intent[o] THEN o ELSE None)
                    /\ (\A o \in Ops : ~(Swap!Name(o) = n /\ Open(o))) =>
                          Swap!Settled(n) = folder[n] /\ Swap!Intended(n) = None
  BY DEF Seen
<1>1. \A o \in Ops : o \in Swap!Undecided(n) <=> Swap!Name(o) = n /\ Open(o)
  BY DEF Swap!Undecided, Swap!Current, Open
<1>2. Swap!Undecided(n) \subseteq Ops
  BY DEF Swap!Undecided, Swap!Current
<1>3. ASSUME NEW o \in Ops, Swap!Name(o) = n, Open(o)
      PROVE  Swap!Settled(n) = Base(o) /\ Swap!Intended(n) = (IF intent[o] THEN o ELSE None)
  <2>1. \A p \in Swap!Undecided(n) : p = o
    BY <1>1, <1>2, <1>3 DEF SwapInv, OneClaim, Swap!Pending, Open
  <2>2. Swap!Undecided(n) = {o}
    BY <1>1, <1>3, <2>1
  <2>3. Swap!Settled(n) = Base(o)
    BY <2>2 DEF Swap!Settled, Base
  <2>4. CASE intent[o]
    <3>1. {p \in Swap!Undecided(n) : intent[p]} = {o}
      BY <2>2, <2>4
    <3> QED BY <2>4, <3>1, <2>3 DEF Swap!Intended
  <2>5. CASE ~intent[o]
    <3>1. {p \in Swap!Undecided(n) : intent[p]} = {}
      BY <2>2, <2>5
    <3> QED BY <2>5, <3>1, <2>3 DEF Swap!Intended
  <2> QED BY <2>4, <2>5
<1>4. ASSUME \A o \in Ops : ~(Swap!Name(o) = n /\ Open(o))
      PROVE  Swap!Settled(n) = folder[n] /\ Swap!Intended(n) = None
  <2>1. Swap!Undecided(n) = {}
    BY <1>1, <1>2, <1>4
  <2> QED BY <2>1 DEF Swap!Settled, Swap!Intended
<1> QED BY <1>3, <1>4

LEMMA SeenNext == ASSUME NEW n \in Swap!Names PROVE SwapInv' => Seen(n)'
<1>1. SwapInv => Seen(n)
  BY SeenNow
<1> QED BY <1>1, PTL

\* A name that somebody else touched is left out.
Unseen(n) == n \in touched => Swap!Settled(n) = Unknown /\ Swap!Intended(n) = None

LEMMA UnseenNow == ASSUME NEW n \in Swap!Names PROVE Unseen(n) /\ Unseen(n)'
<1>1. Unseen(n)
  BY DEF Unseen, Swap!Settled, Swap!Intended
<1> QED BY <1>1, PTL

\* What a step of a replacement does to that.
Moves(o) ==
    /\ Open(o) => Base(o)' = Base(o)
    /\ Open(o) /\ ~Open(o)' => folder'[Swap!Name(o)] = Base(o) \/ (folder'[Swap!Name(o)] = o /\ intent[o])
    /\ ~Open(o) /\ ~Open(o)' => folder'[Swap!Name(o)] = folder[Swap!Name(o)]
    /\ ~Open(o) => ~Open(o)'

LEMMA Decided ==
  ASSUME Swap!SwapAssumption, SwapInv, SwapInv', NEW n \in Swap!Names, n \notin touched, n \notin touched',
         NEW o \in Ops, Swap!Name(o) = n, Swap!Name(o)' = n, Moves(o),
         \A p \in Ops : Swap!Name(p) = n /\ Open(p) => p = o,
         \A p \in Ops : Swap!Name(p)' = n /\ Open(p)' => p = o
  PROVE  [Change(n)!Next]_<<Swap!Settled(n), Swap!Intended(n)>>
<1>1. Seen(n) /\ Seen(n)'
  BY SeenNow, SeenNext
<1>2. /\ Open(o) => Swap!Settled(n) = Base(o) /\ Swap!Intended(n) = (IF intent[o] THEN o ELSE None)
      /\ ~Open(o) => Swap!Settled(n) = folder[n] /\ Swap!Intended(n) = None
  BY <1>1 DEF Seen
<1>3. /\ Open(o)' => Swap!Settled(n)' = Base(o)' /\ Swap!Intended(n)' = (IF intent'[o] THEN o ELSE None)
      /\ ~Open(o)' => Swap!Settled(n)' = folder'[n] /\ Swap!Intended(n)' = None
  BY <1>1 DEF Seen
<1>4. o \in Swap!Folders /\ None \notin Ops /\ Base(o) # Unknown /\ intent \in [Ops -> BOOLEAN]
  BY Distinct DEF Swap!Folders, SwapInv, Swap!TypeOK, Base
<1>5. CASE Open(o) /\ Open(o)'
  <2>1. Swap!Settled(n)' = Swap!Settled(n)
    BY <1>2, <1>3, <1>5 DEF Moves
  <2>2. CASE intent'[o] = intent[o]
    BY <1>2, <1>3, <1>5, <2>1, <2>2
  <2>3. CASE ~intent[o] /\ intent'[o]
    BY <1>2, <1>3, <1>4, <1>5, <2>1, <2>3 DEF Change!Next, Change!Intend
  <2>4. CASE intent[o] /\ ~intent'[o]
    BY <1>2, <1>3, <1>4, <1>5, <2>1, <2>4 DEF Change!Next, Change!RollBack
  <2>5. intent'[o] \in BOOLEAN
    BY DEF SwapInv, Swap!TypeOK
  <2> QED BY <1>4, <2>2, <2>3, <2>4, <2>5
<1>6. CASE Open(o) /\ ~Open(o)'
  <2>1. CASE folder'[n] = Base(o) /\ intent[o]
    BY <1>2, <1>3, <1>4, <1>6, <2>1 DEF Change!Next, Change!RollBack
  <2>2. CASE folder'[n] = Base(o) /\ ~intent[o]
    BY <1>2, <1>3, <1>6, <2>2
  <2>3. CASE folder'[n] = o /\ intent[o]
    BY <1>2, <1>3, <1>4, <1>6, <2>3 DEF Change!Next, Change!TakeEffect
  <2> QED BY <1>6, <2>1, <2>2, <2>3 DEF Moves
<1>7. CASE ~Open(o)
  BY <1>2, <1>3, <1>7 DEF Moves
<1> QED BY <1>5, <1>6, <1>7

LEMMA Still ==
  ASSUME SwapInv, SwapInv', NEW n \in Swap!Names, n \notin touched, n \notin touched',
         \A o \in Ops : (Swap!Name(o)' = n /\ Open(o)') <=> (Swap!Name(o) = n /\ Open(o)),
         \A o \in Ops : Swap!Name(o) = n /\ Open(o) => Base(o)' = Base(o) /\ intent'[o] = intent[o],
         folder'[n] = folder[n] \/ \E o \in Ops : Swap!Name(o) = n /\ Open(o)
  PROVE  [Change(n)!Next]_<<Swap!Settled(n), Swap!Intended(n)>>
<1>1. Seen(n) /\ Seen(n)'
  BY SeenNow, SeenNext
<1>2. CASE \E o \in Ops : Swap!Name(o) = n /\ Open(o)
  <2>1. PICK o \in Ops : Swap!Name(o) = n /\ Open(o)
    BY <1>2
  <2>2. Swap!Settled(n) = Base(o) /\ Swap!Intended(n) = (IF intent[o] THEN o ELSE None)
    BY <1>1, <2>1 DEF Seen
  <2>3. Swap!Settled(n)' = Base(o)' /\ Swap!Intended(n)' = (IF intent'[o] THEN o ELSE None)
    BY <1>1, <2>1 DEF Seen
  <2>4. Base(o)' = Base(o) /\ intent'[o] = intent[o]
    BY <2>1
  <2> QED BY <2>2, <2>3, <2>4
<1>3. CASE ~\E o \in Ops : Swap!Name(o) = n /\ Open(o)
  <2>1. Swap!Settled(n) = folder[n] /\ Swap!Intended(n) = None
    BY <1>1, <1>3 DEF Seen
  <2>2. Swap!Settled(n)' = folder'[n] /\ Swap!Intended(n)' = None
    BY <1>1, <1>3 DEF Seen
  <2> QED BY <1>3, <2>1, <2>2
<1> QED BY <1>2, <1>3

\* What a replacement or a start does, it does to one.
LEMMA OthersSame ==
  ASSUME SwapInv, NEW p \in Ops,
         Swap!Replacing(p) \/ Swap!ResolveTarget(p) \/ Swap!ResolveRest(p) \/ Swap!ResolveOrphan(p)
  PROVE  /\ phase' = phase /\ touched' = touched
         /\ \A q \in Ops : q # p => op'[q] = op[q] /\ intent'[q] = intent[q]
         /\ \A n \in Swap!Names : n # Swap!Name(p) => folder'[n] = folder[n]
<1>1. Swap!TypeOK
  BY DEF SwapInv
<1>2. CASE \E n \in Swap!Names, k \in Swap!Kinds : Swap!Begin(p, n, k)
  BY <1>1, <1>2 DEF Swap!Begin, Swap!TypeOK, Swap!hist
<1>3. CASE Swap!Build(p) \/ Swap!Record(p) \/ Swap!Sync(p) \/ Swap!Aside(p) \/ Swap!Install(p) \/ Swap!Restore(p)
  BY <1>1, <1>3 DEF Swap!TypeOK, Swap!Go, Swap!Ends, Swap!Build, Swap!Record, Swap!Sync, Swap!Aside,
     Swap!Install, Swap!Restore, Swap!GivesUp, Swap!disk, Swap!hist
<1>4. CASE Swap!Rebuild(p) \/ Swap!Installed(p) \/ Swap!Clear(p) \/ Swap!Unclaim(p) \/ Swap!Discard(p) \/ Swap!Undone(p)
  BY <1>1, <1>4 DEF Swap!TypeOK, Swap!Go, Swap!Ends, Swap!Rebuild, Swap!Installed, Swap!Clear,
     Swap!Unclaim, Swap!Discard, Swap!Undone, Swap!GivesUp, Swap!Committed, Swap!disk, Swap!hist,
     Swap!Unclaims
<1>5. CASE Swap!ResolveTarget(p) \/ Swap!ResolveRest(p) \/ Swap!ResolveOrphan(p)
  BY <1>1, <1>5 DEF Swap!TypeOK, Swap!ResolveTarget, Swap!ResolveRest, Swap!ResolveOrphan, Swap!PutBack,
     Swap!Unclaims, Swap!hist
<1> QED BY <1>2, <1>3, <1>4, <1>5 DEF Swap!Replacing

\* A step of one that works on another name.
LEMMA Elsewhere ==
  ASSUME Swap!SwapAssumption, SwapInv, SwapInv', NEW n \in Swap!Names, n \notin touched, n \notin touched', NEW p \in Ops,
         Swap!Replacing(p) \/ Swap!ResolveTarget(p) \/ Swap!ResolveRest(p) \/ Swap!ResolveOrphan(p),
         Swap!Name(p) # n, Swap!Name(p)' # n
  PROVE  [Change(n)!Next]_<<Swap!Settled(n), Swap!Intended(n)>>
<1>1. folder'[n] = folder[n] /\ phase' = phase
  BY OthersSame
<1>2. ASSUME NEW q \in Ops, Swap!Name(q) = n \/ Swap!Name(q)' = n
      PROVE  Swap!Name(q)' = Swap!Name(q) /\ (Open(q)' <=> Open(q)) /\ Base(q)' = Base(q) /\ intent'[q] = intent[q]
  <2>1. q # p
    BY <1>2
  <2>2. op'[q] = op[q] /\ intent'[q] = intent[q]
    BY <2>1, OthersSame
  <2>3. Swap!Name(q) = n
    BY <1>2, <2>2 DEF Swap!Name
  <2> QED BY <1>1, <2>2, <2>3 DEF Open, Swap!InPlace, Swap!Name, Base, Swap!Running, Swap!At
<1> QED BY <1>1, <1>2, Still

LEMMA BeginRefines ==
  ASSUME Swap!SwapAssumption, SwapInv, SwapInv', NEW n \in Swap!Names, n \notin touched, n \notin touched', NEW o \in Ops,
         NEW k \in Swap!Kinds, Swap!Begin(o, n, k)
  PROVE  [Change(n)!Next]_<<Swap!Settled(n), Swap!Intended(n)>>
<1>1. Seen(n) /\ Seen(n)'
  BY SeenNow, SeenNext
<1>2. Swap!Settled(n) = folder[n] /\ Swap!Intended(n) = None
  <2>1. \A p \in Ops : ~(Swap!Name(p) = n /\ Open(p))
    BY DEF Swap!Begin, Swap!Locked, Swap!Claimed, Open
  <2> QED BY <1>1, <2>1 DEF Seen
<1>3. /\ op'[o].at = "building" /\ op'[o].name = n /\ op'[o].base = folder[n] /\ intent' = intent
      /\ folder' = folder /\ ~intent[o]
  BY DEF Swap!Begin, SwapInv, Swap!TypeOK, OpFits, Steady
<1>4. folder[n] # o
  BY DEF Swap!Begin, SwapInv, Unused
<1>5. Swap!Settled(n)' = folder[n] /\ Swap!Intended(n)' = None
  <2>1. Swap!Name(o)' = n /\ Open(o)' /\ Base(o)' = folder[n]
    BY <1>3, <1>4 DEF Swap!Name, Open, Base, Swap!InPlace, Swap!Running
  <2> QED BY <1>1, <1>3, <2>1 DEF Seen
<1> QED BY <1>2, <1>5

\* A replacement that is open is in place, or undone, when it is not any more.
LEMMA ReplacingMoves ==
  ASSUME Swap!SwapAssumption, SwapInv, SwapInv', NEW o \in Ops, Swap!Replacing(o), Swap!Running(o)
  PROVE  Moves(o) /\ Swap!Name(o)' = Swap!Name(o) /\ Swap!Pending(o)
<1>1. Swap!TypeOK /\ OpFits(o) /\ OpFits(o)' /\ phase = "up" /\ phase' = phase /\ Swap!Name(o) \in Swap!Names /\ o # None
  BY OthersSame, Distinct DEF SwapInv, OpFits, Steady, Swap!Running, Swap!At
<1>2. op'[o].name = Swap!Name(o) /\ op'[o].base = Base(o) /\ op'[o].at # "idle"
  <2>1. CASE Swap!Build(o) \/ Swap!Record(o) \/ Swap!Sync(o) \/ Swap!Install(o) \/ Swap!Restore(o)
    BY <1>1, <2>1 DEF Swap!TypeOK, Swap!Go, Swap!Ends, Swap!Build, Swap!Record, Swap!Sync, Swap!Install,
       Swap!Restore, Swap!GivesUp, Swap!Name, Base
  <2>2. CASE Swap!Rebuild(o) \/ Swap!Installed(o) \/ Swap!Clear(o) \/ Swap!Unclaim(o) \/ Swap!Discard(o) \/ Swap!Undone(o)
    BY <1>1, <2>2 DEF Swap!TypeOK, Swap!Go, Swap!Ends, Swap!Rebuild, Swap!Installed, Swap!Clear,
       Swap!Unclaim, Swap!Discard, Swap!Undone, Swap!GivesUp, Swap!Committed, Swap!Name, Base
  <2>3. CASE Swap!Aside(o)
    <3>1. CASE Swap!Go(o, "discard")
      BY <1>1, <3>1 DEF Swap!TypeOK, Swap!Go, Swap!Name, Base
    <3>2. ASSUME NEW used, op' = [op EXCEPT ![o].at = "aside", ![o].used = used]
          PROVE  op'[o].name = Swap!Name(o) /\ op'[o].base = Base(o) /\ op'[o].at # "idle"
      BY <1>1, <3>2 DEF Swap!TypeOK, Swap!Name, Base
    <3> QED BY <2>3, <3>1, <3>2 DEF Swap!Aside
  <2> QED BY <1>1, <2>1, <2>2, <2>3 DEF Swap!Replacing, Swap!Begin, Swap!Running, Swap!At
<1>3. Swap!Name(o)' = Swap!Name(o) /\ Base(o)' = Base(o) /\ Swap!Pending(o)
  BY <1>2 DEF Swap!Name, Base, Swap!Pending
<1>4. Base(o) # o /\ Base(o) # None
  BY <1>1 DEF OpFits, Steady, Swap!Running, Swap!At
<1>5. CASE Swap!Build(o) \/ Swap!Record(o)
  BY <1>1, <1>2, <1>3, <1>4, <1>5 DEF Swap!Build, Swap!Record, Moves, Open, Swap!InPlace, OpFits,
     StepFits, Before, Swap!Running, Swap!At, Swap!Name, Base
<1>6. CASE Swap!Sync(o) \/ Swap!Aside(o) \/ Swap!Discard(o) \/ Swap!Undone(o)
  <2>1. Open(o) /\ folder[Swap!Name(o)] = Base(o)
    BY <1>1, <1>4, <1>6 DEF Swap!Sync, Swap!Aside, Swap!Discard, Swap!Undone, Open, Swap!InPlace,
       OpFits, StepFits, Before, Swap!Running, Swap!At
  <2>2. folder'[Swap!Name(o)] \in {folder[Swap!Name(o)], None}
    BY <1>1, <1>6 DEF Swap!Sync, Swap!Aside, Swap!Discard, Swap!Undone, Swap!disk, Swap!TypeOK
  <2>3. CASE folder'[Swap!Name(o)] = Base(o)
    BY <1>3, <2>1, <2>3 DEF Moves
  <2>4. CASE folder'[Swap!Name(o)] = None /\ Base(o) # None
    <3>1. Swap!Aside(o) /\ intent' = intent /\ intent[o]
      BY <1>1, <1>6, <2>1, <2>4 DEF Swap!Sync, Swap!Aside, Swap!Discard, Swap!Undone, Swap!disk, OpFits,
         StepFits, Swap!At
    <3>2. Open(o)'
      BY <1>1, <1>3, <2>4, <3>1 DEF Open, Swap!InPlace, Swap!Name
    <3> QED BY <1>3, <2>1, <3>2 DEF Moves
  <2> QED BY <1>4, <2>1, <2>2, <2>3, <2>4
<1>7. CASE Swap!Install(o) \/ Swap!Rebuild(o)
  <2>1. Open(o) /\ intent[o] /\ intent' = intent
    BY <1>1, <1>7 DEF Swap!Install, Swap!Rebuild, Open, Swap!InPlace, OpFits, StepFits, Between,
       Swap!Running, Swap!At
  <2>2. Open(o)' \/ folder'[Swap!Name(o)] = o
    BY <1>3, <2>1 DEF Open, Swap!InPlace, Swap!Name
  <2> QED BY <1>3, <2>1, <2>2 DEF Moves
<1>8. CASE Swap!Restore(o)
  <2>1. Open(o) /\ intent[o] /\ intent' = intent /\ folder'[Swap!Name(o)] \in {Base(o), None}
    BY <1>1, <1>8 DEF Swap!Restore, Open, Swap!InPlace, OpFits, StepFits, Between, Swap!Running,
       Swap!At, Swap!TypeOK
  <2>2. Open(o)'
    BY <1>1, <1>3, <1>4, <2>1 DEF Open, Swap!InPlace, Swap!Name
  <2> QED BY <1>3, <2>1, <2>2 DEF Moves
<1>9. CASE Swap!Installed(o) \/ Swap!Clear(o) \/ Swap!Unclaim(o)
  <2>1. folder' = folder /\ Placed(o) /\ ~Swap!At(o, "rebuild")
    BY <1>1, <1>9 DEF Swap!Installed, Swap!Clear, Swap!Unclaim, Swap!disk, OpFits, StepFits, Swap!At
  <2>2. op'[o].at # "rebuild"
    BY <1>1, <1>9 DEF Swap!Installed, Swap!Clear, Swap!Unclaim, Swap!Go, Swap!Ends, Swap!Committed,
       Swap!TypeOK
  <2> QED BY <1>3, <2>1, <2>2 DEF Moves, Open, Swap!InPlace, Placed, Swap!Name, Swap!At
<1> QED BY <1>3, <1>5, <1>6, <1>7, <1>8, <1>9 DEF Swap!Replacing, Swap!Begin, Swap!Running, Swap!At

LEMMA ReplacingRefines ==
  ASSUME Swap!SwapAssumption, SwapInv, SwapInv', NEW n \in Swap!Names, n \notin touched, n \notin touched', NEW o \in Ops,
         Swap!Replacing(o)
  PROVE  [Change(n)!Next]_<<Swap!Settled(n), Swap!Intended(n)>>
<1>1. CASE \E k \in Swap!Kinds : Swap!Begin(o, n, k)
  BY <1>1, BeginRefines
<1>2. ASSUME NEW m \in Swap!Names, NEW k \in Swap!Kinds, m # n, Swap!Begin(o, m, k)
      PROVE  [Change(n)!Next]_<<Swap!Settled(n), Swap!Intended(n)>>
  <2>1. Swap!Name(o) = None /\ Swap!Name(o)' = m
    BY <1>2 DEF Swap!Begin, SwapInv, Swap!TypeOK, OpFits, Steady, Swap!Name
  <2> QED BY <1>2, <2>1, Elsewhere, Distinct
<1>3. CASE Swap!Running(o)
  <2>1. Moves(o) /\ Swap!Name(o)' = Swap!Name(o) /\ Swap!Pending(o)
    BY <1>3, ReplacingMoves
  <2>2. CASE Swap!Name(o) # n
    BY <2>1, <2>2, Elsewhere
  <2>3. CASE Swap!Name(o) = n
    <3>1. \A p \in Ops : p # o /\ Swap!Name(p) = n => ~Swap!Pending(p)
      BY <2>1, <2>3 DEF SwapInv, OneClaim
    <3>2. \A p \in Ops : p # o => Swap!Name(p)' = Swap!Name(p) /\ (intent'[p] <=> intent[p]) /\ (Swap!Running(p)' <=> Swap!Running(p))
      BY OthersSame DEF Swap!Name, Swap!Running
    <3> QED BY <2>1, <2>3, <3>1, <3>2, Decided DEF Open, Swap!Pending
  <2> QED BY <2>2, <2>3
<1> QED BY <1>1, <1>2, <1>3 DEF Swap!Replacing, Swap!Begin, Swap!Build, Swap!Record, Swap!Sync,
   Swap!Aside, Swap!Install, Swap!Restore, Swap!Rebuild,
      Swap!Installed, Swap!Clear, Swap!Unclaim, Swap!Discard, Swap!Undone, Swap!Running, Swap!At

LEMMA StartMoves ==
  ASSUME Swap!SwapAssumption, SwapInv, SwapInv', NEW n \in Swap!Names, n \notin touched, n \notin touched', NEW o \in Ops,
         Swap!ResolveTarget(o) \/ Swap!ResolveRest(o) \/ Swap!ResolveOrphan(o), Swap!Name(o) = n
  PROVE  [Change(n)!Next]_<<Swap!Settled(n), Swap!Intended(n)>>
<1>1. PICK step : Swap!Turn(o, step)
  BY DEF Swap!ResolveTarget, Swap!ResolveRest, Swap!ResolveOrphan
<1>2. /\ Swap!TypeOK /\ OpFits(o) /\ BootOp(o) /\ Turning(o) /\ turn.at = step /\ Ended(o) /\ op' = op
      /\ Base(o) # o /\ Base(o) # None /\ o # None
  BY <1>1, TurnFacts, Distinct DEF Swap!ResolveTarget, Swap!ResolveRest, Swap!ResolveOrphan, OpFits,
     Steady, Swap!At, Ended
<1>3. \A p \in Ops : Swap!Name(p)' = Swap!Name(p) /\ Base(p)' = Base(p) /\ (Swap!Running(p)' <=> Swap!Running(p))
  BY <1>2 DEF Swap!Name, Base, Swap!Running
<1>4. Open(o) => intent[o] /\ folder[n] # o
  BY <1>2 DEF Open, Swap!Running, Ended, Swap!At, Swap!InPlace
<1>5. CASE intent[o]
  <2>1. Before(o) \/ Between(o) \/ Placed(o)
    BY <1>2, <1>5 DEF OpFits, Untouched
  <2>2. Placed(o) => folder'[n] = folder[n]
    BY <1>2 DEF Placed, Swap!ResolveTarget, Swap!ResolveRest, Swap!ResolveOrphan, Swap!TypeOK
  <2>3. Open(o)' \/ folder'[n] = o \/ (~intent'[o] /\ Swap!ResolveRest(o) /\ Swap!Turn(o, "claim") /\ folder' = folder)
    BY <1>2, <1>5 DEF Open, Swap!InPlace, Swap!Name, Swap!ResolveTarget, Swap!ResolveRest,
       Swap!ResolveOrphan
  <2>4. Swap!Turn(o, "claim") => folder[n] # None
    BY <1>2 DEF BootOp, Swap!Turn
  <2>5. Open(o) <=> ~Placed(o)
    BY <1>2, <1>5 DEF Open, Swap!InPlace, Placed, Ended, Swap!At
  <2>6. Placed(o) => ~Open(o)'
    BY <1>2, <1>3, <2>2 DEF Open, Swap!InPlace, Placed, Swap!Name, Ended, Swap!At
  <2>7. Moves(o)
    BY <1>3, <1>5, <2>1, <2>2, <2>3, <2>4, <2>5, <2>6 DEF Moves, Before, Between, Placed
  <2>8. \A p \in Ops : p # o /\ Swap!Name(p) = n => ~Swap!Pending(p)
    BY <1>5 DEF SwapInv, OneClaim, Swap!Pending
  <2>9. \A p \in Ops : p # o => (intent'[p] <=> intent[p])
    BY OthersSame
  <2> QED BY <1>3, <2>7, <2>8, <2>9, Decided DEF Open, Swap!Pending
<1>6. CASE ~intent[o]
  <2>1. old[o] = None
    BY <1>6, <1>2 DEF OpFits, Untouched
  <2>2. Swap!ResolveOrphan(o)
    BY <1>1, <1>2, <1>6, TurnFacts DEF Swap!ResolveTarget, Swap!ResolveRest
  <2>3. folder' = folder /\ intent' = intent /\ phase' = phase
    BY <2>1, <2>2 DEF Swap!ResolveOrphan
  <2>4. \A p \in Ops : Open(p)' <=> Open(p)
    BY <1>2, <2>3 DEF Open, Swap!InPlace, Swap!Running, Swap!Name, Swap!At
  <2> QED BY <1>3, <2>3, <2>4, Still
<1> QED BY <1>2, <1>5, <1>6 DEF Swap!TypeOK

LEMMA CrashRefines ==
  ASSUME Swap!SwapAssumption, SwapInv, SwapInv', NEW n \in Swap!Names, n \notin touched, n \notin touched', Swap!Crash
  PROVE  [Change(n)!Next]_<<Swap!Settled(n), Swap!Intended(n)>>
<1>1. /\ Swap!TypeOK /\ phase' = "down" /\ folder' = folder /\ intent' = intent
      /\ op' = [o \in Ops |-> IF Swap!Running(o) THEN [op[o] EXCEPT !.at = "ended"] ELSE op[o]]
  BY DEF Swap!Crash, Swap!disk, SwapInv
<1>2. \A o \in Ops : /\ Swap!Name(o)' = Swap!Name(o) /\ Base(o)' = Base(o) /\ ~Swap!Running(o)'
                     /\ op'[o].at # "rebuild"
  BY <1>1 DEF Swap!Name, Base, Swap!Running, Swap!TypeOK
<1>3. \A o \in Ops : Open(o)' <=> intent[o] /\ ~Placed(o)
  BY <1>1, <1>2 DEF Open, Swap!InPlace, Placed, Swap!Name, Swap!At
<1>4. ASSUME NEW o \in Ops, Swap!Name(o) = n, Open(o)
      PROVE  [Change(n)!Next]_<<Swap!Settled(n), Swap!Intended(n)>>
  <2>1. \A p \in Ops : Swap!Name(p) = n /\ Swap!Pending(p) => p = o
    BY <1>4 DEF SwapInv, OneClaim, Swap!Pending, Open
  <2>2. ~intent[o] => Before(o)
    BY <1>4 DEF SwapInv, OpFits, StepFits, Open, Swap!Running, Swap!At, Swap!TypeOK, Swap!Steps
  <2>3. Moves(o)
    BY <1>1, <1>2, <1>3, <1>4, <2>2 DEF Moves, Before, Placed
  <2> QED BY <1>2, <1>3, <1>4, <2>1, <2>3, Decided DEF Open, Swap!Pending
<1>5. CASE \A o \in Ops : ~(Swap!Name(o) = n /\ Open(o))
  <2>1. \A o \in Ops : Swap!Name(o) = n => ~Open(o)'
    BY <1>3, <1>5 DEF Open, Swap!InPlace, Placed
  <2> QED BY <1>1, <1>2, <1>5, <2>1, Still
<1> QED BY <1>4, <1>5

LEMMA SwapRefines ==
  ASSUME Swap!SwapAssumption, SwapInv, SwapInv', [Swap!Next]_(Swap!vars), NEW n \in Swap!Names
  PROVE  [Change(n)!Next]_<<Swap!Settled(n), Swap!Intended(n)>>
<1>1. CASE n \in touched'
  <2>1. Swap!Settled(n)' = Unknown /\ Swap!Intended(n)' = None
    BY <1>1, UnseenNow DEF Unseen
  <2> QED BY <2>1 DEF Change!Next, Change!Interfere
<1>2. ASSUME n \notin touched', NEW o \in Ops,
             Swap!Replacing(o) \/ Swap!ResolveTarget(o) \/ Swap!ResolveRest(o) \/ Swap!ResolveOrphan(o)
      PROVE  [Change(n)!Next]_<<Swap!Settled(n), Swap!Intended(n)>>
  <2>1. n \notin touched
    BY <1>2, OthersSame
  <2>2. CASE Swap!Replacing(o)
    BY <1>2, <2>1, <2>2, ReplacingRefines
  <2>3. CASE Swap!ResolveTarget(o) \/ Swap!ResolveRest(o) \/ Swap!ResolveOrphan(o)
    <3>1. Swap!Name(o)' = Swap!Name(o)
      BY <2>3 DEF Swap!Name, Swap!ResolveTarget, Swap!ResolveRest, Swap!ResolveOrphan
    <3>2. CASE Swap!Name(o) # n
      BY <1>2, <2>1, <2>3, <3>1, <3>2, Elsewhere
    <3>3. CASE Swap!Name(o) = n
      BY <1>2, <2>1, <2>3, <3>3, StartMoves
    <3> QED BY <3>2, <3>3
  <2> QED BY <1>2, <2>2, <2>3
<1>3. CASE n \notin touched' /\ Swap!Crash
  BY <1>3, CrashRefines DEF Swap!Crash, Swap!hist
<1>4. CASE n \notin touched' /\ (Swap!NextPhase \/ Swap!Take)
  <2>1. n \notin touched /\ folder' = folder /\ intent' = intent /\ op' = op /\ phase # "up"
    BY <1>4 DEF Swap!NextPhase, Swap!Take, Swap!hist, Swap!disk
  <2>2. \A o \in Ops : ~Swap!Running(o)
    BY <2>1 DEF SwapInv, OpFits, Steady
  <2>3. \A o \in Ops : Swap!Name(o)' = Swap!Name(o) /\ Base(o)' = Base(o) /\ (Open(o)' <=> Open(o))
    BY <2>1, <2>2 DEF Swap!Name, Base, Open, Swap!InPlace, Swap!Running, Swap!At
  <2> QED BY <1>4, <2>1, <2>3, Still
<1>5. ASSUME n \notin touched', NEW m \in Swap!Names, Swap!Remove(m) \/ Swap!Put(m)
      PROVE  [Change(n)!Next]_<<Swap!Settled(n), Swap!Intended(n)>>
  <2>1. n \notin touched /\ m # n /\ intent' = intent /\ op' = op /\ phase' = phase
    BY <1>5 DEF Swap!Remove, Swap!Put, Swap!Hand
  <2>2. \A q \in Swap!Names : q # m => folder'[q] = folder[q]
    BY <1>5 DEF Swap!Remove, Swap!Put, SwapInv, Swap!TypeOK
  <2>3. \A o \in Ops : Swap!Name(o)' = Swap!Name(o) /\ Base(o)' = Base(o)
    BY <2>1 DEF Swap!Name, Base
  <2>4. \A o \in Ops : Swap!Name(o) = n => (Open(o)' <=> Open(o))
    BY <2>1, <2>2 DEF Swap!Name, Open, Swap!InPlace, Swap!Running, Swap!At
  <2> QED BY <1>5, <2>1, <2>2, <2>3, <2>4, Still
<1>6. ASSUME n \notin touched', NEW p \in Ops, Swap!LoseJournal(p)
      PROVE  [Change(n)!Next]_<<Swap!Settled(n), Swap!Intended(n)>>
  <2>1. n \notin touched /\ Swap!Name(p) # n /\ folder' = folder /\ op' = op /\ phase' = phase
    BY <1>6 DEF Swap!LoseJournal, Swap!Hand
  <2>2. \A q \in Ops : q # p => intent'[q] = intent[q]
    BY <1>6 DEF Swap!LoseJournal, SwapInv, Swap!TypeOK
  <2>3. \A o \in Ops : Swap!Name(o)' = Swap!Name(o) /\ Base(o)' = Base(o)
    BY <2>1 DEF Swap!Name, Base
  <2>4. \A o \in Ops : Swap!Name(o) = n => (Open(o)' <=> Open(o))
    BY <2>1, <2>2 DEF Swap!Name, Open, Swap!InPlace, Swap!Running, Swap!At
  <2> QED BY <1>6, <2>1, <2>2, <2>3, <2>4, Still
<1>7. CASE n \notin touched' /\ UNCHANGED Swap!vars
  <2>1. n \notin touched /\ folder' = folder /\ intent' = intent /\ op' = op /\ phase' = phase
    BY <1>7 DEF Swap!vars, Swap!disk, Swap!hist
  <2>2. \A o \in Ops : Swap!Name(o)' = Swap!Name(o) /\ Base(o)' = Base(o) /\ (Open(o)' <=> Open(o))
    BY <2>1 DEF Swap!Name, Base, Open, Swap!InPlace, Swap!Running, Swap!At
  <2> QED BY <1>7, <2>1, <2>2, Still
<1> QED BY <1>1, <1>2, <1>3, <1>4, <1>5, <1>6, <1>7 DEF Swap!Next, Swap!Recovering

LEMMA SwapInitAbstract ==
  ASSUME Swap!SwapAssumption, NEW n \in Swap!Names
  PROVE  Swap!Init => Change(n)!Init
<1> SUFFICES ASSUME Swap!Init PROVE Change(n)!Init
  OBVIOUS
<1>1. SwapInv
  BY SwapInitial
<1>2. \A o \in Ops : ~Open(o)
  BY DEF Swap!Init, Open, Swap!Running
<1>3. Seen(n) /\ n \notin touched /\ folder[n] = n
  BY <1>1, SeenNow DEF Swap!Init
<1>4. Swap!Settled(n) = n /\ Swap!Intended(n) = None
  BY <1>2, <1>3 DEF Seen
<1> QED BY <1>4 DEF Change!Init, Swap!Folders

\* Replacing the folder of a name is one change: it takes effect as a whole or
\* not at all, over every failure and kill, until somebody else touches it
\* (transfer/commit.go, reinstall.go).
THEOREM ReplacementsAreAtomic ==
  ASSUME Swap!SwapAssumption, NEW n \in Swap!Names
  PROVE  Swap!Spec => Change(n)!Spec
<1>1. Swap!Init => Change(n)!Init
  BY SwapInitAbstract
<1>2. SwapInv /\ SwapInv' /\ [Swap!Next]_(Swap!vars) => [Change(n)!Next]_<<Swap!Settled(n), Swap!Intended(n)>>
  BY SwapRefines
<1> QED BY <1>1, <1>2, SwapInvariance, PTL DEF Swap!Spec, Change!Spec

-----------------------------------------------------------------------------
(***************************************************************************)
(* ArchiveRows.  A map in memory that no change overtook is the one of the *)
(* folders, or an operation that changed one is still to forget it         *)
(* (MapFits, RowsDue).  A scan stores what it found only when no change    *)
(* overtook it, so it needs the last mod of each archive in the folders    *)
(* read so far (ScanFits); and the operations hold the locks of different  *)
(* mods, so that the folder of a merge or an uninstall is there until the  *)
(* operation changes it (ModStays, Locked).                                *)
(***************************************************************************)
(***************************************************************************)
(* The invariant.                                                          *)
(***************************************************************************)
Kinds == Rows!Installs \cup {"uninstall", "rename", "land", "remove", "hide",
                        "hide_installed", "hide_others", "list"}
Steps == {"clear", "publish", "forget", "row", "scan", "push", "end", "solo", "trash", "flags",
          "move", "rebuild", "entry", "drop", "look", "answer", ""}
Work == [kind : Kinds, pc : Steps, locks : SUBSET Mods, mod : Mods \cup {None},
         arch : Archives \cup {None}, solo : SUBSET Archives, entry : Rows!Entry \cup {None},
         todo : SUBSET Mods, out : Rows!Maps, after : Steps, then : Steps, late : BOOLEAN]

RowsTyped ==
    /\ folder \in [Mods -> (SUBSET Archives) \cup {None}] /\ file \in [Archives -> BOOLEAN]
    /\ index \in [Archives -> Rows!Entry \cup {None}]
    /\ cache \in Rows!Maps \cup {None}
    /\ op \in [Users -> {Rows!Idle} \cup Work]
    /\ begun \in 0..MaxOps /\ overtaken \in BOOLEAN

\* What an operation is about, and where its row leads.
RowKinds == Rows!Installs \cup {"uninstall", "land", "hide"}
RowsOpFits(o) ==
    o.kind # "idle" =>
        /\ o.kind \in Rows!Installs => o.mod \in Mods /\ o.then = "end"
        /\ o.kind = "uninstall" => o.mod \in Mods /\ o.then = "flags"
        /\ o.kind = "rename" => /\ o.mod \in o.locks /\ \E n \in o.locks : n # o.mod
                                /\ o.pc \in {"move", "rebuild", "forget"}
        /\ o.kind \in Rows!Installs \cup {"land", "hide", "remove"} => o.arch \in Archives
        /\ o.kind = "land" => o.then = "forget"
        /\ o.kind = "hide" => o.then = "end"
        /\ o.pc \in {"clear", "publish"} => o.kind \in Rows!Installs /\ o.mod \in o.locks
        /\ o.kind = "uninstall" /\ o.pc \in {"solo", "trash"} => o.mod \in o.locks
        /\ o.pc = "end" => o.kind \in Rows!Installs \cup {"hide"}
        /\ o.pc = "scan" => o.after \in {"push", "answer"}
        /\ o.pc \in {"row", "push"} \/ (o.pc = "scan" /\ o.after = "push") =>
              o.kind \in RowKinds /\ o.arch \in Archives

\* A change was made and the map in memory is still to be forgotten for it.
RowsDue(o) ==
    /\ o.kind # "idle"
    /\ \/ o.pc = "forget"
       \/ o.kind \in {"new", "replace"} /\ o.pc = "clear"
       \/ o.kind = "rename" /\ o.pc = "rebuild"
       \/ o.kind = "uninstall" /\ o.pc \notin {"solo", "trash"}

\* The greatest of some mods, or None.
IsLast(m, S) == IF S = {} THEN m = None ELSE m \in S /\ \A k \in S : m >= k

\* A scan no change overtook has the last mod of each archive so far.
ScanFits(o) ==
    o.kind # "idle" /\ o.pc = "scan" /\ ~o.late =>
        /\ o.todo \subseteq Rows!Names
        /\ \A m \in Rows!Names \ o.todo, n \in o.todo : m < n
        /\ \A a \in Archives : IsLast(o.out[a], {m \in Rows!Names \ o.todo : a \in folder[m]})

\* The folder a merge or an uninstall is about stays there until it changes it:
\* the operations hold the locks of different mods.
ModStays(o) ==
    /\ o.kind = "merge" /\ o.pc \in {"clear", "publish"} => o.mod \in Rows!Names
    /\ o.kind = "uninstall" /\ o.pc \in {"solo", "trash"} => o.mod \in Rows!Names
Locked == \A u, v \in Users : u # v /\ Rows!Busy(u) /\ Rows!Busy(v) => op[u].locks \cap op[v].locks = {}

MapFits == cache # None /\ ~overtaken => cache = Rows!Installed(folder) \/ \E u \in Users : RowsDue(op[u])

RowsInv ==
    /\ RowsTyped
    /\ \A u \in Users : RowsOpFits(op[u]) /\ ScanFits(op[u]) /\ ModStays(op[u])
    /\ Locked /\ MapFits

(***************************************************************************)
(* The map of a scan that is over is that of the folders.                  *)
(***************************************************************************)
LEMMA LastIsMax ==
  ASSUME NEW S \in SUBSET Nat, NEW m, IsLast(m, S), S # {}
  PROVE  Rows!Max(S) = m
<1>1. m \in S /\ \A k \in S : m >= k
  BY DEF IsLast
<1>2. Rows!Max(S) \in S /\ \A k \in S : Rows!Max(S) >= k
  BY <1>1 DEF Rows!Max
<1>3. \A k, l \in S : k >= l /\ l >= k => k = l
  OBVIOUS
<1> QED BY <1>1, <1>2, <1>3

LEMMA ScanIsMap ==
  ASSUME Rows!RowsAssumption, RowsTyped, NEW out \in Rows!Maps,
         \A a \in Archives : IsLast(out[a], {m \in Rows!Names : a \in folder[m]})
  PROVE  out = Rows!Installed(folder)
<1> SUFFICES ASSUME NEW a \in Archives PROVE out[a] = Rows!Installed(folder)[a]
  BY DEF Rows!Maps, Rows!Installed
<1> DEFINE by == {m \in Mods : folder[m] # None /\ a \in folder[m]}
<1>1. by = {m \in Rows!Names : a \in folder[m]} /\ by \subseteq Nat
  BY DEF Rows!Names, Rows!RowsAssumption
<1>2. Rows!Installed(folder)[a] = IF by = {} THEN None ELSE Rows!Max(by)
  BY DEF Rows!Installed
<1>3. IsLast(out[a], by)
  BY <1>1
<1> HIDE DEF by
<1>4. CASE by = {}
  BY <1>2, <1>3, <1>4 DEF IsLast
<1>5. CASE by # {}
  BY <1>1, <1>2, <1>3, <1>5, LastIsMax
<1> QED BY <1>4, <1>5

(***************************************************************************)
(* A step is one of an operation that leaves folders and map alone, one    *)
(* that changes a folder, or one that stores or forgets the map.           *)
(***************************************************************************)
Others == UNCHANGED <<folder, cache, overtaken>>
OpTyped(o) == o \in {Rows!Idle} \cup Work

\* The other operations hold none of its locks.
Apart(u, o) == o.kind # "idle" => \A v \in Users \ {u} : Rows!Busy(v) => o.locks \cap op[v].locks = {}

LEMMA StaysApart ==
  ASSUME RowsInv, NEW u \in Users, Rows!Busy(u), NEW o, o.locks \subseteq op[u].locks
  PROVE  Apart(u, o)
BY DEF RowsInv, Locked, Apart

LEMMA KeepsLocked ==
  ASSUME RowsInv, NEW u \in Users, NEW o, Apart(u, o),
         op'[u].kind # "idle" => o.kind # "idle" /\ op'[u].locks = o.locks,
         \A v \in Users \ {u} : op'[v].kind # "idle" => Rows!Busy(v) /\ op'[v].locks = op[v].locks
  PROVE  Locked'
BY DEF RowsInv, Locked, Apart, Rows!Busy

LEMMA PlainStep ==
  ASSUME RowsInv, NEW u \in Users, NEW o, OpTyped(o), RowsOpFits(o), ScanFits(o), ModStays(o), Apart(u, o),
         RowsDue(op[u]) => RowsDue(o), op' = [op EXCEPT ![u] = o], Others,
         file' \in [Archives -> BOOLEAN], index' \in [Archives -> Rows!Entry \cup {None}], begun' \in 0..MaxOps
  PROVE  RowsInv'
<1>1. RowsTyped'
  BY DEF RowsInv, RowsTyped, Others, OpTyped
<1>2. \A v \in Users : op'[v] = IF v = u THEN o ELSE op[v]
  BY DEF RowsInv, RowsTyped
<1>3. \A x : RowsOpFits(x) => RowsOpFits(x)'
  BY DEF RowsOpFits
<1>4. \A x : ScanFits(x)' <=> ScanFits(x)
  BY DEF ScanFits, Others, Rows!Names
<1>5. \A v \in Users : RowsOpFits(op'[v]) /\ ScanFits(op'[v]) /\ ModStays(op'[v])
  BY <1>2 DEF RowsInv
<1>6. (\A v \in Users : RowsOpFits(op[v]) /\ ScanFits(op[v]) /\ ModStays(op[v]))'
  <2>1. \A x : ModStays(x)' <=> ModStays(x)
    BY DEF ModStays, Others, Rows!Names
  <2> QED BY <1>3, <1>4, <1>5, <2>1
<1>9. Locked'
  BY <1>2, KeepsLocked DEF Rows!Busy
<1>7. \A v \in Users : RowsDue(op[v]) => RowsDue(op'[v])
  BY <1>2
<1>8. MapFits'
  BY <1>7 DEF RowsInv, MapFits, Others, Rows!Installed
<1> QED BY <1>1, <1>6, <1>8, <1>9 DEF RowsInv

LEMMA ChangeStep ==
  ASSUME RowsInv, NEW u \in Users, Rows!Busy(u), NEW o, OpTyped(o), RowsOpFits(o),
         o.kind = "idle" \/ o.pc \notin {"scan", "publish", "solo", "trash"},
         o.kind = "merge" => o.pc # "clear", o.kind = "idle" \/ o.locks \subseteq op[u].locks,
         NEW now \in [Mods -> (SUBSET Archives) \cup {None}],
         \A m \in Mods \ op[u].locks : now[m] = folder[m],
         Rows!Change(u, now, o), UNCHANGED <<file, index, cache, begun>>,
         \/ RowsDue(o) /\ UNCHANGED overtaken
         \/ Rows!Unnoticed(now)
  PROVE  RowsInv'
<1>1. \A v \in Users : op'[v] = IF v = u THEN o
                                ELSE IF Rows!Scanning(op, v) THEN [op[v] EXCEPT !.late = TRUE] ELSE op[v]
  BY DEF Rows!Change, Rows!Overtake, Rows!Scanning, RowsInv, RowsTyped
<1>2. op' \in [Users -> {Rows!Idle} \cup Work]
  <2>1. \A x \in Work : [x EXCEPT !.late = TRUE] \in Work
    BY DEF Work
  <2>2. \A v \in Users : Rows!Scanning(op, v) => op[v] \in Work
    BY DEF Rows!Scanning, RowsInv, RowsTyped, Rows!Idle
  <2>3. \A v \in Users : op'[v] \in {Rows!Idle} \cup Work
    BY <1>1, <2>1, <2>2 DEF RowsInv, RowsTyped, OpTyped
  <2>4. op' = [v \in Users |-> op'[v]]
    BY DEF Rows!Change, Rows!Overtake
  <2> QED BY <2>3, <2>4
<1>3. RowsTyped'
  BY <1>2 DEF RowsInv, RowsTyped, Rows!Change, Rows!Unnoticed
<1>4. \A x \in Work : LET y == [x EXCEPT !.late = TRUE]
                    IN  /\ y.kind = x.kind /\ y.mod = x.mod /\ y.arch = x.arch /\ y.then = x.then
                        /\ y.locks = x.locks /\ y.pc = x.pc /\ y.after = x.after /\ y.late
  BY DEF Work
<1>5. ASSUME NEW v \in Users PROVE (RowsOpFits(op[v]) /\ ScanFits(op[v]))'
  <2>1. CASE v = u
    BY <1>1, <2>1 DEF RowsOpFits, ScanFits
  <2>2. CASE v # u /\ Rows!Scanning(op, v)
    <3>1. op[v] \in Work
      BY <2>2 DEF Rows!Scanning, RowsInv, RowsTyped, Rows!Idle
    <3>2. RowsOpFits(op[v])
      BY DEF RowsInv
    <3>3. op'[v] = [op[v] EXCEPT !.late = TRUE]
      BY <1>1, <2>2
    <3>4. RowsOpFits(op[v])'
      BY <1>4, <3>1, <3>2, <3>3 DEF RowsOpFits
    <3>5. op'[v].late
      BY <1>4, <3>1, <3>3
    <3> QED BY <3>4, <3>5 DEF ScanFits
  <2>3. CASE v # u /\ ~Rows!Scanning(op, v)
    <3>1. op'[v] = op[v] /\ RowsOpFits(op[v])
      BY <1>1, <2>3 DEF RowsInv
    <3> QED BY <2>3, <3>1 DEF RowsOpFits, ScanFits, Rows!Scanning
  <2> QED BY <2>1, <2>2, <2>3
<1>6. MapFits'
  <2>1. CASE RowsDue(o) /\ UNCHANGED overtaken
    <3>1. RowsDue(op'[u])
      BY <1>1, <2>1
    <3> QED BY <3>1 DEF MapFits, RowsDue
  <2>2. CASE Rows!Unnoticed(now)
    BY <2>2 DEF MapFits, Rows!Unnoticed, Rows!Change, RowsInv, RowsTyped
  <2> QED BY <2>1, <2>2
<1>7. ASSUME NEW v \in Users PROVE ModStays(op[v])'
  <2>1. CASE v = u
    BY <1>1, <2>1 DEF ModStays
  <2>2. CASE v # u
    <3> SUFFICES ASSUME \/ op'[v].kind = "merge" /\ op'[v].pc \in {"clear", "publish"}
                        \/ op'[v].kind = "uninstall" /\ op'[v].pc \in {"solo", "trash"}
                 PROVE  op'[v].mod \in Rows!Names'
      BY DEF ModStays
    <3>1. op'[v] = op[v]
      <4>1. CASE Rows!Scanning(op, v)
        <5>1. op[v] \in Work /\ op'[v] = [op[v] EXCEPT !.late = TRUE] /\ op[v].pc = "scan"
          BY <1>1, <2>2, <4>1 DEF RowsInv, RowsTyped, Rows!Scanning, Rows!Idle
        <5> QED BY <1>4, <5>1
      <4> QED BY <1>1, <2>2, <4>1
    <3>2. op[v].mod \in op[v].locks /\ op[v].mod \in Rows!Names /\ Rows!Busy(v)
      <4>1. RowsOpFits(op[v]) /\ ModStays(op[v]) /\ op[v].kind # "idle"
        BY <3>1 DEF RowsInv
      <4>2. \/ op[v].kind = "merge" /\ op[v].pc \in {"clear", "publish"}
            \/ op[v].kind = "uninstall" /\ op[v].pc \in {"solo", "trash"}
        BY <3>1
      <4>3. op[v].mod \in op[v].locks
        BY <4>1, <4>2 DEF RowsOpFits
      <4>4. op[v].mod \in Rows!Names
        BY <4>1, <4>2 DEF ModStays
      <4> QED BY <4>1, <4>3, <4>4 DEF Rows!Busy
    <3>3. op[v].mod \notin op[u].locks
      BY <2>2, <3>2 DEF RowsInv, Locked
    <3> QED BY <3>1, <3>2, <3>3 DEF Rows!Names, Rows!Change
  <2> QED BY <2>1, <2>2
<1>8. Locked'
  <2>1. Apart(u, o)
    BY StaysApart DEF Apart
  <2>2. ASSUME NEW v \in Users \ {u}, op'[v].kind # "idle" PROVE Rows!Busy(v) /\ op'[v].locks = op[v].locks
    <3>1. CASE Rows!Scanning(op, v)
      <4>1. op[v] \in Work /\ op'[v] = [op[v] EXCEPT !.late = TRUE]
        BY <1>1, <3>1 DEF RowsInv, RowsTyped, Rows!Scanning, Rows!Idle
      <4> QED BY <1>4, <3>1, <4>1 DEF Rows!Scanning, Rows!Busy
    <3>2. CASE ~Rows!Scanning(op, v)
      BY <1>1, <2>2, <3>2 DEF Rows!Busy
    <3> QED BY <3>1, <3>2
  <2>3. op'[u] = o
    BY <1>1
  <2> QED BY <2>1, <2>2, <2>3, KeepsLocked
<1> QED BY <1>3, <1>5, <1>6, <1>7, <1>8 DEF RowsInv

\* One operation goes on and no folder changes.
LEMMA OneMoves ==
  ASSUME RowsInv, NEW u \in Users, NEW o, ModStays(o), o.kind = "idle" \/ (Rows!Busy(u) /\ o.locks \subseteq op[u].locks),
         op' = [op EXCEPT ![u] = o], folder' = folder
  PROVE  Locked' /\ \A v \in Users : ModStays(op[v])'
<1>1. \A v \in Users : op'[v] = IF v = u THEN o ELSE op[v]
  BY DEF RowsInv, RowsTyped
<1>2. Apart(u, o)
  BY StaysApart DEF Apart
<1>3. Locked'
  BY <1>1, <1>2, KeepsLocked DEF Rows!Busy
<1>4. \A x : ModStays(x) => ModStays(x)'
  BY DEF ModStays, Rows!Names
<1> QED BY <1>1, <1>3, <1>4 DEF RowsInv

\* Files, the index and the count keep their types.
RestTyped == file' \in [Archives -> BOOLEAN] /\ index' \in [Archives -> Rows!Entry \cup {None}] /\ begun' \in 0..MaxOps

LEMMA Resting == ASSUME RowsInv, UNCHANGED <<file, index, begun>> PROVE RestTyped
BY DEF RowsInv, RowsTyped, RestTyped

LEMMA IsWork == ASSUME RowsInv, NEW u \in Users, Rows!Busy(u) PROVE op[u] \in Work
BY DEF RowsInv, RowsTyped, Rows!Busy, Rows!Idle

LEMMA EndStep ==
  ASSUME RowsInv, NEW u \in Users, ~RowsDue(op[u]), Rows!Done(u), Others, RestTyped
  PROVE  RowsInv'
<1>1. OpTyped(Rows!Idle) /\ RowsOpFits(Rows!Idle) /\ ScanFits(Rows!Idle) /\ ModStays(Rows!Idle) /\ Apart(u, Rows!Idle)
  BY DEF OpTyped, RowsOpFits, ScanFits, ModStays, Apart, Rows!Idle
<1> QED BY <1>1, PlainStep DEF Rows!Done, RestTyped

LEMMA GoStep ==
  ASSUME RowsInv, NEW u \in Users, Rows!Busy(u), NEW pc \in {"publish", "forget", "flags", "end"}, Rows!Go(u, pc),
         Others, RestTyped,
         op[u].kind = "rename" => pc = "forget",
         pc = "publish" => op[u].kind = "merge" /\ op[u].pc = "clear",
         pc = "end" => op[u].kind \in Rows!Installs \cup {"hide"},
         RowsDue(op[u]) => pc = "forget" \/ op[u].kind = "uninstall"
  PROVE  RowsInv'
<1> DEFINE o == [op[u] EXCEPT !.pc = pc]
<1>1. op[u] \in Work /\ RowsOpFits(op[u])
  BY IsWork DEF RowsInv
<1>2. /\ o \in Work /\ o.kind = op[u].kind /\ o.mod = op[u].mod /\ o.arch = op[u].arch
      /\ o.then = op[u].then /\ o.locks = op[u].locks /\ o.pc = pc
  BY ZenonT(40), <1>1 DEF Work, Steps
<1>3. op' = [op EXCEPT ![u] = o]
  BY DEF Rows!Go
<1> HIDE DEF o
<1>4. RowsOpFits(o)
  BY <1>1, <1>2 DEF RowsOpFits, Rows!Busy
<1>5. ScanFits(o)
  BY <1>2 DEF ScanFits
<1>6. RowsDue(op[u]) => RowsDue(o)
  BY <1>2 DEF RowsDue
<1>7. ModStays(o) /\ Apart(u, o)
  BY <1>2, StaysApart DEF ModStays, RowsInv
<1> QED BY <1>2, <1>3, <1>4, <1>5, <1>6, <1>7, PlainStep DEF OpTyped, RestTyped

(***************************************************************************)
(* The scan, and the map it makes.                                         *)
(***************************************************************************)
LEMMA ReadKeeps == ASSUME Rows!RowsAssumption, RowsInv, NEW u \in Users, Rows!ReadMod(u) PROVE RowsInv'
<1> PICK m \in op[u].todo :
      /\ \A n \in op[u].todo : m <= n
      /\ op' = [op EXCEPT ![u].todo = @ \ {m},
                          ![u].out = [a \in Archives |->
                              IF a \in (IF folder[m] = None THEN {} ELSE folder[m]) THEN m ELSE @[a]]]
  BY DEF Rows!ReadMod
<1> DEFINE found == IF folder[m] = None THEN {} ELSE folder[m]
           out == [a \in Archives |-> IF a \in found THEN m ELSE op[u].out[a]]
           o == [op[u] EXCEPT !.todo = @ \ {m}, !.out = out]
<1>1. op[u] \in Work /\ RowsOpFits(op[u]) /\ ScanFits(op[u]) /\ op[u].pc = "scan" /\ op[u].kind # "idle"
  BY IsWork DEF RowsInv, Rows!ReadMod, Rows!Scanning, Rows!Busy
<1>2. m \in Mods /\ op[u].out \in Rows!Maps /\ op[u].todo \subseteq Mods /\ Mods \subseteq Nat
  BY <1>1 DEF Work, Rows!RowsAssumption
<1>3. out \in Rows!Maps
  BY <1>2 DEF Rows!Maps
<1>4. /\ o \in Work /\ o.kind = op[u].kind /\ o.mod = op[u].mod /\ o.arch = op[u].arch
      /\ o.then = op[u].then /\ o.locks = op[u].locks /\ o.pc = op[u].pc /\ o.after = op[u].after
      /\ o.late = op[u].late /\ o.out = out /\ o.todo = op[u].todo \ {m}
  <2> HIDE DEF out
  <2> QED BY <1>1, <1>2, <1>3 DEF Work
<1>5. op' = [op EXCEPT ![u] = o]
  <2> HIDE DEF found
  <2>1. op \in [Users -> {Rows!Idle} \cup Work]
    BY DEF RowsInv, RowsTyped
  <2> QED BY <2>1 DEF found
<1> HIDE DEF o, out
<1>6. RowsOpFits(o)
  BY <1>1, <1>4 DEF RowsOpFits
<1>7. ScanFits(o)
  <2> SUFFICES ASSUME ~o.late
               PROVE  /\ o.todo \subseteq Rows!Names
                      /\ \A k \in Rows!Names \ o.todo, n \in o.todo : k < n
                      /\ \A a \in Archives : IsLast(o.out[a], {k \in Rows!Names \ o.todo : a \in folder[k]})
    BY DEF ScanFits
  <2>1. /\ op[u].todo \subseteq Rows!Names
        /\ \A k \in Rows!Names \ op[u].todo, n \in op[u].todo : k < n
        /\ \A a \in Archives : IsLast(op[u].out[a], {k \in Rows!Names \ op[u].todo : a \in folder[k]})
    BY <1>1, <1>4 DEF ScanFits
  <2>2. m \in Rows!Names /\ Rows!Names \ o.todo = (Rows!Names \ op[u].todo) \cup {m} /\ Rows!Names \subseteq Nat
    BY <1>2, <1>4, <2>1 DEF Rows!Names
  <2>3. \A k \in Rows!Names \ op[u].todo : k < m
    BY <2>1
  <2>4. \A n \in o.todo : m < n
    BY <1>2, <1>4
  <2>5. \A k \in Rows!Names \ o.todo, n \in o.todo : k < n
    BY <1>4, <2>1, <2>2, <2>4
  <2>6. ASSUME NEW a \in Archives PROVE IsLast(o.out[a], {k \in Rows!Names \ o.todo : a \in folder[k]})
    <3> DEFINE S == {k \in Rows!Names \ op[u].todo : a \in folder[k]}
               T == {k \in Rows!Names \ o.todo : a \in folder[k]}
    <3>1. IsLast(op[u].out[a], S)
      BY <2>1
    <3>2. folder[m] # None /\ found = folder[m]
      BY <2>2 DEF Rows!Names
    <3>3. CASE a \in found
      <4>1. T = S \cup {m} /\ o.out[a] = m
        BY <1>4, <2>2, <3>2, <3>3 DEF out
      <4>2. \A k \in T : m >= k
        BY <2>2, <2>3, <4>1
      <4> QED BY <4>1, <4>2 DEF IsLast
    <3>4. CASE a \notin found
      <4>1. T = S /\ o.out[a] = op[u].out[a]
        BY <1>4, <2>2, <3>2, <3>4 DEF out
      <4> QED BY <3>1, <4>1
    <3> QED BY <3>3, <3>4
  <2> QED BY <1>4, <2>1, <2>5, <2>6
<1>8. RowsDue(op[u]) => RowsDue(o)
  BY <1>4 DEF RowsDue
<1>9. ModStays(o) /\ Apart(u, o)
  BY <1>1, <1>4, StaysApart DEF ModStays, Rows!Busy
<1> QED BY <1>4, <1>5, <1>6, <1>7, <1>8, <1>9, Resting, PlainStep DEF Rows!ReadMod, Others, OpTyped,
   RestTyped

LEMMA StoreKeeps == ASSUME Rows!RowsAssumption, RowsInv, NEW u \in Users, Rows!Store(u) PROVE RowsInv'
<1> DEFINE o == [op[u] EXCEPT !.pc = op[u].after]
<1>1. op[u] \in Work /\ RowsOpFits(op[u]) /\ ScanFits(op[u]) /\ op[u].pc = "scan" /\ op[u].kind # "idle"
  BY IsWork DEF RowsInv, Rows!Store, Rows!Scanning, Rows!Busy
<1>2. /\ o \in Work /\ o.kind = op[u].kind /\ o.mod = op[u].mod /\ o.arch = op[u].arch
      /\ o.then = op[u].then /\ o.locks = op[u].locks /\ o.pc = op[u].after
  BY <1>1 DEF Work
<1>3. op' = [op EXCEPT ![u] = o] /\ cache' = op[u].out /\ overtaken' = op[u].late
      /\ UNCHANGED <<folder, file, index, pushed, begun>> /\ op[u].todo = {}
  BY DEF Rows!Store, Rows!Go
<1>4. o.pc \in {"push", "answer"} /\ op[u].out \in Rows!Maps /\ op[u].late \in BOOLEAN
  BY <1>1, <1>2 DEF RowsOpFits, Work
<1> HIDE DEF o
<1>5. RowsOpFits(o)
  BY <1>1, <1>2, <1>4 DEF RowsOpFits
<1>6. RowsTyped'
  BY <1>2, <1>3, <1>4 DEF RowsInv, RowsTyped
<1>7. ASSUME NEW v \in Users PROVE (RowsOpFits(op[v]) /\ ScanFits(op[v]))'
  <2>1. op'[v] = IF v = u THEN o ELSE op[v]
    BY <1>3 DEF RowsInv, RowsTyped
  <2>2. RowsOpFits(op[v]) /\ ScanFits(op[v])
    BY DEF RowsInv
  <2> QED BY <1>3, <1>4, <1>5, <2>1, <2>2 DEF RowsOpFits, ScanFits, Rows!Names
<1>8. ~op[u].late => op[u].out = Rows!Installed(folder)
  <2> SUFFICES ASSUME ~op[u].late PROVE op[u].out = Rows!Installed(folder)
    OBVIOUS
  <2>1. \A a \in Archives : IsLast(op[u].out[a], {m \in Rows!Names \ {} : a \in folder[m]})
    BY <1>1, <1>3 DEF ScanFits
  <2>2. Rows!Names \ {} = Rows!Names
    OBVIOUS
  <2>3. \A a \in Archives : IsLast(op[u].out[a], {m \in Rows!Names : a \in folder[m]})
    BY <2>1, <2>2
  <2> QED BY <1>4, <2>3, ScanIsMap DEF RowsInv
<1>9. MapFits'
  BY <1>3, <1>8 DEF MapFits, Rows!Installed
<1>10. Locked' /\ \A v \in Users : ModStays(op[v])'
  BY <1>1, <1>2, <1>3, <1>4, OneMoves DEF ModStays, Rows!Busy
<1> QED BY <1>6, <1>7, <1>9, <1>10 DEF RowsInv

\* A map that is forgotten is owed nothing.
LEMMA NoMap ==
  ASSUME RowsInv, NEW u \in Users, NEW o, OpTyped(o), RowsOpFits(o), ScanFits(o), ModStays(o),
         o.kind = "idle" \/ (Rows!Busy(u) /\ o.locks \subseteq op[u].locks),
         op' = [op EXCEPT ![u] = o], UNCHANGED <<folder, file, begun>>,
         index' \in [Archives -> Rows!Entry \cup {None}], Rows!invalidateInstalledArchiveCache
  PROVE  RowsInv'
<1>1. RowsTyped'
  BY DEF RowsInv, RowsTyped, OpTyped, Rows!invalidateInstalledArchiveCache
<1>2. ASSUME NEW v \in Users PROVE (RowsOpFits(op[v]) /\ ScanFits(op[v]))'
  <2>1. op'[v] = IF v = u THEN o ELSE op[v]
    BY DEF RowsInv, RowsTyped
  <2>2. RowsOpFits(op[v]) /\ ScanFits(op[v])
    BY DEF RowsInv
  <2>3. \A x : (RowsOpFits(x) => RowsOpFits(x)') /\ (ScanFits(x) => ScanFits(x)')
    BY DEF RowsOpFits, ScanFits, Rows!Names
  <2> QED BY <2>1, <2>2, <2>3
<1>3. MapFits'
  BY DEF MapFits, Rows!invalidateInstalledArchiveCache
<1> QED BY <1>1, <1>2, <1>3, OneMoves DEF RowsInv

LEMMA ForgetKeeps == ASSUME RowsInv, NEW u \in Users, Rows!Forget(u) PROVE RowsInv'
<1>1. UNCHANGED <<folder, file, begun>> /\ index' \in [Archives -> Rows!Entry \cup {None}]
  BY DEF Rows!Forget, RowsInv, RowsTyped
<1>2. CASE Rows!Done(u)
  <2>1. OpTyped(Rows!Idle) /\ RowsOpFits(Rows!Idle) /\ ScanFits(Rows!Idle) /\ ModStays(Rows!Idle) /\ Rows!Idle.kind = "idle"
    BY DEF OpTyped, RowsOpFits, ScanFits, ModStays, Rows!Idle
  <2>2. op' = [op EXCEPT ![u] = Rows!Idle] /\ Rows!invalidateInstalledArchiveCache
    BY <1>2 DEF Rows!Done, Rows!Forget
  <2> HIDE DEF Rows!invalidateInstalledArchiveCache
  <2> QED BY <1>1, <2>1, <2>2, NoMap
<1>3. CASE op[u].kind \in Rows!Installs /\ Rows!Go(u, "row")
  <2> DEFINE o == [op[u] EXCEPT !.pc = "row"]
  <2>1. op[u] \in Work /\ RowsOpFits(op[u])
    BY IsWork DEF RowsInv, Rows!Forget
  <2>2. /\ o \in Work /\ o.kind = op[u].kind /\ o.mod = op[u].mod /\ o.arch = op[u].arch
        /\ o.then = op[u].then /\ o.locks = op[u].locks /\ o.pc = "row"
    BY <2>1 DEF Work, Steps
  <2>3. op' = [op EXCEPT ![u] = o]
    BY <1>3 DEF Rows!Go
  <2> HIDE DEF o
  <2>4. RowsOpFits(o) /\ ScanFits(o) /\ ModStays(o) /\ o.locks \subseteq op[u].locks /\ Rows!Busy(u)
    BY <1>3, <2>1, <2>2 DEF RowsOpFits, ScanFits, ModStays, Rows!Installs, RowKinds, Rows!Forget
  <2> QED BY <1>1, <2>2, <2>3, <2>4, NoMap DEF OpTyped, Rows!Forget
<1> QED BY <1>2, <1>3 DEF Rows!Forget

\* Looking the map up begins a scan that has read nothing, or ends it at once.
LEMMA LookFits ==
  ASSUME Rows!RowsAssumption, RowsInv, NEW u \in Users, Rows!Busy(u), NEW e \in Rows!Entry \cup {None}, NEW after \in {"push", "answer"},
         op[u].pc # "forget", op[u].kind # "rename",
         after = "push" => op[u].kind \in RowKinds /\ op[u].arch \in Archives,
         op[u].kind \in {"new", "replace"} => op[u].pc # "clear",
         op[u].kind = "uninstall" => op[u].pc \notin {"solo", "trash"},
         NEW base, base \in {op, [op EXCEPT ![u].entry = e]},
         op' = Rows!Look(base, u, after), Others, RestTyped
  PROVE  RowsInv'
<1> DEFINE o == op'[u]
<1>1. op[u] \in Work /\ RowsOpFits(op[u]) /\ op \in [Users -> {Rows!Idle} \cup Work]
  BY IsWork DEF RowsInv, RowsTyped
<1>2. base[u] \in Work /\ base \in [Users -> {Rows!Idle} \cup Work] /\ base[u].kind = op[u].kind
      /\ base[u].mod = op[u].mod /\ base[u].arch = op[u].arch /\ base[u].then = op[u].then
      /\ base[u].locks = op[u].locks /\ \A v \in Users \ {u} : base[v] = op[v]
  BY <1>1 DEF Work
<1>3. Rows!Nothing \in Rows!Maps /\ Rows!Names \subseteq Mods
  BY DEF Rows!Nothing, Rows!Maps, Rows!Names
<1>4. /\ o = [base[u] EXCEPT !.pc = IF cache = None THEN "scan" ELSE after,
                             !.out = IF cache = None THEN Rows!Nothing ELSE cache,
                             !.late = FALSE, !.after = after,
                             !.todo = IF cache = None THEN Rows!Names ELSE {}]
      /\ op' = [op EXCEPT ![u] = o]
  BY <1>1, <1>2 DEF Rows!Look
<1> HIDE DEF o
<1>5. /\ o \in Work /\ o.kind = op[u].kind /\ o.mod = op[u].mod /\ o.arch = op[u].arch
      /\ o.then = op[u].then /\ o.locks = op[u].locks /\ o.after = after
      /\ o.pc = (IF cache = None THEN "scan" ELSE after)
      /\ cache = None => o.out = Rows!Nothing /\ o.todo = Rows!Names
  BY ZenonT(40), <1>2, <1>3, <1>4 DEF Work, Steps, RowsInv, RowsTyped
<1>6. RowsOpFits(o)
  BY <1>1, <1>5 DEF RowsOpFits, Rows!Busy
<1>7. ScanFits(o)
  <2> SUFFICES ASSUME cache = None, NEW a \in Archives
               PROVE  IsLast(Rows!Nothing[a], {m \in Rows!Names \ Rows!Names : a \in folder[m]})
    BY <1>5 DEF ScanFits
  <2> QED BY DEF IsLast, Rows!Nothing
<1>8. RowsDue(op[u]) => RowsDue(o)
  BY <1>5 DEF RowsDue
<1>9. ModStays(o) /\ Apart(u, o)
  BY <1>5, StaysApart DEF ModStays
<1> QED BY <1>4, <1>5, <1>6, <1>7, <1>8, <1>9, PlainStep DEF OpTyped, RestTyped

LEMMA RowsKeep ==
  ASSUME Rows!RowsAssumption, RowsInv, NEW u \in Users, Rows!Rows(u)
  PROVE  RowsInv'
<1>0. Rows!Busy(u) => op[u] \in Work /\ RowsOpFits(op[u]) /\ op[u].kind # "idle"
  BY IsWork DEF RowsInv, Rows!Busy
<1>1. CASE Rows!StartRow(u)
  <2>1. Rows!Busy(u) /\ op[u].pc = "row" /\ RestTyped /\ Others
    BY <1>1, Resting DEF Rows!StartRow, Others
  <2>2. /\ op[u].kind \in RowKinds /\ op[u].arch \in Archives /\ op[u].kind # "rename"
        /\ op[u].then \in {"end", "flags", "forget"}
        /\ op[u].kind = "uninstall" => op[u].then = "flags"
        /\ op[u].then = "end" => op[u].kind \in Rows!Installs \cup {"hide"}
    BY <1>0, <2>1 DEF RowsOpFits, RowKinds, Rows!Installs
  <2>3. CASE index[op[u].arch] = None
    <3>1. Rows!Go(u, op[u].then)
      BY <1>1, <2>3 DEF Rows!StartRow, Rows!Go
    <3>2. RowsDue(op[u]) => op[u].then = "forget" \/ op[u].kind = "uninstall"
      BY <2>1, <2>2 DEF RowsDue
    <3>3. op[u].then # "publish"
      BY <2>2
    <3> QED BY <2>1, <2>2, <3>1, <3>2, <3>3, GoStep
  <2>4. CASE index[op[u].arch] # None
    <3>1. op' = Rows!Look([op EXCEPT ![u].entry = index[op[u].arch]], u, "push")
      BY <1>1, <2>4 DEF Rows!StartRow
    <3>2. index[op[u].arch] \in Rows!Entry
      BY <2>2, <2>4 DEF RowsInv, RowsTyped
    <3> QED BY <2>1, <2>2, <3>1, <3>2, LookFits
  <2> QED BY <2>3, <2>4
<1>2. CASE Rows!Push(u)
  <2>1. Rows!Busy(u) /\ op[u].pc = "push" /\ RestTyped /\ Others /\ Rows!Go(u, op[u].then)
    BY <1>2, Resting DEF Rows!Push, Others
  <2>2. /\ op[u].then \in {"end", "flags", "forget"} /\ op[u].kind # "rename"
        /\ op[u].kind = "uninstall" => op[u].then = "flags"
        /\ op[u].then = "end" => op[u].kind \in Rows!Installs \cup {"hide"}
    BY <1>0, <2>1 DEF RowsOpFits, RowKinds, Rows!Installs
  <2>3. RowsDue(op[u]) => op[u].then = "forget" \/ op[u].kind = "uninstall"
    BY <2>1, <2>2 DEF RowsDue
  <2>4. op[u].then # "publish"
    BY <2>2
  <2> QED BY <2>1, <2>2, <2>3, <2>4, GoStep
<1>3. CASE Rows!End(u)
  <2>1. ~RowsDue(op[u])
    <3>1. op[u].kind \notin {"uninstall", "rename"} /\ op[u].pc = "end"
      BY <1>0, <1>3 DEF Rows!End, RowsOpFits, Rows!Installs
    <3> QED BY <3>1 DEF RowsDue
  <2> QED BY <1>3, <2>1, Resting, EndStep DEF Rows!End, Others
<1> QED BY <1>1, <1>2, <1>3, ReadKeeps, StoreKeeps, ForgetKeeps DEF Rows!Rows

(***************************************************************************)
(* Requests.                                                               *)
(***************************************************************************)
LEMMA OneMore == ASSUME NEW N \in Nat, NEW n \in 0..N, n < N PROVE n + 1 \in 0..N
OBVIOUS

LEMMA BeginStep ==
  ASSUME Rows!RowsAssumption, RowsInv, NEW u \in Users, NEW kind \in Kinds, NEW locks \in SUBSET Mods,
         NEW m \in Mods \cup {None}, NEW a \in Archives \cup {None}, NEW pc \in Steps \ {"scan", "push"}, NEW then \in Steps,
         Rows!Begin(u, kind, locks, m, a, pc, then), Others,
         file' \in [Archives -> BOOLEAN], index' \in [Archives -> Rows!Entry \cup {None}],
         LET o == [kind |-> kind, pc |-> pc, locks |-> locks, mod |-> m, arch |-> a, solo |-> {}, entry |-> None,
                   todo |-> {}, out |-> Rows!Nothing, after |-> "", then |-> then, late |-> FALSE]
         IN  RowsOpFits(o) /\ ModStays(o)
  PROVE  RowsInv'
<1> DEFINE o == [kind |-> kind, pc |-> pc, locks |-> locks, mod |-> m, arch |-> a, solo |-> {},
   entry |-> None,
                 todo |-> {}, out |-> Rows!Nothing, after |-> "", then |-> then, late |-> FALSE]
<1>1. /\ RowsOpFits(o) /\ ModStays(o) /\ o.pc = pc /\ o.locks = locks
      /\ op' = [op EXCEPT ![u] = o]
  BY DEF Rows!Begin
<1>2. o \in Work
  <2>1. Rows!Nothing \in Rows!Maps /\ "" \in Steps /\ pc \in Steps
    BY DEF Rows!Nothing, Rows!Maps, Steps
  <2> HIDE DEF Rows!Nothing, Rows!Maps, Steps
  <2> QED BY <2>1 DEF Work
<1> HIDE DEF o
<1>3. ScanFits(o)
  BY <1>1 DEF ScanFits
<1>4. Apart(u, o)
  BY <1>1 DEF Rows!Begin, Rows!Free, Apart
<1>5. ~RowsDue(op[u])
  BY DEF Rows!Begin, Rows!Busy, RowsDue
<1>6. begun' \in 0..MaxOps
  <2>1. begun' = begun + 1 /\ begun < MaxOps
    BY DEF Rows!Begin
  <2>2. begun \in 0..MaxOps /\ MaxOps \in Nat
    BY DEF RowsInv, RowsTyped, Rows!RowsAssumption
  <2> QED BY <2>1, <2>2, OneMore
<1> QED BY <1>1, <1>2, <1>3, <1>4, <1>5, <1>6, PlainStep DEF OpTyped

LEMMA RequestsKeep ==
  ASSUME Rows!RowsAssumption, RowsInv, NEW u \in Users, Rows!Requests(u)
  PROVE  RowsInv'
<1>1. ASSUME NEW m \in Mods, NEW a \in Archives, Rows!Install(u, m, a) PROVE RowsInv'
  <2> PICK kind \in Rows!Installs :
        /\ kind = "new" \/ folder[m] # None
        /\ Rows!Begin(u, kind, {m}, m, a, IF kind = "merge" THEN "clear" ELSE "publish", "end")
        /\ UNCHANGED <<folder, file, index, cache, pushed, overtaken>>
    BY <1>1 DEF Rows!Install
  <2> DEFINE pc == IF kind = "merge" THEN "clear" ELSE "publish"
  <2>1. pc \in Steps \ {"scan", "push"} /\ "end" \in Steps /\ kind \in Kinds /\ Rows!Begin(u, kind, {m}, m, a, pc, "end")
    BY DEF Steps, Kinds
  <2>2. Others /\ file' \in [Archives -> BOOLEAN] /\ index' \in [Archives -> Rows!Entry \cup {None}]
    BY DEF Others, RowsInv, RowsTyped
  <2>3. LET o == [kind |-> kind, pc |-> pc, locks |-> {m}, mod |-> m, arch |-> a, solo |-> {}, entry |-> None,
                  todo |-> {}, out |-> Rows!Nothing, after |-> "", then |-> "end", late |-> FALSE]
        IN  RowsOpFits(o) /\ ModStays(o)
    BY DEF RowsOpFits, ModStays, Rows!Installs, Rows!Names
  <2> HIDE DEF pc
  <2> QED BY <2>1, <2>2, <2>3, BeginStep
<1>2. ASSUME NEW m \in Mods, Rows!UninstallMod(u, m) PROVE RowsInv'
  <2>1. "solo" \in Steps \ {"scan", "push"} /\ "flags" \in Steps /\ "uninstall" \in Kinds
        /\ Rows!Begin(u, "uninstall", {m}, m, None, "solo", "flags")
    BY <1>2 DEF Steps, Kinds, Rows!UninstallMod
  <2>2. Others /\ file' \in [Archives -> BOOLEAN] /\ index' \in [Archives -> Rows!Entry \cup {None}]
    BY <1>2 DEF Rows!UninstallMod, Others, RowsInv, RowsTyped
  <2>3. LET o == [kind |-> "uninstall", pc |-> "solo", locks |-> {m}, mod |-> m, arch |-> None, solo |-> {}, entry |-> None,
                  todo |-> {}, out |-> Rows!Nothing, after |-> "", then |-> "flags", late |-> FALSE]
        IN  RowsOpFits(o) /\ ModStays(o)
    BY <1>2 DEF RowsOpFits, ModStays, Rows!Installs, Rows!Names, Rows!UninstallMod
  <2> QED BY <2>1, <2>2, <2>3, BeginStep
<1>3. ASSUME NEW m \in Mods, NEW n \in Mods, Rows!RenameMod(u, m, n) PROVE RowsInv'
  <2>1. "move" \in Steps \ {"scan", "push"} /\ "" \in Steps /\ "rename" \in Kinds
        /\ Rows!Begin(u, "rename", {m, n}, m, None, "move", "")
    BY <1>3 DEF Steps, Kinds, Rows!RenameMod
  <2>2. Others /\ file' \in [Archives -> BOOLEAN] /\ index' \in [Archives -> Rows!Entry \cup {None}]
    BY <1>3 DEF Rows!RenameMod, Others, RowsInv, RowsTyped
  <2>3. LET o == [kind |-> "rename", pc |-> "move", locks |-> {m, n}, mod |-> m, arch |-> None, solo |-> {}, entry |-> None,
                  todo |-> {}, out |-> Rows!Nothing, after |-> "", then |-> "", late |-> FALSE]
        IN  RowsOpFits(o) /\ ModStays(o)
    BY <1>3 DEF RowsOpFits, ModStays, Rows!Installs, Rows!RenameMod
  <2> QED BY <2>1, <2>2, <2>3, BeginStep
<1>4. ASSUME NEW a \in Archives, Rows!Landed(u, a) PROVE RowsInv'
  <2>1. "row" \in Steps \ {"scan", "push"} /\ "forget" \in Steps /\ "land" \in Kinds
        /\ Rows!Begin(u, "land", {}, None, a, "row", "forget")
    BY <1>4 DEF Steps, Kinds, Rows!Landed
  <2>2. Others /\ file' \in [Archives -> BOOLEAN] /\ index' \in [Archives -> Rows!Entry \cup {None}]
    BY <1>4 DEF Rows!Landed, Rows!UpsertEntry, Rows!Entry, Others, RowsInv, RowsTyped
  <2>3. LET o == [kind |-> "land", pc |-> "row", locks |-> {}, mod |-> None, arch |-> a, solo |-> {}, entry |-> None,
                  todo |-> {}, out |-> Rows!Nothing, after |-> "", then |-> "forget", late |-> FALSE]
        IN  RowsOpFits(o) /\ ModStays(o)
    BY DEF RowsOpFits, ModStays, Rows!Installs, RowKinds
  <2> QED BY <2>1, <2>2, <2>3, BeginStep
<1>5. ASSUME NEW a \in Archives, Rows!RemoveArchive(u, a) PROVE RowsInv'
  <2>1. "entry" \in Steps \ {"scan", "push"} /\ "" \in Steps /\ "remove" \in Kinds
        /\ Rows!Begin(u, "remove", {}, None, a, "entry", "")
    BY <1>5 DEF Steps, Kinds, Rows!RemoveArchive
  <2>2. Others /\ file' \in [Archives -> BOOLEAN] /\ index' \in [Archives -> Rows!Entry \cup {None}]
    BY <1>5 DEF Rows!RemoveArchive, Others, RowsInv, RowsTyped
  <2>3. LET o == [kind |-> "remove", pc |-> "entry", locks |-> {}, mod |-> None, arch |-> a, solo |-> {}, entry |-> None,
                  todo |-> {}, out |-> Rows!Nothing, after |-> "", then |-> "", late |-> FALSE]
        IN  RowsOpFits(o) /\ ModStays(o)
    BY DEF RowsOpFits, ModStays, Rows!Installs
  <2> QED BY <2>1, <2>2, <2>3, BeginStep
<1>6. ASSUME NEW a \in Archives, Rows!SetHidden(u, a) PROVE RowsInv'
  <2>1. "row" \in Steps \ {"scan", "push"} /\ "end" \in Steps /\ "hide" \in Kinds
        /\ Rows!Begin(u, "hide", {}, None, a, "row", "end")
    BY <1>6 DEF Steps, Kinds, Rows!SetHidden
  <2>2. Others /\ file' \in [Archives -> BOOLEAN] /\ index' \in [Archives -> Rows!Entry \cup {None}]
    <3>1. index[a] \in Rows!Entry /\ index \in [Archives -> Rows!Entry \cup {None}]
      BY <1>6 DEF Rows!SetHidden, RowsInv, RowsTyped
    <3>2. [index[a] EXCEPT !.hidden = ~@] \in Rows!Entry
      BY <3>1 DEF Rows!Entry
    <3>3. index' = [index EXCEPT ![a] = [index[a] EXCEPT !.hidden = ~@]]
      BY <1>6 DEF Rows!SetHidden
    <3> QED BY <1>6, <3>1, <3>2, <3>3 DEF Rows!SetHidden, Others, RowsInv, RowsTyped
  <2>3. LET o == [kind |-> "hide", pc |-> "row", locks |-> {}, mod |-> None, arch |-> a, solo |-> {}, entry |-> None,
                  todo |-> {}, out |-> Rows!Nothing, after |-> "", then |-> "end", late |-> FALSE]
        IN  RowsOpFits(o) /\ ModStays(o)
    BY DEF RowsOpFits, ModStays, Rows!Installs, RowKinds
  <2> QED BY <2>1, <2>2, <2>3, BeginStep
<1>7. CASE Rows!Query(u)
  <2> PICK kind \in {"hide_installed", "hide_others", "list"} :
        Rows!Begin(u, kind, {}, None, None, "look", "") /\ UNCHANGED <<folder, file, index, cache, pushed, overtaken>>
    BY <1>7 DEF Rows!Query
  <2>1. "look" \in Steps \ {"scan", "push"} /\ "" \in Steps /\ kind \in Kinds
    BY DEF Steps, Kinds
  <2>2. Others /\ file' \in [Archives -> BOOLEAN] /\ index' \in [Archives -> Rows!Entry \cup {None}]
    BY DEF Others, RowsInv, RowsTyped
  <2>3. LET o == [kind |-> kind, pc |-> "look", locks |-> {}, mod |-> None, arch |-> None, solo |-> {}, entry |-> None,
                  todo |-> {}, out |-> Rows!Nothing, after |-> "", then |-> "", late |-> FALSE]
        IN  RowsOpFits(o) /\ ModStays(o)
    BY DEF RowsOpFits, ModStays, Rows!Installs, RowKinds
  <2> QED BY <2>1, <2>2, <2>3, BeginStep
<1> QED BY <1>1, <1>2, <1>3, <1>4, <1>5, <1>6, <1>7 DEF Rows!Requests

(***************************************************************************)
(* Installing, uninstalling, renaming, and the rest.                       *)
(***************************************************************************)
LEMMA FlagTyped ==
  ASSUME RowsInv, NEW a \in Archives, NEW b \in BOOLEAN, Rows!SetUninstalled(a, b)
  PROVE  index' \in [Archives -> Rows!Entry \cup {None}]
<1>1. index \in [Archives -> Rows!Entry \cup {None}]
  BY DEF RowsInv, RowsTyped
<1>2. CASE index[a] = None
  BY <1>1, <1>2 DEF Rows!SetUninstalled
<1>3. CASE index[a] # None
  <2>1. [index[a] EXCEPT !.flag = b] \in Rows!Entry
    BY <1>1, <1>3 DEF Rows!Entry
  <2>2. index' = [index EXCEPT ![a] = [index[a] EXCEPT !.flag = b]]
    BY <1>3 DEF Rows!SetUninstalled
  <2> QED BY <1>1, <2>1, <2>2
<1> QED BY <1>2, <1>3

LEMMA AtWork ==
  ASSUME RowsInv, NEW u \in Users, Rows!Busy(u)
  PROVE  op[u] \in Work /\ RowsOpFits(op[u]) /\ ModStays(op[u]) /\ op[u].kind # "idle"
BY IsWork DEF RowsInv, Rows!Busy

LEMMA PublishedTyped ==
  ASSUME RowsInv, NEW u \in Users, Rows!Busy(u), op[u].pc = "publish"
  PROVE  /\ op[u].kind \in Rows!Installs /\ op[u].mod \in op[u].locks
         /\ Rows!Published(u) \in [Mods -> (SUBSET Archives) \cup {None}]
         /\ \A m \in Mods \ op[u].locks : Rows!Published(u)[m] = folder[m]
<1>1. op[u].kind \in Rows!Installs /\ op[u].mod \in op[u].locks /\ op[u].mod \in Mods /\ op[u].arch \in Archives
  BY AtWork DEF RowsOpFits
<1>2. folder \in [Mods -> (SUBSET Archives) \cup {None}]
  BY DEF RowsInv, RowsTyped
<1>3. op[u].kind = "merge" => folder[op[u].mod] \in SUBSET Archives
  BY <1>2, AtWork DEF ModStays, Rows!Names
<1>4. Rows!Published(u) = [folder EXCEPT ![op[u].mod] =
                        (IF op[u].kind = "merge" THEN folder[op[u].mod] ELSE {}) \cup {op[u].arch}]
  BY DEF Rows!Published
<1> QED BY <1>1, <1>2, <1>3, <1>4

LEMMA InstallingKeeps ==
  ASSUME Rows!RowsAssumption, RowsInv, NEW u \in Users, Rows!Installing(u)
  PROVE  RowsInv'
<1>1. CASE Rows!ClearFlag(u)
  <2>1. /\ op[u].kind \in Rows!Installs /\ op[u].arch \in Archives /\ op[u].pc = "clear" /\ Rows!Busy(u)
    BY <1>1, AtWork DEF Rows!ClearFlag, RowsOpFits
  <2>2. RestTyped /\ Others
    BY <1>1, <2>1, FlagTyped DEF Rows!ClearFlag, RestTyped, Others, RowsInv, RowsTyped
  <2>3. CASE op[u].kind = "merge"
    <3>1. Rows!Go(u, "publish") /\ ~RowsDue(op[u])
      BY <1>1, <2>1, <2>3 DEF Rows!ClearFlag, RowsDue
    <3> QED BY <2>1, <2>2, <2>3, <3>1, GoStep
  <2>4. CASE op[u].kind # "merge"
    <3>1. Rows!Go(u, "forget")
      BY <1>1, <2>4 DEF Rows!ClearFlag
    <3> QED BY <2>1, <2>2, <3>1, GoStep
  <2> QED BY <2>3, <2>4
<1>2. CASE Rows!Publish(u)
  <2>1. Rows!Busy(u) /\ op[u].pc = "publish" /\ UNCHANGED <<file, index, cache, begun>> /\ UNCHANGED overtaken
    BY <1>2 DEF Rows!Publish
  <2> DEFINE pc == IF op[u].kind = "merge" THEN "forget" ELSE "clear"
             o == [op[u] EXCEPT !.pc = pc]
  <2>2. op[u] \in Work /\ RowsOpFits(op[u]) /\ op[u].kind # "idle"
    BY <2>1, AtWork
  <2>3. /\ o \in Work /\ o.kind = op[u].kind /\ o.mod = op[u].mod /\ o.arch = op[u].arch
        /\ o.then = op[u].then /\ o.locks = op[u].locks /\ o.pc = pc
    BY ZenonT(40), <2>2 DEF Work, Steps
  <2>4. Rows!Change(u, Rows!Published(u), o)
    BY <1>2 DEF Rows!Publish
  <2> HIDE DEF o
  <2>5. RowsOpFits(o)
    BY <2>1, <2>2, <2>3, PublishedTyped DEF RowsOpFits
  <2>6. RowsDue(o)
    BY <2>1, <2>2, <2>3, PublishedTyped DEF RowsDue, Rows!Installs
  <2>7. /\ o.pc \notin {"scan", "publish", "solo", "trash"}
        /\ o.kind = "merge" => o.pc # "clear"
        /\ o.locks \subseteq op[u].locks /\ OpTyped(o)
    BY <2>3 DEF OpTyped
  <2> QED BY <2>1, <2>4, <2>5, <2>6, <2>7, PublishedTyped, ChangeStep
<1>3. CASE Rows!PublishFails(u)
  <2>1. Rows!Busy(u) /\ ~RowsDue(op[u])
    BY <1>3, AtWork DEF Rows!PublishFails, Rows!At, RowsDue, RowsOpFits, Rows!Installs, Rows!Busy
  <2> QED BY <1>3, <2>1, Resting, EndStep DEF Rows!PublishFails, Others
<1>4. CASE Rows!PublishUnsynced(u)
  <2>1. Rows!Busy(u) /\ op[u].pc = "publish" /\ UNCHANGED <<file, index, cache, begun>>
        /\ Rows!Change(u, Rows!Published(u), Rows!Idle) /\ Rows!Unnoticed(Rows!Published(u))
    BY <1>4 DEF Rows!PublishUnsynced, Rows!At, Rows!Busy
  <2>2. OpTyped(Rows!Idle) /\ RowsOpFits(Rows!Idle) /\ Rows!Idle.kind = "idle"
    BY DEF OpTyped, RowsOpFits, Rows!Idle
  <2> QED BY <2>1, <2>2, PublishedTyped, ChangeStep
<1> QED BY <1>1, <1>2, <1>3, <1>4 DEF Rows!Installing

LEMMA UninstallingKeeps ==
  ASSUME Rows!RowsAssumption, RowsInv, NEW u \in Users, Rows!Uninstalling(u)
  PROVE  RowsInv'
<1>0. Rows!Busy(u) => op[u] \in Work /\ RowsOpFits(op[u]) /\ ModStays(op[u]) /\ op[u].kind # "idle"
  BY AtWork
<1>00. folder \in [Mods -> (SUBSET Archives) \cup {None}]
  BY DEF RowsInv, RowsTyped
<1>1. CASE Rows!LookForOthers(u)
  <2> DEFINE o == [op[u] EXCEPT !.solo = Rows!OwnedSolely(op[u].mod), !.pc = "trash"]
  <2>1. Rows!Busy(u) /\ op[u].kind = "uninstall" /\ op[u].pc = "solo" /\ Others /\ RestTyped
    BY <1>1, Resting DEF Rows!LookForOthers, Rows!At, Rows!Busy, Others
  <2>2. op[u].mod \in Mods /\ op[u].mod \in op[u].locks /\ op[u].mod \in Rows!Names
    BY <1>0, <2>1 DEF RowsOpFits, ModStays
  <2>3. Rows!OwnedSolely(op[u].mod) \subseteq Archives
    BY <1>00, <2>2 DEF Rows!OwnedSolely, Rows!Names
  <2>4. /\ o \in Work /\ o.kind = op[u].kind /\ o.mod = op[u].mod /\ o.arch = op[u].arch
        /\ o.then = op[u].then /\ o.locks = op[u].locks /\ o.pc = "trash"
    BY <1>0, <2>1, <2>3 DEF Work, Steps
  <2>5. op' = [op EXCEPT ![u] = o]
    BY <1>1 DEF Rows!LookForOthers
  <2> HIDE DEF o
  <2>6. RowsOpFits(o) /\ ScanFits(o) /\ ModStays(o) /\ OpTyped(o)
    BY <1>0, <2>1, <2>2, <2>4 DEF RowsOpFits, ScanFits, ModStays, OpTyped, Rows!Installs
  <2>7. Apart(u, o)
    BY <2>1, <2>4, StaysApart
  <2>8. ~RowsDue(op[u])
    BY <2>1 DEF RowsDue
  <2> QED BY <2>1, <2>5, <2>6, <2>7, <2>8, PlainStep DEF RestTyped
<1>2. CASE Rows!MoveToTrash(u)
  <2> DEFINE o == [op[u] EXCEPT !.locks = {}, !.pc = "flags"]
             now == [folder EXCEPT ![op[u].mod] = None]
  <2>1. Rows!Busy(u) /\ op[u].kind = "uninstall" /\ op[u].pc = "trash" /\ UNCHANGED <<file, index, cache, begun>>
        /\ UNCHANGED overtaken
    BY <1>2 DEF Rows!MoveToTrash, Rows!At, Rows!Busy
  <2>2. op[u].mod \in Mods /\ op[u].mod \in op[u].locks
    BY <1>0, <2>1 DEF RowsOpFits
  <2>3. /\ o \in Work /\ o.kind = op[u].kind /\ o.mod = op[u].mod /\ o.arch = op[u].arch
        /\ o.then = op[u].then /\ o.locks = {} /\ o.pc = "flags"
    BY <1>0, <2>1 DEF Work, Steps
  <2>4. Rows!Change(u, now, o)
    BY <1>2 DEF Rows!MoveToTrash
  <2>5. now \in [Mods -> (SUBSET Archives) \cup {None}] /\ \A m \in Mods \ op[u].locks : now[m] = folder[m]
    BY <1>00, <2>2
  <2> HIDE DEF o, now
  <2>6. RowsOpFits(o) /\ OpTyped(o) /\ RowsDue(o)
    BY <1>0, <2>1, <2>3 DEF RowsOpFits, OpTyped, Rows!Installs, RowsDue
  <2>7. o.pc \notin {"scan", "publish", "solo", "trash"} /\ o.kind # "merge" /\ o.locks \subseteq op[u].locks
    BY <2>1, <2>3
  <2> QED BY <2>1, <2>4, <2>5, <2>6, <2>7, ChangeStep
<1>3. CASE Rows!UninstallFails(u)
  <2>1. Rows!Busy(u) /\ ~RowsDue(op[u])
    BY <1>3 DEF Rows!UninstallFails, Rows!At, Rows!Busy, RowsDue
  <2> QED BY <1>3, <2>1, Resting, EndStep DEF Rows!UninstallFails, Others
<1>4. CASE Rows!FlagArchive(u)
  <2>1. Rows!Busy(u) /\ op[u].kind = "uninstall" /\ op[u].pc = "flags" /\ Others /\ UNCHANGED <<file, begun>>
    BY <1>4 DEF Rows!FlagArchive, Rows!At, Rows!Busy, Others
  <2> PICK a \in op[u].solo : Rows!SetUninstalled(a, TRUE) /\ op' = [op EXCEPT ![u].solo = @ \ {a}, ![u].arch = a, ![u].pc = "row"]
    BY <1>4 DEF Rows!FlagArchive
  <2> DEFINE o == [op[u] EXCEPT !.solo = @ \ {a}, !.arch = a, !.pc = "row"]
  <2>2. a \in Archives /\ op[u].solo \subseteq Archives
    BY <1>0, <2>1 DEF Work
  <2>3. RestTyped
    BY <2>1, <2>2, FlagTyped DEF RestTyped, RowsInv, RowsTyped
  <2>4. /\ o \in Work /\ o.kind = op[u].kind /\ o.mod = op[u].mod /\ o.arch = a
        /\ o.then = op[u].then /\ o.locks = op[u].locks /\ o.pc = "row"
    BY <1>0, <2>1, <2>2 DEF Work, Steps
  <2>5. op' = [op EXCEPT ![u] = o]
    BY DEF RowsInv, RowsTyped
  <2> HIDE DEF o
  <2>6. RowsOpFits(o) /\ ScanFits(o) /\ ModStays(o) /\ OpTyped(o) /\ RowsDue(o)
    BY <1>0, <2>1, <2>2, <2>4 DEF RowsOpFits, ScanFits, ModStays, OpTyped, Rows!Installs, RowKinds,
       RowsDue
  <2>7. Apart(u, o)
    BY <2>1, <2>4, StaysApart
  <2> QED BY <2>1, <2>3, <2>5, <2>6, <2>7, PlainStep DEF RestTyped
<1>5. CASE Rows!AllFlagged(u)
  <2>1. Rows!Busy(u) /\ op[u].kind = "uninstall" /\ Rows!Go(u, "forget") /\ Others /\ RestTyped
    BY <1>5, Resting DEF Rows!AllFlagged, Rows!At, Rows!Busy, Others
  <2> QED BY <2>1, GoStep
<1> QED BY <1>1, <1>2, <1>3, <1>4, <1>5 DEF Rows!Uninstalling

NewName(u) == CHOOSE n \in op[u].locks : n # op[u].mod

LEMMA MovedTyped ==
  ASSUME RowsInv, NEW u \in Users, op[u].kind = "rename"
  PROVE  /\ op[u].mod \in op[u].locks /\ op[u].mod \in Mods
         /\ NewName(u) \in op[u].locks /\ NewName(u) \in Mods /\ NewName(u) # op[u].mod
         /\ Rows!Moved(op[u].mod, NewName(u)) \in [Mods -> (SUBSET Archives) \cup {None}]
         /\ \A m \in Mods \ op[u].locks : Rows!Moved(op[u].mod, NewName(u))[m] = folder[m]
<1>1. op[u] \in Work /\ RowsOpFits(op[u])
  BY AtWork DEF Rows!Busy
<1>2. op[u].mod \in op[u].locks /\ (\E m \in op[u].locks : m # op[u].mod) /\ op[u].locks \subseteq Mods
  BY <1>1 DEF RowsOpFits, Work
<1>3. NewName(u) \in op[u].locks /\ NewName(u) # op[u].mod
  BY <1>2 DEF NewName
<1>4. folder \in [Mods -> (SUBSET Archives) \cup {None}]
  BY DEF RowsInv, RowsTyped
<1> QED BY <1>2, <1>3, <1>4 DEF Rows!Moved

LEMMA RenamingKeeps ==
  ASSUME Rows!RowsAssumption, RowsInv, NEW u \in Users, Rows!Renaming(u)
  PROVE  RowsInv'
<1>0. Rows!Busy(u) => op[u] \in Work /\ RowsOpFits(op[u]) /\ op[u].kind # "idle"
  BY AtWork
<1>1. CASE Rows!RenameFolder(u)
  <2> DEFINE n == NewName(u)
             now == Rows!Moved(op[u].mod, n)
             o == [op[u] EXCEPT !.pc = "rebuild", !.mod = n]
  <2>1. Rows!Busy(u) /\ op[u].kind = "rename" /\ Rows!Change(u, now, o) /\ UNCHANGED <<file, index, cache, begun>>
        /\ UNCHANGED overtaken
    BY <1>1 DEF Rows!RenameFolder, NewName, Rows!At, Rows!Busy
  <2>2. /\ op[u].mod \in op[u].locks /\ n \in op[u].locks /\ n \in Mods /\ n # op[u].mod
        /\ now \in [Mods -> (SUBSET Archives) \cup {None}] /\ \A m \in Mods \ op[u].locks : now[m] = folder[m]
    BY <2>1, MovedTyped
  <2> HIDE DEF n, now
  <2>3. /\ o \in Work /\ o.kind = op[u].kind /\ o.mod = n /\ o.arch = op[u].arch
        /\ o.then = op[u].then /\ o.locks = op[u].locks /\ o.pc = "rebuild"
    BY <1>0, <2>1, <2>2 DEF Work, Steps
  <2> HIDE DEF o
  <2>4. RowsOpFits(o) /\ OpTyped(o) /\ RowsDue(o)
    BY <1>0, <2>1, <2>2, <2>3 DEF RowsOpFits, OpTyped, Rows!Installs, RowsDue
  <2> QED BY <2>1, <2>2, <2>3, <2>4, ChangeStep
<1>2. CASE Rows!Rebuilt(u)
  <2>1. Rows!Busy(u) /\ op[u].kind = "rename" /\ Rows!Go(u, "forget") /\ Others /\ RestTyped
    BY <1>2, Resting DEF Rows!Rebuilt, Rows!At, Rows!Busy, Others
  <2> QED BY <2>1, GoStep
<1>3. CASE Rows!RenameBack(u)
  <2> DEFINE n == NewName(u)
             now == Rows!Moved(op[u].mod, n)
  <2>1. Rows!Busy(u) /\ op[u].kind = "rename" /\ Rows!Change(u, now, Rows!Idle) /\ UNCHANGED <<file, index, cache, begun>>
        /\ Rows!Unnoticed(now)
    BY <1>3 DEF Rows!RenameBack, NewName, Rows!At, Rows!Busy
  <2>2. now \in [Mods -> (SUBSET Archives) \cup {None}] /\ \A m \in Mods \ op[u].locks : now[m] = folder[m]
    BY <2>1, MovedTyped
  <2> HIDE DEF now
  <2>3. OpTyped(Rows!Idle) /\ RowsOpFits(Rows!Idle) /\ Rows!Idle.kind = "idle"
    BY DEF OpTyped, RowsOpFits, Rows!Idle
  <2> QED BY <2>1, <2>2, <2>3, ChangeStep
<1> QED BY <1>1, <1>2, <1>3 DEF Rows!Renaming

LEMMA DownloadingKeeps ==
  ASSUME Rows!RowsAssumption, RowsInv, NEW u \in Users, Rows!Downloading(u)
  PROVE  RowsInv'
<1>0. Rows!Busy(u) => op[u] \in Work /\ RowsOpFits(op[u]) /\ op[u].kind # "idle"
  BY AtWork
<1>1. CASE Rows!RemoveEntry(u)
  <2> DEFINE o == [op[u] EXCEPT !.pc = "drop"]
  <2>1. Rows!Busy(u) /\ op[u].kind = "remove" /\ op[u].pc = "entry" /\ Others /\ op' = [op EXCEPT ![u] = o]
        /\ UNCHANGED <<file, begun>>
    BY <1>1 DEF Rows!RemoveEntry, Rows!At, Rows!Busy, Others
  <2>2. RestTyped
    BY <1>1, <2>1 DEF Rows!RemoveEntry, RestTyped, RowsInv, RowsTyped
  <2>3. /\ o \in Work /\ o.kind = op[u].kind /\ o.mod = op[u].mod /\ o.arch = op[u].arch
        /\ o.then = op[u].then /\ o.locks = op[u].locks /\ o.pc = "drop"
    BY <1>0, <2>1 DEF Work, Steps
  <2> HIDE DEF o
  <2>4. RowsOpFits(o) /\ ScanFits(o) /\ ModStays(o) /\ OpTyped(o)
    BY <1>0, <2>1, <2>3 DEF RowsOpFits, ScanFits, ModStays, OpTyped, Rows!Installs
  <2>5. Apart(u, o) /\ ~RowsDue(op[u])
    BY <2>1, <2>3, StaysApart DEF RowsDue
  <2> QED BY <2>1, <2>2, <2>4, <2>5, PlainStep DEF RestTyped
<1>2. CASE Rows!Removed(u)
  <2>1. op' = [op EXCEPT ![u] = Rows!Idle] /\ UNCHANGED <<folder, file, begun>> /\ index' = index /\ Rows!invalidateInstalledArchiveCache
    BY <1>2 DEF Rows!Removed, Rows!Done
  <2>2. OpTyped(Rows!Idle) /\ RowsOpFits(Rows!Idle) /\ ScanFits(Rows!Idle) /\ ModStays(Rows!Idle) /\ Rows!Idle.kind = "idle"
    BY DEF OpTyped, RowsOpFits, ScanFits, ModStays, Rows!Idle
  <2>3. index' \in [Archives -> Rows!Entry \cup {None}]
    BY <2>1 DEF RowsInv, RowsTyped
  <2> QED BY <2>1, <2>2, <2>3, NoMap
<1>3. CASE Rows!StartLook(u)
  <2>1. Rows!Busy(u) /\ op[u].pc = "look" /\ op' = Rows!Look(op, u, "answer") /\ Others /\ RestTyped
    BY <1>3, Resting DEF Rows!StartLook, Others
  <2>2. op[u].kind # "rename"
    BY <1>0, <2>1 DEF RowsOpFits
  <2> QED BY <2>1, <2>2, LookFits
<1>4. CASE Rows!SetHiddenBulk(u)
  <2>1. Rows!Done(u) /\ ~RowsDue(op[u]) /\ Others /\ UNCHANGED <<file, begun>>
    BY <1>4 DEF Rows!SetHiddenBulk, Rows!At, RowsDue, Others
  <2>2. \A e \in Rows!Entry : [e EXCEPT !.hidden = TRUE] \in Rows!Entry
    BY DEF Rows!Entry
  <2>3. index \in [Archives -> Rows!Entry \cup {None}] /\ file \in [Archives -> BOOLEAN] /\ begun \in 0..MaxOps
    BY DEF RowsInv, RowsTyped
  <2>4. RestTyped
    BY <1>4, <2>1, <2>2, <2>3 DEF Rows!SetHiddenBulk, RestTyped
  <2> QED BY <2>1, <2>4, EndStep
<1>5. CASE Rows!Listed(u)
  <2>1. Rows!Done(u) /\ ~RowsDue(op[u]) /\ Others /\ RestTyped
    BY <1>5, Resting DEF Rows!Listed, Rows!At, RowsDue, Others
  <2> QED BY <2>1, EndStep
<1> QED BY <1>1, <1>2, <1>3, <1>4, <1>5 DEF Rows!Downloading

LEMMA RowsInit == Rows!RowsAssumption /\ Rows!Init => RowsInv
<1> SUFFICES ASSUME Rows!RowsAssumption, Rows!Init PROVE RowsInv
  OBVIOUS
<1>1. \A u \in Users : op[u] = Rows!Idle
  BY DEF Rows!Init
<1>2. RowsTyped
  <2>1. [flag |-> FALSE, hidden |-> FALSE] \in Rows!Entry /\ 0 \in 0..MaxOps
    BY DEF Rows!Entry, Rows!RowsAssumption
  <2>2. op \in [Users -> {Rows!Idle} \cup Work] /\ index \in [Archives -> Rows!Entry \cup {None}]
    BY <2>1 DEF Rows!Init
  <2> QED BY <2>1, <2>2 DEF Rows!Init, RowsTyped
<1>3. \A u \in Users : RowsOpFits(op[u]) /\ ScanFits(op[u]) /\ ModStays(op[u])
  BY <1>1 DEF RowsOpFits, ScanFits, ModStays, Rows!Idle
<1>4. Locked
  BY <1>1 DEF Locked, Rows!Busy, Rows!Idle
<1> QED BY <1>2, <1>3, <1>4 DEF RowsInv, MapFits, Rows!Init

LEMMA RowsNext == Rows!RowsAssumption /\ RowsInv /\ [Rows!Next]_(Rows!vars) => RowsInv'
<1> SUFFICES ASSUME Rows!RowsAssumption, RowsInv, [Rows!Next]_(Rows!vars) PROVE RowsInv'
  OBVIOUS
<1>1. CASE UNCHANGED Rows!vars
  <2>1. RowsTyped' /\ Locked' /\ MapFits'
    BY <1>1 DEF Rows!vars, RowsInv, RowsTyped, Locked, Rows!Busy, MapFits, RowsDue, Rows!Installed
  <2>2. \A x : (RowsOpFits(x) => RowsOpFits(x)') /\ (ScanFits(x) => ScanFits(x)') /\ (ModStays(x) => ModStays(x)')
    BY <1>1 DEF Rows!vars, RowsOpFits, ScanFits, ModStays, Rows!Names
  <2>3. op' = op
    BY <1>1 DEF Rows!vars
  <2> QED BY <2>1, <2>2, <2>3 DEF RowsInv
<1> QED BY <1>1, RequestsKeep, InstallingKeeps, UninstallingKeeps, RenamingKeeps, RowsKeep, DownloadingKeeps DEF Rows!Next

\* The invariant holds in every state.
THEOREM RowsInvariance ==
  ASSUME Rows!RowsAssumption
  PROVE  Rows!Spec => []RowsInv
BY RowsInit, RowsNext, PTL DEF Rows!Spec

\* Every variable keeps its type.
THEOREM RowsTypeCorrect ==
  ASSUME Rows!RowsAssumption
  PROVE  Rows!Spec => []Rows!TypeOK
<1>1. RowsInv => Rows!TypeOK
  BY DEF RowsInv, RowsTyped, Rows!TypeOK
<1> QED BY <1>1, RowsInvariance, PTL

\* At rest the installed-archive map is the one of the folders (session.go:432).
THEOREM MapsAreTrue ==
  ASSUME Rows!RowsAssumption
  PROVE  Rows!Spec => []Rows!CacheIsTrue
<1>1. RowsInv => Rows!CacheIsTrue
  BY DEF RowsInv, MapFits, Rows!CacheIsTrue, Rows!Busy, RowsDue
<1> QED BY <1>1, RowsInvariance, PTL
=============================================================================
