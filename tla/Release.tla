------------------------------ MODULE Release ------------------------------
(***************************************************************************)
(* The release store of gorganizerctl (internal/release): one folder per   *)
(* version, the links "current" and "previous", and a lock file that       *)
(* serialises install, update, rollback and status.  A session runs from   *)
(* the version "current" named when it was started; it holds session.lock  *)
(* and names its version in the marker file, and the collection of old     *)
(* versions reads both.  The collection finds out whether a session runs   *)
(* by trying to take session.lock itself.                                  *)
(*                                                                         *)
(* A version is a number; what its folder holds is one of two builds, or   *)
(* "bad" when files are missing or changed.                                *)
(***************************************************************************)
EXTENDS Naturals, FiniteSets

CONSTANTS Version,     \* the version numbers that exist
          Manager,     \* the gorganizerctl release processes
          Sitting,     \* the gorganizerctl session processes
          None,        \* no version, no process
          MaxOps,      \* bound: release commands
          MaxFaults    \* bound: kills, failures and damage by hand

ReleaseAssumption ==
  /\ Version \subseteq Nat /\ None \notin Version
  /\ Manager \cap Sitting = {} /\ None \notin Manager \cup Sitting
  /\ MaxOps \in Nat /\ MaxFaults \in Nat

VARIABLES lock,        \* the holder of .release.lock
          dir,         \* what the folder of each version holds
          hurt,        \* versions damaged by hand
          current,     \* the link "current"
          previous,    \* the link "previous"
          stages,      \* staging folders left by killed commands (0 or 1)
          op,          \* what each release process is doing
          slock,       \* the holder of session.lock
          marker,      \* the version the marker file names
          sitting,     \* each session
          cut,         \* TRUE once a command ended between two of its steps
          ops, faults

store   == <<dir, hurt, current, previous>>
limits  == <<ops, faults>>
session == <<slock, marker, sitting>>
vars    == <<lock, dir, hurt, current, previous, stages, op, slock, marker, sitting, cut, ops, faults>>

Link     == Version \cup {None}
Contents == {"none", "bad", "one", "two"}
Kinds    == {"install", "update", "rollback", "status"}
At       == {"idle", "waiting", "stage", "publish", "keep", "switch", "collect", "probing", "remove"}
Idle     == [at |-> "idle", kind |-> "status", version |-> None, build |-> "one", used |-> None]

TypeOK ==
    /\ lock \in Manager \cup {None}
    /\ dir \in [Version -> Contents] /\ hurt \subseteq Version
    /\ current \in Link /\ previous \in Link /\ stages \in 0..1
    /\ op \in [Manager -> [at : At, kind : Kinds, version : Link, build : {"one", "two"}, used : Link]]
    /\ slock \in Manager \cup Sitting \cup {None} /\ marker \in Link
    /\ sitting \in [Sitting -> [at : {"out", "started", "locked", "open", "refused"}, from : Link, linked : BOOLEAN]]
    /\ cut \in BOOLEAN /\ ops \in 0..MaxOps /\ faults \in 0..MaxFaults

Init ==
    /\ lock = None /\ stages = 0 /\ hurt = {} /\ previous = None
    /\ \E v \in Version \cup {None} :
         /\ current = v
         /\ dir = [w \in Version |-> IF w = v THEN "one" ELSE "none"]
    /\ op = [m \in Manager |-> Idle]
    /\ slock = None /\ marker = None
    /\ sitting = [s \in Sitting |-> [at |-> "out", from |-> None, linked |-> FALSE]]
    /\ cut = FALSE /\ ops = 0 /\ faults = 0

(***************************************************************************)
(* A release command.                                                      *)
(***************************************************************************)
\* A folder that passes every check of its manifest, links and executables.
Valid(v) == dir[v] \in {"one", "two"}

\* Before it waits for the lock, install and update resolve the tag.
Asks(m) ==
    /\ op[m].at = "idle" /\ ops < MaxOps
    /\ \E k \in Kinds, v \in Version, b \in {"one", "two"} :
         /\ k \in {"rollback", "status"} => b = "one" /\ v = CHOOSE w \in Version : TRUE
         /\ k = "update" => b = "one"
         /\ op' = [op EXCEPT ![m] =
                     [at |-> "waiting", kind |-> k, version |-> v, build |-> b, used |-> None]]
    /\ ops' = ops + 1
    /\ UNCHANGED <<lock, store, stages, session, cut, faults>>

Locks(m) == lock = None /\ op[m].at = "waiting" /\ lock' = m

Done(m) == lock' = None /\ op' = [op EXCEPT ![m] = Idle]

\* An update looks at the current version once it has the lock.
Newer(v) == current = None \/ (current # None /\ v > current)

\* Downloads, checks the digest and unpacks into a stage of its own.
Stage(m) ==
    /\ op[m].kind \in {"install", "update"}
    /\ Locks(m)
    /\ op[m].kind = "update" => Newer(op[m].version)
    /\ op' = [op EXCEPT ![m].at = "publish"]
    /\ UNCHANGED <<store, stages, session, cut, limits>>

\* An update that is not newer ends: older is an error, equal is up to date.
NotNewer(m) ==
    /\ op[m].kind = "update" /\ op[m].at = "waiting" /\ lock = None
    /\ ~Newer(op[m].version)
    /\ op' = [op EXCEPT ![m] = Idle]
    /\ UNCHANGED <<lock, store, stages, session, cut, limits>>

\* A folder that is there already must be valid and hold the same build.
Publish(m) ==
    LET v == op[m].version IN
    /\ op[m].at = "publish"
    /\ \/ dir[v] = "none" /\ dir' = [dir EXCEPT ![v] = op[m].build]
       \/ dir[v] = op[m].build /\ UNCHANGED dir
    /\ op' = [op EXCEPT ![m].at = "keep"]
    /\ UNCHANGED <<lock, hurt, current, previous, stages, session, cut, limits>>

PublishRefused(m) ==
    /\ op[m].at = "publish" /\ dir[op[m].version] \notin {"none", op[m].build}
    /\ Done(m)
    /\ UNCHANGED <<store, stages, session, cut, limits>>

\* Mutant: the switch does not look whether the version is current.
NeverCurrent(v) == FALSE
\* switchTo: nothing to do when the version is current already.
AlreadyCurrent(v) == current = v

NoSwitch(m) ==
    /\ op[m].at = "keep" /\ op[m].kind # "rollback" /\ AlreadyCurrent(op[m].version)
    /\ op' = [op EXCEPT ![m].at = "collect"]
    /\ UNCHANGED <<lock, store, stages, session, cut, limits>>

KeepPrevious(m) ==
    /\ op[m].at = "keep" /\ op[m].kind # "rollback" /\ ~AlreadyCurrent(op[m].version)
    /\ previous' = IF current # None THEN current ELSE previous
    /\ op' = [op EXCEPT ![m].at = "switch"]
    /\ UNCHANGED <<lock, dir, hurt, current, stages, session, cut, limits>>

Switch(m) ==
    /\ op[m].at = "switch" /\ op[m].kind # "rollback"
    /\ current' = op[m].version
    /\ op' = [op EXCEPT ![m].at = "collect"]
    /\ UNCHANGED <<lock, dir, hurt, previous, stages, session, cut, limits>>

\* Rollback checks the previous version, then exchanges the two links.
CanRollBack == previous # None /\ Valid(previous)
RollBack(m) ==
    /\ op[m].kind = "rollback" /\ Locks(m) /\ CanRollBack
    /\ current' = previous
    /\ op' = [op EXCEPT ![m].at = "switch", ![m].version = current]
    /\ UNCHANGED <<dir, hurt, previous, stages, session, cut, limits>>

NoRollback(m) ==
    /\ op[m].kind = "rollback" /\ op[m].at = "waiting" /\ lock = None /\ ~CanRollBack
    /\ op' = [op EXCEPT ![m] = Idle]
    /\ UNCHANGED <<lock, store, stages, session, cut, limits>>

RolledBack(m) ==
    /\ op[m].at = "switch" /\ op[m].kind = "rollback"
    /\ previous' = IF op[m].version # None THEN op[m].version ELSE previous
    /\ op' = [op EXCEPT ![m].at = "collect"]
    /\ UNCHANGED <<lock, dir, hurt, current, stages, session, cut, limits>>

(***************************************************************************)
(* The collection of old versions, and status, ask for the session.        *)
(***************************************************************************)
StatusReads(m) ==
    /\ op[m].kind = "status" /\ Locks(m)
    /\ op' = [op EXCEPT ![m].at = "collect"]
    /\ UNCHANGED <<store, stages, session, cut, limits>>

\* The lock is free: no session.  For a moment this process is its holder.
Probe(m) ==
    /\ op[m].at = "collect" /\ slock = None
    /\ slock' = m
    /\ op' = [op EXCEPT ![m].at = "probing"]
    /\ UNCHANGED <<lock, store, stages, marker, sitting, cut, limits>>

Probed(m) ==
    /\ op[m].at = "probing"
    /\ slock' = None
    /\ IF op[m].kind = "status" THEN Done(m) ELSE op' = [op EXCEPT ![m].at = "remove"] /\ UNCHANGED lock
    /\ UNCHANGED <<store, stages, marker, sitting, cut, limits>>

\* The lock is held: the version in use is the one the marker names.
InUse == marker

ReadMarker(m) ==
    /\ op[m].at = "collect" /\ slock # None
    /\ IF op[m].kind = "status" THEN Done(m)
       ELSE op' = [op EXCEPT ![m].at = "remove", ![m].used = InUse] /\ UNCHANGED lock
    /\ UNCHANGED <<store, stages, session, cut, limits>>

\* Everything but the two links' versions and the one in use is removed.
Spared(m) == {current, previous, op[m].used}

Obsolete(m) == {v \in Version : dir[v] # "none"} \ Spared(m)

Remove(m) ==
    /\ op[m].at = "remove"
    /\ \E v \in Obsolete(m) :
         dir' = [dir EXCEPT ![v] = "none"] /\ hurt' = hurt \ {v}
    /\ UNCHANGED <<lock, current, previous, stages, op, session, cut, limits>>

\* A stage that is more than an hour old goes with them.
Collected(m) ==
    /\ op[m].at = "remove" /\ Obsolete(m) = {}
    /\ stages' \in {0, stages}
    /\ Done(m)
    /\ UNCHANGED <<store, session, cut, limits>>

(***************************************************************************)
(* A command ends early: an error removes its stage, a kill leaves it.  A  *)
(* removal that is cut leaves a folder with files missing.                 *)
(***************************************************************************)
Ends(m) ==
    /\ op[m].at \notin {"idle", "waiting"} /\ faults < MaxFaults
    /\ faults' = faults + 1 /\ cut' = TRUE
    /\ Done(m)
    /\ slock' = IF slock = m THEN None ELSE slock
    /\ stages' \in {stages} \cup (IF op[m].at \in {"publish"} THEN {1} ELSE {})
    /\ \/ UNCHANGED dir
       \/ op[m].at = "remove" /\ \E v \in Obsolete(m) : dir' = [dir EXCEPT ![v] = "bad"]
    /\ UNCHANGED <<hurt, current, previous, marker, sitting, ops>>

Damage(v) ==
    /\ Valid(v) /\ faults < MaxFaults
    /\ dir' = [dir EXCEPT ![v] = "bad"] /\ hurt' = hurt \cup {v}
    /\ faults' = faults + 1
    /\ UNCHANGED <<lock, current, previous, stages, op, session, cut, ops>>

(***************************************************************************)
(* A session, from the program "current" named when it was started.        *)
(***************************************************************************)
StartsFrom(s) ==
    /\ sitting[s].at = "out" /\ current # None /\ Valid(current)
    /\ sitting' = [sitting EXCEPT ![s] = [at |-> "started", from |-> current, linked |-> FALSE]]
    /\ UNCHANGED <<lock, store, stages, op, slock, marker, cut, limits>>

acquireSessionLock(s) ==
    /\ sitting[s].at = "started" /\ slock = None
    /\ slock' = s
    /\ sitting' = [sitting EXCEPT ![s].at = "locked"]
    /\ UNCHANGED <<lock, store, stages, op, marker, cut, limits>>

\* "Gorganizer is already open. Switch to its window."
AlreadyOpen(s) ==
    /\ sitting[s].at = "started" /\ slock # None
    /\ sitting' = [sitting EXCEPT ![s].at = "refused"]
    /\ UNCHANGED <<lock, store, stages, op, slock, marker, cut, limits>>

\* linked is history: a link named the version when the marker was written.
markSessionRelease(s) ==
    /\ sitting[s].at = "locked"
    /\ marker' = sitting[s].from
    /\ sitting' = [sitting EXCEPT ![s].at = "open", ![s].linked = sitting[s].from \in {current, previous}]
    /\ UNCHANGED <<lock, store, stages, op, slock, cut, limits>>

\* The marker is removed before the lock is let go.
Closes(s) ==
    /\ sitting[s].at = "open" /\ marker # None
    /\ marker' = None
    /\ UNCHANGED <<lock, store, stages, op, slock, sitting, cut, limits>>

\* The end of the process, a kill included, is what frees the lock.
Leaves(s) ==
    /\ sitting[s].at \in {"locked", "open", "refused"}
    /\ sitting[s].at = "open" /\ marker # None => faults < MaxFaults
    /\ faults' = IF sitting[s].at = "open" /\ marker # None THEN faults + 1 ELSE faults
    /\ slock' = IF slock = s THEN None ELSE slock
    /\ sitting' = [sitting EXCEPT ![s] = [at |-> "out", from |-> None, linked |-> FALSE]]
    /\ UNCHANGED <<lock, store, stages, op, marker, cut, ops>>

Commands(m) ==
    \/ Asks(m) \/ Stage(m) \/ NotNewer(m) \/ Publish(m) \/ PublishRefused(m)
    \/ NoSwitch(m) \/ KeepPrevious(m) \/ Switch(m)
    \/ RollBack(m) \/ NoRollback(m) \/ RolledBack(m)
    \/ StatusReads(m) \/ Probe(m) \/ Probed(m) \/ ReadMarker(m) \/ Remove(m) \/ Collected(m)
    \/ Ends(m)

Sessions(s) ==
    StartsFrom(s) \/ acquireSessionLock(s) \/ AlreadyOpen(s) \/ markSessionRelease(s) \/ Closes(s) \/ Leaves(s)

Next ==
    \/ \E m \in Manager : Commands(m)
    \/ \E v \in Version : Damage(v)
    \/ \E s \in Sitting : Sessions(s)

Spec == Init /\ [][Next]_vars

-----------------------------------------------------------------------------
\* Both links always name a version whose folder is there and complete, at
\* every step of an install, a rollback or a collection and after a kill at
\* any of them, unless somebody damaged the folder (release.go:401, :531).
LinksWhole == \A v \in {current, previous} \ {None} : dir[v] # "none" /\ (Valid(v) \/ v \in hurt)

\* A session keeps the folder it runs from for as long as it has its window
\* open, however many versions are installed meanwhile, when a link still
\* named that version as it wrote its marker (release.go:507, session.go:199).
\* The marker of the running session is its own.
RunningKept ==
    \A s \in Sitting : sitting[s].at = "open" /\ sitting[s].linked /\ marker = sitting[s].from
        => dir[sitting[s].from] # "none"

\* An update never puts an older version in place, whatever was installed
\* between its look at the newest tag and its turn (release.go:195).
NeverOlder ==
    lock # None /\ op[lock].kind = "update" /\ current # None /\ current' # current
        => current' > current

\* Between commands a rollback has another version to go to, unless a
\* command was cut short (release.go:416).
Undoable == lock = None /\ ~cut /\ current # None => previous # current

\* The versions are whole and one can go back to: all three.
VersionsWhole == LinksWhole /\ RunningKept /\ Undoable
=============================================================================
