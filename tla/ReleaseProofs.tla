--------------------------- MODULE ReleaseProofs ---------------------------
(***************************************************************************)
(* Proofs about Release, for any number of versions, commands, sessions    *)
(* and faults.                                                             *)
(*                                                                         *)
(* The invariant says what a command that holds .release.lock may rely on  *)
(* between its steps: that it is alone (Alone), that the version it is     *)
(* about to link is complete (LinksHold), how far the exchange of the two  *)
(* links is (Turns), and that the versions it will spare have the one a    *)
(* session runs from (Spares), although sessions come and go without that  *)
(* lock.                                                                   *)
(***************************************************************************)
EXTENDS Release, TLAPS

Works(m) == op[m].at \notin {"idle", "waiting"}
Places == {"install", "update"}

\* One command holds the lock of the store, and one session its own.
Alone ==
  /\ \A m \in Manager : Works(m) => lock = m
  /\ \A m \in Manager : op[m].at = "probing" => slock = m
  /\ \A s \in Sitting : sitting[s].at \in {"locked", "open"} => slock = s

\* What a command does is what its kind does.
Kinded ==
  /\ \A m \in Manager : op[m].kind \in Places /\ op[m].at # "idle" => op[m].version \in Version
  /\ \A m \in Manager : op[m].at \in {"publish", "keep"} => op[m].kind \in Places
  /\ \A m \in Manager : op[m].at = "switch" => op[m].kind \in Places \cup {"rollback"}
  /\ \A m \in Manager : op[m].at # "stage"
  /\ \A s \in Sitting : sitting[s].at \in {"started", "locked", "open"} => sitting[s].from \in Version

ReleaseTyped == TypeOK /\ Alone /\ Kinded

\* The links, and the version a command is about to link.
Whole(v) == v # None => dir[v] # "none" /\ (Valid(v) \/ v \in hurt)
LinksHold ==
  /\ Whole(current) /\ Whole(previous)
  /\ \A m \in Manager : op[m].at \in {"keep", "switch"} => Whole(op[m].version)

\* Halfway through an exchange the two links are as its first half left them.
Turning(m) ==
  op[m].at = "switch" =>
    IF op[m].kind = "rollback"
    THEN current = previous /\ current # None /\ op[m].version # None
         /\ (~cut => op[m].version # current)
    ELSE current # op[m].version /\ (current # None => previous = current)

Turns ==
  /\ current = None => previous = None
  /\ \A m \in Manager : Turning(m)
  /\ (\A m \in Manager : op[m].at # "switch") =>
       (~cut /\ current # None => previous # current)

\* The version an update places is newer for as long as it holds the lock.
StillNewer ==
  \A m \in Manager :
    op[m].kind = "update" /\ op[m].at \in {"publish", "keep", "switch"} => Newer(op[m].version)

\* A collection spares the version of every session that is to keep it.
Keeps(s) == sitting[s].at = "open" /\ sitting[s].linked /\ marker = sitting[s].from
Spares ==
  \A m \in Manager, s \in Sitting :
    op[m].at = "remove" /\ Keeps(s) => sitting[s].from \in Spared(m)

ReleaseInv == ReleaseTyped /\ LinksHold /\ Turns /\ StillNewer /\ Spares /\ RunningKept

-----------------------------------------------------------------------------
(* Types, locks and kinds.                                                  *)

LEMMA InitReleased == ReleaseAssumption /\ Init => ReleaseInv
<1> SUFFICES ASSUME ReleaseAssumption, Init PROVE ReleaseInv
  OBVIOUS
<1>1. TypeOK
  <2>1. op \in [Manager -> [at : At, kind : Kinds, version : Link, build : {"one", "two"}, used : Link]]
    BY DEF Init, Idle, At, Kinds, Link
  <2>2. sitting \in [Sitting -> [at : {"out", "started", "locked", "open", "refused"}, from : Link,
                                linked : BOOLEAN]]
    BY DEF Init, Link
  <2>3. current \in Link /\ dir \in [Version -> Contents]
    BY DEF Init, Link, Contents
  <2>4. hurt \subseteq Version /\ stages \in 0..1 /\ ops \in 0..MaxOps /\ faults \in 0..MaxFaults
    BY DEF Init, ReleaseAssumption
  <2>5. lock \in Manager \cup {None} /\ slock \in Manager \cup Sitting \cup {None}
        /\ previous \in Link /\ marker \in Link /\ cut \in BOOLEAN
    BY Zenon DEF Init, Link
  <2> QED BY <2>1, <2>2, <2>3, <2>4, <2>5, Zenon DEF TypeOK
<1>2. Alone /\ Kinded
  BY DEF Init, Alone, Kinded, Works, Places, Idle
<1>3. LinksHold /\ Turns /\ StillNewer /\ Spares /\ RunningKept
  BY DEF ReleaseAssumption, Init, LinksHold, Whole, Valid, Turns, Turning, StillNewer, Spares,
     Keeps, RunningKept, Idle
<1> QED BY <1>1, <1>2, <1>3 DEF ReleaseInv, ReleaseTyped

\* What a command's step does to its record, and to no other's.
Doing == [at : At, kind : Kinds, version : Link, build : {"one", "two"}, used : Link]
Only(m) == op' \in [Manager -> Doing] /\ \A n \in Manager : n # m => op'[n] = op[n]
Goes(m, at) ==
  /\ Only(m) /\ op'[m].at = at
  /\ op'[m].kind = op[m].kind /\ op'[m].version = op[m].version /\ op'[m].used = op[m].used
Stops(m) == Only(m) /\ op'[m].at = "idle" /\ op'[m].kind = "status"

LEMMA GoesTo ==
  ASSUME TypeOK, NEW m \in Manager, NEW at \in At, op' = [op EXCEPT ![m].at = at]
  PROVE  Goes(m, at)
<1>1. op \in [Manager -> Doing]
  BY DEF TypeOK, Doing
<1> QED BY <1>1 DEF Goes, Only, Doing

LEMMA StopsNow ==
  ASSUME TypeOK, NEW m \in Manager, op' = [op EXCEPT ![m] = Idle]
  PROVE  Stops(m)
<1>1. op \in [Manager -> Doing]
  BY DEF TypeOK, Doing
<1> QED BY <1>1 DEF Stops, Only, Doing, Idle, At, Kinds, Link

\* How each action moves its command.
Halts(m) == op[m].at # "idle" /\ Stops(m)
Asked(m) == op[m].at = "idle" /\ Only(m) /\ op'[m].at = "waiting" /\ op'[m].version \in Version
Reads(m) ==
  /\ op[m].at = "collect" /\ Only(m) /\ op'[m].at = "remove"
  /\ op'[m].kind = op[m].kind /\ op'[m].version = op[m].version /\ op'[m].used = marker
Exchanges(m) ==
  /\ op[m].at = "waiting" /\ op[m].kind = "rollback" /\ Only(m)
  /\ op'[m].at = "switch" /\ op'[m].kind = "rollback" /\ op'[m].version = current

LEMMA AsksMoves == ASSUME TypeOK, NEW m \in Manager, Asks(m) PROVE Asked(m)
<1>1. op \in [Manager -> Doing]
  BY DEF TypeOK, Doing
<1>2. PICK k \in Kinds, v \in Version, b \in {"one", "two"} :
        op' = [op EXCEPT ![m] = [at |-> "waiting", kind |-> k, version |-> v, build |-> b,
                                 used |-> None]]
  BY DEF Asks
<1> QED BY <1>1, <1>2 DEF Asks, Asked, Only, Doing, At, Link

LEMMA RollBackMoves == ASSUME TypeOK, NEW m \in Manager, RollBack(m) PROVE Exchanges(m)
<1>1. op \in [Manager -> Doing] /\ current \in Link
  BY DEF TypeOK, Doing
<1>2. op' = [op EXCEPT ![m].at = "switch", ![m].version = current]
      /\ op[m].at = "waiting" /\ op[m].kind = "rollback"
  BY DEF RollBack, Locks
<1> QED BY <1>1, <1>2, ZenonT(30) DEF Exchanges, Only, Doing, At

LEMMA UsesMarker ==
  ASSUME TypeOK, NEW m \in Manager, op[m].at = "collect",
         op' = [op EXCEPT ![m].at = "remove", ![m].used = marker]
  PROVE  Reads(m)
<1>1. op \in [Manager -> Doing] /\ marker \in Link
  BY DEF TypeOK, Doing
<1> QED BY <1>1 DEF Reads, Only, Doing, At

\* The step of a command: its move, and what it does to the rest.
Kept == UNCHANGED <<dir, hurt, current, previous, cut>>
Quiet(m) ==
  /\ Kept /\ UNCHANGED <<marker, sitting, faults>>
  /\ ops' \in 0..MaxOps /\ stages' \in 0..1
  /\ \/ Asked(m) /\ UNCHANGED <<lock, slock>>
     \/ Halts(m) /\ ~Works(m) /\ UNCHANGED <<lock, slock>>
     \/ Halts(m) /\ Works(m) /\ op[m].at # "switch" /\ lock' = None
        /\ (slock' = slock \/ (slock = m /\ slock' = None))
     \/ op[m].at = "waiting" /\ op[m].kind \in Places /\ lock = None /\ lock' = m
        /\ (op[m].kind = "update" => Newer(op[m].version)) /\ Goes(m, "publish")
        /\ UNCHANGED slock
     \/ op[m].at = "keep" /\ Goes(m, "collect") /\ UNCHANGED <<lock, slock>>
     \/ op[m].at = "waiting" /\ op[m].kind = "status" /\ lock = None /\ lock' = m
        /\ Goes(m, "collect") /\ UNCHANGED slock
     \/ op[m].at = "collect" /\ slock = None /\ slock' = m /\ Goes(m, "probing") /\ UNCHANGED lock
     \/ op[m].at = "probing" /\ slock' = None /\ Goes(m, "remove") /\ UNCHANGED lock
     \/ slock # None /\ Reads(m) /\ UNCHANGED <<lock, slock>>

Elsewhere == UNCHANGED <<slock, marker, sitting, stages, ops, faults>>
Links(m) ==
  /\ Elsewhere /\ UNCHANGED <<hurt, cut>>
  /\ \/ /\ op[m].at = "publish" /\ Goes(m, "keep") /\ UNCHANGED <<lock, current, previous>>
        /\ dir' \in [Version -> Contents] /\ dir'[op[m].version] \in {"one", "two"}
        /\ \A v \in Version : v # op[m].version \/ dir[v] # "none" => dir'[v] = dir[v]
     \/ /\ op[m].at = "keep" /\ current # op[m].version /\ Goes(m, "switch")
        /\ previous' = (IF current # None THEN current ELSE previous)
        /\ UNCHANGED <<lock, dir, current>>
     \/ /\ op[m].at = "switch" /\ op[m].kind # "rollback" /\ Goes(m, "collect")
        /\ current' = op[m].version /\ UNCHANGED <<lock, dir, previous>>
     \/ /\ Exchanges(m) /\ lock = None /\ lock' = m /\ previous # None
        /\ current' = previous /\ UNCHANGED <<dir, previous>>
     \/ /\ op[m].at = "switch" /\ op[m].kind = "rollback" /\ Goes(m, "collect")
        /\ previous' = (IF op[m].version # None THEN op[m].version ELSE previous)
        /\ UNCHANGED <<lock, dir, current>>

LEMMA CommandMoves ==
  ASSUME ReleaseAssumption, ReleaseTyped, NEW m \in Manager, Commands(m)
  PROVE  Quiet(m) \/ Links(m) \/ Remove(m) \/ Ends(m)
<1> USE DEF store, limits, session, Kept, Elsewhere
<1> TypeOK
  BY DEF ReleaseTyped
<1>0. /\ \A at : at \in At /\ op' = [op EXCEPT ![m].at = at] => Goes(m, at)
      /\ op' = [op EXCEPT ![m] = Idle] => Stops(m)
  BY GoesTo, StopsNow
<1>. stages \in 0..1 /\ ops \in 0..MaxOps
  BY DEF TypeOK
<1>1. CASE Asks(m)
  <2>1. ops' \in 0..MaxOps
    BY <1>1 DEF Asks, TypeOK, ReleaseAssumption
  <2> QED BY <1>1, <2>1, AsksMoves DEF Asks, Quiet
<1>2. CASE Stage(m)
  BY <1>0, <1>2 DEF Stage, Locks, Quiet, At, Places
<1>3. CASE NotNewer(m)
  BY <1>0, <1>3 DEF NotNewer, Quiet, Halts, Works
<1>4. CASE NoRollback(m)
  BY <1>0, <1>4 DEF NoRollback, Quiet, Halts, Works
<1>5. CASE Publish(m)
  <2>1. op[m].at = "publish" /\ op[m].version \in Version /\ op[m].build \in {"one", "two"}
    BY <1>5 DEF Publish, ReleaseTyped, Kinded, TypeOK
  <2>2. dir' \in [Version -> Contents] /\ dir'[op[m].version] \in {"one", "two"}
        /\ \A v \in Version : v # op[m].version \/ dir[v] # "none" => dir'[v] = dir[v]
    BY <1>5, <2>1 DEF Publish, TypeOK, Contents
  <2> QED BY <1>0, <1>5, <2>1, <2>2 DEF Publish, Links, At
<1>6. CASE PublishRefused(m)
  <2>1. Halts(m) /\ Works(m) /\ op[m].at # "switch" /\ lock' = None
    BY <1>0, <1>6 DEF PublishRefused, Done, Halts, Works
  <2>2. Kept /\ UNCHANGED <<marker, sitting, faults>> /\ slock' = slock
        /\ ops' \in 0..MaxOps /\ stages' \in 0..1
    BY <1>6 DEF PublishRefused
  <2> QED BY <2>1, <2>2, Zenon DEF Quiet
<1>7. CASE NoSwitch(m)
  BY <1>0, <1>7 DEF NoSwitch, Quiet, At
<1>8. CASE KeepPrevious(m)
  BY <1>0, <1>8 DEF KeepPrevious, AlreadyCurrent, Links, At
<1>9. CASE Switch(m)
  BY <1>0, <1>9 DEF Switch, Links, At
<1>10. CASE RollBack(m)
  BY <1>10, RollBackMoves DEF RollBack, Locks, CanRollBack, Links
<1>11. CASE RolledBack(m)
  BY <1>0, <1>11 DEF RolledBack, Links, At
<1>12. CASE StatusReads(m)
  BY <1>0, <1>12 DEF StatusReads, Locks, Quiet, At
<1>13. CASE Probe(m)
  BY <1>0, <1>13 DEF Probe, Quiet, At
<1>14. CASE Probed(m)
  <2>1. slock = m
    BY <1>14 DEF Probed, ReleaseTyped, Alone
  <2> QED BY <1>0, <1>14, <2>1 DEF Probed, Done, Quiet, Halts, Works, At
<1>15. CASE ReadMarker(m)
  <2>1. op[m].at = "collect" /\ slock # None /\ Kept /\ UNCHANGED <<marker, sitting, faults>>
        /\ slock' = slock /\ ops' \in 0..MaxOps /\ stages' \in 0..1
    BY <1>15 DEF ReadMarker
  <2>2. CASE op[m].kind = "status"
    <3>1. Halts(m) /\ Works(m) /\ op[m].at # "switch" /\ lock' = None
      BY <1>0, <1>15, <2>1, <2>2 DEF ReadMarker, Done, Halts, Works
    <3> QED BY <2>1, <3>1, Zenon DEF Quiet
  <2>3. CASE op[m].kind # "status"
    <3>1. op' = [op EXCEPT ![m].at = "remove", ![m].used = marker] /\ UNCHANGED lock
      BY <1>15, <2>3 DEF ReadMarker, InUse
    <3>2. Reads(m)
      BY <2>1, <3>1, UsesMarker
    <3> QED BY <2>1, <3>1, <3>2 DEF Quiet
  <2> QED BY <2>2, <2>3
<1>16. CASE Collected(m)
  <2>1. Halts(m) /\ Works(m) /\ op[m].at # "switch" /\ lock' = None
    BY <1>0, <1>16 DEF Collected, Done, Halts, Works
  <2>2. Kept /\ UNCHANGED <<marker, sitting, faults>> /\ slock' = slock
        /\ ops' \in 0..MaxOps /\ stages' \in 0..1
    BY <1>16 DEF Collected
  <2> QED BY <2>1, <2>2, Zenon DEF Quiet
<1> QED BY <1>1, <1>2, <1>3, <1>4, <1>5, <1>6, <1>7, <1>8, <1>9, <1>10, <1>11, <1>12, <1>13,
           <1>14, <1>15, <1>16
        DEF Commands

\* An end that is cut short, and a removal.
EndMoves(m) ==
  /\ Works(m) /\ Stops(m) /\ lock' = None /\ (slock' = slock \/ (slock = m /\ slock' = None))
  /\ stages' \in 0..1 /\ faults' \in 0..MaxFaults /\ cut' = TRUE
  /\ dir' \in [Version -> Contents]
  /\ \A v \in Version :
       dir'[v] = dir[v] \/ (op[m].at = "remove" /\ v \notin Spared(m) /\ dir'[v] = "bad")
  /\ UNCHANGED <<hurt, current, previous, marker, sitting, ops>>

LEMMA EndsMoves ==
  ASSUME ReleaseAssumption, TypeOK, NEW m \in Manager, Ends(m)
  PROVE  EndMoves(m)
<1>1. Stops(m) /\ lock' = None
  BY StopsNow DEF Ends, Done
<1>2. stages' \in 0..1 /\ faults' \in 0..MaxFaults /\ (slock' = slock \/ (slock = m /\ slock' = None))
  <2>1. stages \in 0..1 /\ faults \in 0..MaxFaults /\ MaxFaults \in Nat
    BY DEF TypeOK, ReleaseAssumption
  <2>2. stages' \in {stages, 1}
    BY DEF Ends
  <2>3. faults < MaxFaults /\ faults' = faults + 1 /\ slock' = (IF slock = m THEN None ELSE slock)
    BY DEF Ends
  <2> QED BY <2>1, <2>2, <2>3
<1>3. /\ dir' \in [Version -> Contents]
      /\ \A v \in Version :
           dir'[v] = dir[v] \/ (op[m].at = "remove" /\ v \notin Spared(m) /\ dir'[v] = "bad")
  <2>1. dir \in [Version -> Contents]
    BY DEF TypeOK
  <2>2. CASE UNCHANGED dir
    BY <2>1, <2>2
  <2>3. CASE op[m].at = "remove" /\ \E v \in Obsolete(m) : dir' = [dir EXCEPT ![v] = "bad"]
    BY <2>1, <2>3 DEF Obsolete, Contents
  <2> QED BY <2>2, <2>3 DEF Ends
<1> QED BY <1>1, <1>2, <1>3 DEF EndMoves, Ends, Works

LEMMA QuietTyped ==
  ASSUME ReleaseAssumption, ReleaseTyped, NEW m \in Manager, Quiet(m)
  PROVE  ReleaseTyped'
<1> USE DEF ReleaseAssumption, ReleaseTyped
<1>1. Only(m)
  BY DEF Quiet, Asked, Halts, Stops, Goes, Reads
<1>2. TypeOK'
  <2>1. op' \in [Manager -> Doing]
    BY <1>1 DEF Only
  <2>2. lock' \in Manager \cup {None} /\ slock' \in Manager \cup Sitting \cup {None}
    BY DEF Quiet, TypeOK
  <2> QED BY <2>1, <2>2 DEF Quiet, Kept, TypeOK, Doing
<1>3. Alone'
  BY <1>1 DEF Quiet, Kept, Only, Asked, Halts, Stops, Goes, Reads, Alone, Works
<1>4. Kinded'
  BY <1>1 DEF Quiet, Kept, Only, Asked, Halts, Stops, Goes, Reads, Kinded, Places
<1> QED BY <1>2, <1>3, <1>4

LEMMA LinksTyped ==
  ASSUME ReleaseAssumption, ReleaseTyped, NEW m \in Manager, Links(m)
  PROVE  ReleaseTyped'
<1> USE DEF ReleaseAssumption, ReleaseTyped
<1>1. Only(m)
  BY DEF Links, Goes, Exchanges
<1>2. TypeOK'
  <2>1. op' \in [Manager -> Doing]
    BY <1>1 DEF Only
  <2>2. lock' \in Manager \cup {None} /\ current' \in Link /\ previous' \in Link
        /\ dir' \in [Version -> Contents]
    <3>1. op[m].version \in Link
      BY DEF TypeOK
    <3> QED BY <3>1 DEF Links, TypeOK
  <2> QED BY <2>1, <2>2 DEF Links, Elsewhere, TypeOK, Doing
<1>3. Alone'
  BY <1>1 DEF Links, Elsewhere, Only, Goes, Exchanges, Alone, Works
<1>4. Kinded'
  BY <1>1 DEF Links, Elsewhere, Only, Goes, Exchanges, Kinded, Places
<1> QED BY <1>2, <1>3, <1>4

LEMMA OthersTyped ==
  ASSUME ReleaseAssumption, ReleaseTyped, NEW m \in Manager, Remove(m) \/ EndMoves(m)
  PROVE  ReleaseTyped'
<1> USE DEF ReleaseAssumption, ReleaseTyped
<1>1. CASE Remove(m)
  <2>1. TypeOK'
    <3>1. PICK v \in Version : dir' = [dir EXCEPT ![v] = "none"] /\ hurt' = hurt \ {v}
      BY <1>1 DEF Remove, Obsolete
    <3>2. dir' \in [Version -> Contents] /\ hurt' \subseteq Version
      BY <3>1 DEF TypeOK, Contents
    <3>3. UNCHANGED <<lock, current, previous, stages, op, slock, marker, sitting, cut, ops, faults>>
      BY <1>1 DEF Remove, session, limits
    <3> QED BY <3>2, <3>3 DEF TypeOK
  <2>2. Alone' /\ Kinded'
    BY <1>1 DEF Remove, Alone, Kinded, Works, session
  <2> QED BY <2>1, <2>2
<1>2. CASE EndMoves(m)
  <2>1. TypeOK'
    <3>1. op' \in [Manager -> Doing] /\ cut' \in BOOLEAN
      BY <1>2 DEF EndMoves, Stops, Only
    <3>2. slock' \in Manager \cup Sitting \cup {None}
      BY <1>2 DEF EndMoves, TypeOK
    <3> QED BY <1>2, <3>1, <3>2 DEF EndMoves, TypeOK, Doing
  <2>2. Alone' /\ Kinded'
    BY <1>2 DEF EndMoves, Stops, Only, Alone, Kinded, Works, Places
  <2> QED BY <2>1, <2>2
<1> QED BY <1>1, <1>2

LEMMA SessionsTyped ==
  ASSUME ReleaseAssumption, ReleaseTyped, NEW s \in Sitting, Sessions(s)
  PROVE  ReleaseTyped'
<1> USE DEF ReleaseAssumption, ReleaseTyped, Alone, Kinded, Works, Places,
            store, limits, session, Link, TypeOK
<1>1. CASE StartsFrom(s)
  BY <1>1 DEF StartsFrom
<1>2. CASE acquireSessionLock(s)
  BY <1>2 DEF acquireSessionLock
<1>3. CASE AlreadyOpen(s)
  BY <1>3 DEF AlreadyOpen
<1>4. CASE markSessionRelease(s)
  <2> DEFINE linked == sitting[s].from \in {current, previous}
  <2>1. PICK t \in BOOLEAN : sitting' = [sitting EXCEPT ![s].at = "open", ![s].linked = t]
    <3>1. linked \in BOOLEAN
      BY SMT
    <3>2. sitting' = [sitting EXCEPT ![s].at = "open", ![s].linked = linked]
      BY <1>4, Zenon DEF markSessionRelease
    <3> HIDE DEF linked
    <3> QED BY <3>1, <3>2, Zenon
  <2>2. sitting[s].at = "locked" /\ marker' = sitting[s].from
        /\ UNCHANGED <<lock, store, stages, op, slock, cut, limits>>
    BY <1>4 DEF markSessionRelease
  <2>3. marker' \in Link
    BY <2>2
  <2>4. sitting' \in [Sitting -> [at : {"out", "started", "locked", "open", "refused"}, from : Link,
                                  linked : BOOLEAN]]
    <3>1. sitting \in [Sitting -> [at : {"out", "started", "locked", "open", "refused"}, from : Link,
                                   linked : BOOLEAN]]
      BY Zenon
    <3> HIDE DEF TypeOK, Link
    <3> QED BY <2>1, <3>1, ZenonT(30)
  <2>5. TypeOK'
    BY <2>2, <2>3, <2>4, Zenon
  <2> QED BY <2>1, <2>2, <2>5
<1>5. CASE Closes(s)
  BY <1>5 DEF Closes
<1>6. CASE Leaves(s)
  BY <1>6 DEF Leaves
<1> QED BY <1>1, <1>2, <1>3, <1>4, <1>5, <1>6 DEF Sessions
-----------------------------------------------------------------------------
(* The links.                                                               *)

\* A step at which no version is linked or removed.
LEMMA QuietLinks ==
  ASSUME ReleaseAssumption, ReleaseTyped, LinksHold, Turns, StillNewer, NEW m \in Manager, Quiet(m)
  PROVE  (LinksHold /\ Turns /\ StillNewer)'
<1>1. Only(m) /\ Kept /\ op[m].at # "switch" /\ op'[m].at \notin {"keep", "switch"}
  BY DEF Quiet, Asked, Halts, Stops, Goes, Reads, Works
<1>2. op'[m].at = "publish" /\ op'[m].kind = "update" => Newer(op'[m].version)
  BY DEF Quiet, Asked, Halts, Stops, Goes, Reads
<1>3. LinksHold'
  BY <1>1 DEF Only, Kept, LinksHold, Whole, Valid
<1>4. Turns'
  BY <1>1 DEF Only, Kept, Turns, Turning
<1>5. StillNewer'
  BY <1>1, <1>2 DEF Only, Kept, StillNewer, Newer
<1> QED BY <1>3, <1>4, <1>5

LEMMA LinksLinks ==
  ASSUME ReleaseAssumption, ReleaseTyped, LinksHold, Turns, StillNewer, NEW m \in Manager, Links(m)
  PROVE  (LinksHold /\ Turns /\ StillNewer)'
<1>1. /\ Only(m) /\ UNCHANGED <<hurt, cut>>
      /\ \A n \in Manager : n # m => op'[n].at \in {"idle", "waiting"}
  BY DEF Links, Elsewhere, Only, Goes, Exchanges, ReleaseTyped, Alone, Works, ReleaseAssumption
<1>2. current \in Link /\ previous \in Link /\ (op[m].at = "publish" => op[m].version \in Version)
      /\ (op[m].at \in {"keep", "switch"} /\ op[m].kind # "rollback" => op[m].version \in Version)
      /\ (op[m].at = "keep" => op[m].kind # "rollback")
  BY DEF ReleaseTyped, TypeOK, Kinded, Places
<1>3. LinksHold'
  <2>1. \A v \in Link : Whole(v) => Whole(v)'
    BY DEF Links, Elsewhere, Whole, Valid, Link
  <2>2. Whole(current') /\ Whole(previous')
    BY DEF Links, LinksHold, Exchanges
  <2>3. current' \in Link /\ previous' \in Link /\ op'[m].version \in Link
    BY <1>1, LinksTyped DEF ReleaseTyped, TypeOK
  <2>4. ASSUME NEW v \in Link, v = op'[m].version, op'[m].at \in {"keep", "switch"}
        PROVE  Whole(v)'
    <3>1. CASE op[m].at = "publish"
      <4>1. dir'[v] \in {"one", "two"}
        BY <2>4, <3>1 DEF Links, Goes, Exchanges
      <4> QED BY <4>1 DEF Whole, Valid
    <3>2. CASE op[m].at # "publish"
      <4>1. Whole(v)
        BY <2>4, <3>2 DEF Links, Goes, Exchanges, LinksHold
      <4> QED BY <4>1, <2>1
    <3> QED BY <3>1, <3>2
  <2> QED BY <1>1, <2>1, <2>2, <2>3, <2>4 DEF LinksHold
<1>4. Turns'
  <2>1. \A n \in Manager : op[n].at = "switch" => n = m
    BY <1>1 DEF Only
  <2>2. CASE op'[m].at # "switch"
    <3>1. \A n \in Manager : op'[n].at # "switch"
      BY <1>1, <2>2
    <3>2. (current' = None => previous' = None) /\ (~cut' /\ current' # None => previous' # current')
      <4>1. CASE op[m].at = "publish"
        <5>1. UNCHANGED <<current, previous>> /\ \A n \in Manager : op[n].at # "switch"
          BY <2>1, <4>1 DEF Links, Exchanges
        <5> QED BY <1>1, <5>1 DEF Turns
      <4>2. CASE op[m].at = "switch" /\ op[m].kind = "rollback"
        <5>1. current # None /\ op[m].version # None /\ (~cut => op[m].version # current)
          BY <4>2 DEF Turns, Turning
        <5>2. previous' = op[m].version /\ UNCHANGED current
          BY <2>2, <4>2, <5>1 DEF Links, Exchanges
        <5> QED BY <1>1, <5>1, <5>2 DEF Turns
      <4>4. CASE op[m].at = "switch" /\ op[m].kind # "rollback"
        <5>1. current # op[m].version /\ (current # None => previous = current)
          BY <4>4 DEF Turns, Turning
        <5>2. current' = op[m].version /\ UNCHANGED previous
          BY <2>2, <4>4 DEF Links, Exchanges
        <5> QED BY <1>1, <1>2, <4>4, <5>1, <5>2 DEF Turns, ReleaseAssumption
      <4>3. op[m].at \in {"publish", "switch"}
        BY <2>2 DEF Links, Goes, Exchanges
      <4> QED BY <4>1, <4>2, <4>3, <4>4
    <3> QED BY <3>1, <3>2 DEF Turns, Turning
  <2>3. CASE op'[m].at = "switch"
    BY <1>1, <1>2, <2>1, <2>3 DEF Links, Goes, Exchanges, Turns, Turning, ReleaseAssumption, Link
  <2> QED BY <2>2, <2>3
<1>5. StillNewer'
  BY <1>1, <1>2 DEF Links, Only, Goes, Exchanges, StillNewer, Newer
<1> QED BY <1>3, <1>4, <1>5

LEMMA OthersLinks ==
  ASSUME ReleaseAssumption, ReleaseTyped, LinksHold, Turns, StillNewer,
         NEW m \in Manager, Remove(m) \/ EndMoves(m)
  PROVE  (LinksHold /\ Turns /\ StillNewer)'
<1>1. CASE Remove(m)
  <2>1. PICK v \in Version : v \notin {current, previous} /\ dir' = [dir EXCEPT ![v] = "none"]
                             /\ hurt' = hurt \ {v}
    BY <1>1 DEF Remove, Obsolete, Spared
  <2>2. UNCHANGED <<current, previous, op, cut>> /\ dir \in [Version -> Contents]
        /\ current \in Link /\ previous \in Link
    BY <1>1 DEF Remove, ReleaseTyped, TypeOK
  <2>3. \A n \in Manager : op[n].at \notin {"keep", "switch"}
    BY <1>1 DEF Remove, ReleaseTyped, Alone, Works
  <2>4. LinksHold'
    BY <2>1, <2>2, <2>3 DEF LinksHold, Whole, Valid, Link
  <2> QED BY <2>2, <2>4 DEF Turns, Turning, StillNewer, Newer
<1>2. CASE EndMoves(m)
  <2>1. \A n \in Manager : op'[n].at \in {"idle", "waiting"}
    BY <1>2 DEF EndMoves, Stops, Only, ReleaseTyped, Alone, Works
  <2>2. UNCHANGED <<hurt, current, previous>> /\ cut' = TRUE
    BY <1>2 DEF EndMoves
  <2>3. Whole(current)' /\ Whole(previous)'
    <3>1. current \in Link /\ previous \in Link
      BY DEF ReleaseTyped, TypeOK
    <3> QED BY <1>2, <2>2, <3>1 DEF EndMoves, Spared, LinksHold, Whole, Valid, Link
  <2> QED BY <2>1, <2>2, <2>3 DEF LinksHold, Turns, Turning, StillNewer
<1> QED BY <1>1, <1>2

LEMMA SessionsLinks ==
  ASSUME LinksHold, Turns, StillNewer, NEW s \in Sitting, Sessions(s)
  PROVE  (LinksHold /\ Turns /\ StillNewer)'
BY DEF Sessions, StartsFrom, acquireSessionLock, AlreadyOpen, markSessionRelease, Closes, Leaves,
   LinksHold, Whole, Valid, Turns, Turning, StillNewer, Newer, store, limits, session

LEMMA DamageLinks ==
  ASSUME ReleaseAssumption, ReleaseInv, NEW v \in Version, Damage(v)
  PROVE  ReleaseInv'
<1>1. ReleaseTyped'
  BY DEF ReleaseAssumption, ReleaseInv, ReleaseTyped, TypeOK, Alone, Kinded, Works, Places, Damage,
     Contents, session
<1>2. (LinksHold /\ Turns /\ StillNewer)'
  BY DEF ReleaseInv, ReleaseTyped, TypeOK, Damage, LinksHold, Whole, Valid, Turns, Turning,
     StillNewer, Newer
<1>3. (Spares /\ RunningKept)'
  BY DEF ReleaseInv, ReleaseTyped, TypeOK, Damage, Valid, Spares, Keeps, Spared, RunningKept, session
<1> QED BY <1>1, <1>2, <1>3 DEF ReleaseInv

-----------------------------------------------------------------------------
(* The versions sessions run from.                                          *)

LEMMA CommandsSpare ==
  ASSUME ReleaseAssumption, ReleaseInv, NEW m \in Manager,
         Quiet(m) \/ Links(m) \/ Remove(m) \/ EndMoves(m)
  PROVE  (Spares /\ RunningKept)'
<1> USE DEF ReleaseInv
<1>1. UNCHANGED <<marker, sitting>>
  BY DEF Quiet, Links, Elsewhere, Remove, EndMoves, session
<1>2. CASE Quiet(m)
  <2>1. Only(m) /\ Kept
    BY <1>2 DEF Quiet, Asked, Halts, Stops, Goes, Reads
  <2>2. ASSUME op'[m].at = "remove", NEW s \in Sitting, Keeps(s)
        PROVE  sitting[s].from = op'[m].used
    <3>1. slock = s
      BY <2>2 DEF Keeps, ReleaseTyped, Alone
    <3>2. op[m].at # "probing"
      BY <3>1 DEF ReleaseTyped, Alone, ReleaseAssumption
    <3>3. Reads(m)
      BY <1>2, <2>2, <3>2 DEF Quiet, Asked, Halts, Stops, Goes
    <3> QED BY <2>2, <3>3 DEF Reads, Keeps
  <2> QED BY <1>1, <2>1, <2>2 DEF Only, Kept, Spares, Keeps, Spared, RunningKept
<1>3. CASE Links(m)
  <2>1. \A n \in Manager : op'[n].at # "remove"
    BY <1>3 DEF Links, Only, Goes, Exchanges, ReleaseTyped, Alone, Works, ReleaseAssumption
  <2>2. \A v \in Version : dir[v] # "none" => dir'[v] # "none"
    BY <1>3 DEF Links
  <2>3. \A s \in Sitting : sitting[s].at = "open" => sitting[s].from \in Version
    BY DEF ReleaseTyped, Kinded
  <2> QED BY <1>1, <2>1, <2>2, <2>3 DEF Spares, RunningKept
<1>4. CASE Remove(m)
  <2>1. PICK v \in Version : v \notin Spared(m) /\ dir' = [dir EXCEPT ![v] = "none"]
    BY <1>4 DEF Remove, Obsolete
  <2>2. dir \in [Version -> Contents] /\ UNCHANGED <<op, current, previous>> /\ op[m].at = "remove"
    BY <1>4 DEF Remove, ReleaseTyped, TypeOK
  <2> QED BY <1>1, <2>1, <2>2 DEF Spares, Keeps, Spared, RunningKept
<1>5. CASE EndMoves(m)
  <2>1. \A n \in Manager : op'[n].at # "remove"
    BY <1>5 DEF EndMoves, Stops, Only, ReleaseTyped, Alone, Works
  <2>2. \A v \in Version : dir'[v] \in {dir[v], "bad"}
    BY <1>5 DEF EndMoves
  <2>3. \A s \in Sitting : sitting[s].at = "open" => sitting[s].from \in Version
    BY DEF ReleaseTyped, Kinded
  <2> QED BY <1>1, <2>1, <2>2, <2>3 DEF Spares, RunningKept
<1> QED BY <1>2, <1>3, <1>4, <1>5

LEMMA SessionsSpare ==
  ASSUME ReleaseAssumption, ReleaseInv, NEW s \in Sitting, Sessions(s)
  PROVE  (Spares /\ RunningKept)'
<1> USE DEF ReleaseAssumption, ReleaseInv, ReleaseTyped, TypeOK, Alone, Kinded, Works, Link,
            Spares, Keeps, Spared, RunningKept, store, limits, session
<1>1. CASE StartsFrom(s)
  BY <1>1 DEF StartsFrom
<1>2. CASE acquireSessionLock(s)
  BY <1>2 DEF acquireSessionLock
<1>3. CASE AlreadyOpen(s)
  BY <1>3 DEF AlreadyOpen
<1>4. CASE markSessionRelease(s)
  BY <1>4 DEF markSessionRelease, LinksHold, Whole
<1>5. CASE Closes(s)
  BY <1>5 DEF Closes
<1>6. CASE Leaves(s)
  BY <1>6 DEF Leaves
<1> QED BY <1>1, <1>2, <1>3, <1>4, <1>5, <1>6 DEF Sessions

LEMMA NextReleased ==
  ASSUME ReleaseAssumption, ReleaseInv, [Next]_vars
  PROVE  ReleaseInv'
<1>1. CASE \E m \in Manager : Commands(m)
  <2> SUFFICES ASSUME NEW m \in Manager, Commands(m) PROVE ReleaseInv'
    BY <1>1
  <2>1. CASE Quiet(m)
    BY <2>1, QuietTyped, QuietLinks, CommandsSpare DEF ReleaseInv
  <2>2. CASE Links(m)
    BY <2>2, LinksTyped, LinksLinks, CommandsSpare DEF ReleaseInv
  <2>3. CASE Remove(m) \/ EndMoves(m)
    BY <2>3, OthersTyped, OthersLinks, CommandsSpare DEF ReleaseInv
  <2>4. Quiet(m) \/ Links(m) \/ Remove(m) \/ EndMoves(m)
    BY CommandMoves, EndsMoves DEF ReleaseInv, ReleaseTyped
  <2> QED BY <2>1, <2>2, <2>3, <2>4
<1>2. CASE \E v \in Version : Damage(v)
  BY <1>2, DamageLinks
<1>3. CASE \E s \in Sitting : Sessions(s)
  BY <1>3, SessionsTyped, SessionsLinks, SessionsSpare DEF ReleaseInv
<1>4. CASE UNCHANGED vars
  <2>1. ReleaseTyped'
    BY <1>4 DEF vars, ReleaseInv, ReleaseTyped, TypeOK, Alone, Kinded, Works
  <2>2. (LinksHold /\ Turns /\ StillNewer)'
    BY <1>4 DEF vars, ReleaseInv, LinksHold, Whole, Valid, Turns, Turning, StillNewer, Newer
  <2>3. (Spares /\ RunningKept)'
    BY <1>4 DEF vars, ReleaseInv, Spares, Keeps, Spared, RunningKept
  <2> QED BY <2>1, <2>2, <2>3 DEF ReleaseInv
<1> QED BY <1>1, <1>2, <1>3, <1>4 DEF Next

-----------------------------------------------------------------------------
(* The theorems.                                                            *)

THEOREM ReleaseInvariance ==
  ASSUME ReleaseAssumption
  PROVE  Spec => []ReleaseInv
<1>1. Init => ReleaseInv
  BY InitReleased
<1>2. ReleaseInv /\ [Next]_vars => ReleaseInv'
  BY NextReleased
<1> QED BY <1>1, <1>2, PTL DEF Spec

\* Every variable keeps its type.
THEOREM ReleaseTypeCorrect ==
  ASSUME ReleaseAssumption
  PROVE  Spec => []TypeOK
<1>1. ReleaseInv => TypeOK
  BY DEF ReleaseInv, ReleaseTyped
<1> QED BY <1>1, ReleaseInvariance, PTL

\* Both links name complete versions, at every step and after every kill
\* (release.go:401, switchTo; :531, collect).
THEOREM LinksAreWhole ==
  ASSUME ReleaseAssumption
  PROVE  Spec => []LinksWhole
<1>1. ReleaseInv => LinksWhole
  BY DEF ReleaseInv, LinksHold, Whole, LinksWhole
<1> QED BY <1>1, ReleaseInvariance, PTL

\* A session keeps the folder it runs from (release.go:507).
THEOREM RunningIsKept ==
  ASSUME ReleaseAssumption
  PROVE  Spec => []RunningKept
<1>1. ReleaseInv => RunningKept
  BY DEF ReleaseInv
<1> QED BY <1>1, ReleaseInvariance, PTL

\* A rollback has another version to go to (release.go:416).
THEOREM RollbackIsPossible ==
  ASSUME ReleaseAssumption
  PROVE  Spec => []Undoable
<1>1. ReleaseAssumption /\ ReleaseInv => Undoable
  BY DEF ReleaseAssumption, ReleaseInv, ReleaseTyped, Alone, Works, Turns, Undoable
<1> QED BY <1>1, ReleaseInvariance, PTL

\* All three at once, over every kill and command (release.go:401, :416, :507).
THEOREM VersionsAreWhole ==
  ASSUME ReleaseAssumption
  PROVE  Spec => []VersionsWhole
<1>1. LinksWhole /\ RunningKept /\ Undoable => VersionsWhole
  BY DEF VersionsWhole
<1> QED BY <1>1, LinksAreWhole, RunningIsKept, RollbackIsPossible, PTL

\* An update puts no older version in place (release.go:195).
THEOREM UpdatesGoForward ==
  ASSUME ReleaseAssumption
  PROVE  Spec => [][NeverOlder]_vars
<1>1. ASSUME ReleaseInv, [Next]_vars PROVE NeverOlder
  <2> USE DEF ReleaseInv, ReleaseTyped, Alone, Works, NeverOlder, store, limits, session
  <2>1. CASE \E m \in Manager : Switch(m)
    BY <1>1, <2>1 DEF Switch, StillNewer, Newer
  <2>2. CASE \E m \in Manager : RollBack(m)
    BY <2>2 DEF RollBack, Locks
  <2>3. CASE \E m \in Manager : Commands(m) /\ ~Switch(m) /\ ~RollBack(m)
    BY <2>3 DEF Commands, Asks, Stage, NotNewer, Publish, PublishRefused, NoSwitch, KeepPrevious,
       NoRollback, RolledBack, StatusReads, Probe, Probed, ReadMarker, Remove, Collected, Ends
  <2>4. CASE (\E v \in Version : Damage(v)) \/ (\E s \in Sitting : Sessions(s)) \/ UNCHANGED vars
    BY <2>4 DEF Damage, Sessions, StartsFrom, acquireSessionLock, AlreadyOpen, markSessionRelease,
       Closes, Leaves, vars
  <2> QED BY <1>1, <2>1, <2>2, <2>3, <2>4 DEF Next
<1> QED BY <1>1, ReleaseInvariance, PTL DEF Spec
=============================================================================
