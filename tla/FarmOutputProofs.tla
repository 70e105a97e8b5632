-------------------------- MODULE FarmOutputProofs --------------------------
(***************************************************************************)
(* Proofs about Farm: what is mounted is what the game sees, what the game *)
(* or a tool wrote through the farm is never lost, and what Steam changed  *)
(* under mods is always marked.                                            *)
(*                                                                         *)
(* MInv, on top of the invariants of FarmProofs, is about the farm that is *)
(* live.  OInv says where output can be (OutWorld), that a folder about to *)
(* be removed, retired or exchanged was captured (DataCaptured), and that  *)
(* the marker of an unverified game is set by the time the farm is no      *)
(* longer live (MarkedUnlessLive, SteamRecorded).  OInv holds where the    *)
(* game writes only while no operation runs (WriteWindows = {}): the       *)
(* daemon refuses to start an operation while the game or a tool runs, and *)
(* a tool it did not start is outside its reach.                           *)
(***************************************************************************)
EXTENDS FarmProofs

(* The game sees the farm the daemon reports.  The manager says which      *)
(* layers are deployed; the folder at Data says what the game sees.        *)
(* LiveFarm relates the two in every state without a teardown on record:   *)
(* it is MountedIsLive without the condition that no operation runs.  It   *)
(* is kept because the steps of an apply and of a profile switch always    *)
(* know which of the two farms they exchange is at Data (Exchanging,       *)
(* KeptFarm), an activation knows what it built (Activates), and every     *)
(* other operation runs unmounted, under a journal or with a recovery      *)
(* pending (MountedWhen).                                                  *)

(* The steps of an apply or a profile switch, those outside every mount,   *)
(* and those of a teardown and of a restore.                               *)
ApplySteps == {"p_capture", "p_build", "p_seal", "p_intent", "p_unstage", "p_swap",
               "p_back", "p_unswap", "p_unintent", "p_remove", "p_clear"}
UnmountedSteps == {"off", "c_start"} \cup ActivateSteps \cup RollBackSteps \cup RecoverySteps
TeardownSteps == {"r_capture", "r_begin"} \cup JournalSteps
RestoreSteps == {"x_capture", "x_remove", "x_rename"} \cup FinishSteps

(* The folder of a place is a farm of these layers.                        *)
Holds(p, l) == HasSentinel(dir, ns[p]) /\ dir[ns[p]].layers = l

(* Without a teardown on record, a mounted manager has a farm at Data      *)
(* unless a recovery is pending, and a clean report names its layers.      *)
LiveFarm ==
  mgr.mounted /\ NoTeardown =>
    /\ outcome # "pending" => DataIsFarm
    /\ DataIsFarm /\ ~mgr.dirty => dir[ns.data].layers = mgr.applied

(* Which operations a mounted manager can be in.                           *)
MountedWhen ==
  /\ pc \in UnmountedSteps \ {"off"} => op.name \in {"activate", "cleanup"}
  /\ pc \in RecoverySteps \cup {"c_start"} => op.name = "cleanup"
  /\ pc \in UnmountedSteps \/ op.name \in {"activate", "cleanup"} => ~mgr.mounted
  /\ pc \in TeardownSteps =>
       op.name = "cleanup" \/ (op.name = "deactivate" /\ op.orig = Original)
  /\ pc \in RestoreSteps => op.name \in {"cleanup", "restore"}
  /\ pc \in RestoreSteps /\ mgr.mounted => outcome = "pending"
  /\ pc \in {"x_remove", "x_rename"} => ns.restoring # None

(* An activation has the original at Data.orig and what it built at Data.  *)
Activates ==
  /\ pc = "a_rename" => ns.data # None
  /\ pc \in {"a_mkdir", "a_record", "a_build", "a_seal", "a_clear"} => ns.orig # None
  /\ pc = "a_clear" => Holds("data", op.layers)

(* An exchange starts from a live farm that is reported dirty, never has   *)
(* both names on one folder, and has the new farm at staging before the    *)
(* swap, at Data after it.                                                 *)
Exchanging ==
  /\ pc \in ApplySteps => /\ op.name \in {"apply", "retarget"}
                          /\ mgr.mounted /\ mgr.dirty /\ DataIsFarm
                          /\ ns.staging # ns.data
  /\ pc \in {"p_intent", "p_swap"} => Holds("staging", op.layers)
  /\ pc \in {"p_back", "p_remove", "p_clear"} => Holds("data", op.layers)
  /\ pc = "p_back" => HasSentinel(dir, ns.staging)

(* A switch that may be taken back still has the farm of the old report.   *)
KeptFarm ==
  op.name = "retarget" /\ NoTeardown /\ ~op.prev.dirty =>
    /\ pc \in ApplySteps \ {"p_back", "p_remove", "p_clear"} => Holds("data", op.prev.applied)
    /\ pc = "p_back" => Holds("staging", op.prev.applied)

(* The invariant about the live farm.                                      *)
MInv == LiveFarm /\ MountedWhen /\ Activates /\ Exchanging /\ KeptFarm

(* A place keeps its folder, and the folder its farm.                      *)
SameFarm(p) ==
  /\ ns'[p] = ns[p]
  /\ ns[p] # None => /\ dir'[ns[p]].meta = dir[ns[p]].meta
                     /\ dir'[ns[p]].layers = dir[ns[p]].layers

(* What a call keeps that neither moves Data nor records a teardown.       *)
SameData ==
  /\ SameFarm("data")
  /\ ns'.orig = ns.orig /\ ns'.journal = ns.journal /\ ns'.restoring = ns.restoring

(* What these mean for the invariant.                                      *)
LEMMA FarmsSeen ==
  /\ \A p \in Places : SameFarm(p) => /\ HasSentinel(dir, ns[p])' <=> HasSentinel(dir, ns[p])
                                      /\ \A l : Holds(p, l)' <=> Holds(p, l)
  /\ SameData => /\ DataIsFarm' <=> DataIsFarm
                 /\ NoTeardown' <=> NoTeardown
                 /\ LiveFarm /\ mgr' = mgr /\ outcome' \in {outcome, "pending"} => LiveFarm'
BY DEF SameFarm, SameData, HasSentinel, Holds, DataIsFarm, ValidFarm, NoTeardown,
   LiveFarm,
   Places

(* A call that fails without effect.                                       *)
LEMMA MountStay ==
  ASSUME Stay
  PROVE  SameData /\ SameFarm("staging") /\ ns' = ns
BY DEF Stay, Keep, SameData, SameFarm

(* A record of an activation or of an apply.                               *)
LEMMA MountRecord ==
  ASSUME WorldOK, NEW r \in {"activating", "applying"}, NEW v,
         RecordOk(r, v) \/ RecordFails(r, v)
  PROVE  SameData /\ SameFarm("staging")
BY DEF RecordOk, RecordFails, Keep, SameData, SameFarm, WorldOK, DiskOK, Namespaces

(* A capture moves output, not the farm.                                   *)
LEMMA MountCapture ==
  ASSUME WorldOK, NEW p \in Places, NEW opts, NEW marker,
         Captured(p, opts, marker) \/ CaptureFails(p, opts)
  PROVE  SameData /\ SameFarm("staging") /\ ns' = ns
<1>1. ns' = ns /\ \A d \in Dirs : dir'[d].meta = dir[d].meta /\ dir'[d].layers = dir[d].layers
  BY CaptureEffect
<1>2. \A q \in Places : ns[q] \in Dirs \cup {None}
  BY DEF WorldOK, DiskOK, Namespaces, OptDirs, Places
<1> QED BY <1>1, <1>2 DEF SameData, SameFarm, Places

(* The removal of what is at staging, when that is another folder.         *)
LEMMA MountErase ==
  ASSUME WorldOK, NEW p \in Places \ {"data", "orig"}, ns[p] = None \/ ns[p] # ns.data,
         EraseOk(p) \/ EraseFails(p) \/ EraseAndSyncFails(p)
  PROVE  /\ SameData
         /\ ns'[p] \in {None, ns[p]}
<1>1. /\ ns' = ns \/ ns' = [ns EXCEPT ![p] = None]
      /\ \A d \in Dirs : d # ns[p] => dir'[d] = dir[d]
  BY EraseEffect
<1>2. ns \in Namespaces /\ (ns.data # None => ns.data \in Dirs)
  BY DEF WorldOK, DiskOK, Namespaces, OptDirs
<1> QED BY <1>1, <1>2 DEF SameData, SameFarm, Namespaces, Places

(***************************************************************************)
(* One lemma per group of actions.                                         *)
(***************************************************************************)
(* An activation is unmounted until it has built the farm it reports.      *)
LEMMA MountActivate ==
  ASSUME IInv, RInv, GInv, MInv, Activate
  PROVE  MInv'
<1> USE DEF MInv, MountedWhen, Activates, Exchanging, KeptFarm, UnmountedSteps,
     ActivateSteps,
        RollBackSteps, RecoverySteps, ReconcileSteps, TeardownSteps, JournalSteps,
        RestoreSteps, FinishSteps, ApplySteps
<1> USE DEF Go, Fail, End, control
<1>0. /\ WorldOK /\ ns \in Namespaces /\ op \in Locals /\ Home /\ Original # None
      /\ dir \in [Dirs -> Content] /\ NoOp.name = "none"
      /\ (ns.data # None => ns.data \in Dirs)
  BY IdentityAssumption DEF IInv, WorldOK, DiskOK, Steered, ControlOK, NoOp,
     Namespaces, OptDirs
<1>m. /\ pc \in ActivateSteps => op.name = "activate" /\ ~mgr.mounted
      /\ pc \in {"a_record", "a_build", "a_seal"} => ns.data # None
  BY DEF RInv, ChecksPassed, GInv, DataIsOurs, OwnDataSteps
<1>u. ASSUME mgr' = mgr, ~mgr.mounted PROVE LiveFarm'
  BY <1>u DEF LiveFarm
<1>1. CASE ABegin
  BY <1>0, <1>1, <1>u DEF ABegin, CanActivate, RecordOk, RecordFails, Namespaces, NoOp
<1>2. CASE ARename
  BY <1>0, <1>m, <1>2, <1>u DEF ARename, MoveOk, MoveFails, Moved, Stay, Namespaces
<1>3. CASE AAbort
  BY <1>0, <1>m, <1>3, <1>u DEF AAbort, MgrAfterError
<1>4. CASE AMkdir
  BY <1>0, <1>m, <1>4, <1>u DEF AMkdir, MakeOk, Made, Stay, Namespaces, Locals
<1>5. CASE ARecord
  BY <1>0, <1>m, <1>5, <1>u DEF ARecord, RecordOk, RecordFails, Namespaces
<1>6. CASE ABuild
  BY <1>0, <1>m, <1>6, <1>u DEF ABuild, Filled, Stay
<1>7. CASE ASeal
  <2>1. /\ ~mgr.mounted /\ mgr' = mgr /\ op' = op /\ op.name = "activate"
        /\ ns' = ns /\ ns.orig # None
        /\ pc' \in {"a_clear", "b_check"}
    BY <1>m, <1>7 DEF ASeal, Filled, Stay
  <2>2. CASE pc' = "b_check"
    BY <1>m, <1>7, <1>u, <2>1, <2>2
  <2>3. CASE pc' = "a_clear"
    <3>1. dir' = [dir EXCEPT ![ns.data] = FarmDir(op.layers)]
      BY <1>7, <2>3 DEF ASeal, Filled
    <3>2. Holds("data", op.layers)'
      BY <1>0, <1>m, <1>7, <2>1, <3>1 DEF ASeal, Holds, HasSentinel, FarmDir
    <3> QED BY <1>m, <1>7, <1>u, <2>1, <2>3, <3>2
  <2> QED BY <2>1, <2>2, <2>3
<1>8. CASE AClear
  <2>1. SameData
    BY <1>0, <1>8, MountRecord DEF AClear
  <2>2. mgr' = Mounted(op.layers) /\ pc' = "idle" /\ op' = NoOp
    BY <1>8 DEF AClear
  <2>3. DataIsFarm' /\ dir'[ns'.data].layers = op.layers
    BY <1>0, <1>8, <2>1, FarmsSeen DEF AClear, Holds, DataIsFarm, ValidFarm, SameData,
       Places
  <2>4. LiveFarm'
    BY <2>2, <2>3 DEF LiveFarm, Mounted
  <2> QED BY <1>0, <2>2, <2>4
<1> QED BY <1>1, <1>2, <1>3, <1>4, <1>5, <1>6, <1>7, <1>8 DEF Activate

(* A roll-back runs unmounted.                                             *)
LEMMA MountRollBack ==
  ASSUME IInv, RInv, GInv, MInv, RollBack
  PROVE  MInv'
<1> USE DEF MInv, MountedWhen, Activates, Exchanging, KeptFarm, UnmountedSteps,
     ActivateSteps,
        RollBackSteps, RecoverySteps, ReconcileSteps, TeardownSteps, JournalSteps,
        RestoreSteps, FinishSteps, ApplySteps
<1> USE DEF Go, Fail, End, control
<1>0. NoOp.name = "none" /\ Unmounted.mounted = FALSE
  BY DEF NoOp, Unmounted
<1>1. ~mgr.mounted /\ pc \in RollBackSteps
  BY DEF RollBack, BCheck, BRemove, BRename, BClear
<1>2. ~mgr'.mounted /\ (pc' = "idle" => op' = NoOp) /\ (pc' # "idle" => op' = op)
      /\ pc' \in RollBackSteps \cup {"idle"}
  <2>1. op.name \in {"activate", "cleanup"} /\ MgrAfterError = mgr
    BY <1>1 DEF MgrAfterError
  <2> HIDE DEF MgrAfterError
  <2>2. CASE BCheck
    BY <1>1, <2>1, <2>2 DEF BCheck
  <2>3. CASE BRemove
    BY <1>1, <2>1, <2>3 DEF BRemove
  <2>4. CASE BRename
    BY <1>1, <2>1, <2>4 DEF BRename
  <2>5. CASE BClear
    BY <1>0, <1>1, <2>1, <2>5 DEF BClear, Restored
  <2> QED BY <2>2, <2>3, <2>4, <2>5 DEF RollBack
<1>3. LiveFarm'
  BY <1>2 DEF LiveFarm
<1> QED BY <1>0, <1>1, <1>2, <1>3

(* An exchange always knows which of its two farms is at Data.             *)
LEMMA MountApply ==
  ASSUME IInv, RInv, GInv, MInv, MarkDirty \/ Apply
  PROVE  MInv'
<1> USE DEF MInv, MountedWhen, Activates, Exchanging, KeptFarm, UnmountedSteps,
     ActivateSteps,
        RollBackSteps, RecoverySteps, ReconcileSteps, TeardownSteps, JournalSteps,
        RestoreSteps, FinishSteps, ApplySteps
<1> USE DEF Go, Fail, End, control
<1>0. /\ WorldOK /\ ns \in Namespaces /\ op \in Locals /\ mgr \in Managers
      /\ dir \in [Dirs -> Content] /\ NoOp.name = "none" /\ None \notin Dirs
      /\ ns.data \in Dirs \cup {None} /\ ns.staging \in Dirs \cup {None}
  BY IdentityAssumption DEF IInv, WorldOK, DiskOK, Steered, ControlOK, NoOp,
     Namespaces, OptDirs,
     Dirs
<1>1. CASE MarkDirty
  <2>1. SameData /\ SameFarm("staging")
    BY <1>1, MountStay DEF MarkDirty
  <2>2. mgr'.mounted = mgr.mounted /\ mgr'.dirty /\ pc' = pc /\ pc = "idle" /\ op' = op
        /\ outcome' = outcome
    BY <1>0, <1>1 DEF MarkDirty, Managers
  <2>3. LiveFarm'
    BY <2>1, <2>2, FarmsSeen DEF LiveFarm
  <2> QED BY <2>2, <2>3
<1>2. CASE PBegin
  <2>1. SameData /\ SameFarm("staging") /\ ns' = ns /\ outcome' = outcome
    BY <1>2, MountStay DEF PBegin
  <2>2. DataIsFarm /\ mgr.mounted /\ ns.staging = None /\ pc' = "p_capture"
        /\ op'.prev = mgr /\ op'.name \in {"apply", "retarget"}
    BY <1>2 DEF PBegin, CanApply, NoApplyLeftovers, DataIsFarm, Start, NoOp
  <2>3. mgr'.mounted /\ mgr'.dirty
    BY <1>0, <1>2, <2>2 DEF PBegin, Managers
  <2>4. DataIsFarm' /\ ns'.staging # ns'.data
    BY <2>1, <2>2, FarmsSeen DEF DataIsFarm, ValidFarm, HasSentinel
  <2>5. LiveFarm'
    BY <2>3, <2>4 DEF LiveFarm
  <2>6. NoTeardown' /\ ~op'.prev.dirty => Holds("data", op.prev.applied)'
    <3>1. NoTeardown /\ ~mgr.dirty => Holds("data", mgr.applied)
      BY <2>2 DEF LiveFarm, Holds, DataIsFarm, ValidFarm
    <3>2. NoTeardown' <=> NoTeardown
      BY <2>1, FarmsSeen
    <3>3. Holds("data", mgr.applied) => dir'[ns'.data].layers = mgr.applied
      BY <2>1 DEF Holds, HasSentinel, SameData, SameFarm
    <3>4. HasSentinel(dir, ns.data)'
      BY <2>4 DEF DataIsFarm, ValidFarm
    <3> QED BY <2>2, <3>1, <3>2, <3>3, <3>4 DEF Holds
  <2>7. MountedWhen' /\ Activates'
    BY <2>2
  <2>8. Exchanging'
    BY <2>2, <2>3, <2>4
  <2>9. KeptFarm'
    BY <2>2, <2>6
  <2> QED BY <2>5, <2>7, <2>8, <2>9
(* The steps of the exchange; how each hands over comes first.             *)
<1>m. pc \in ApplySteps =>
        /\ mgr.mounted /\ mgr.dirty /\ DataIsFarm /\ ns.staging # ns.data
        /\ ns.data \in Dirs /\ op.name \in {"apply", "retarget"}
  BY <1>0 DEF DataIsFarm, ValidFarm, HasSentinel
<1>s. ASSUME pc \in ApplySteps \ {"p_back", "p_remove", "p_clear"},
             mgr' = MgrAfterError, pc' = "idle", op' = NoOp, DataIsFarm',
             outcome' \in {outcome, "pending"}, NoTeardown' <=> NoTeardown,
             op.name = "retarget" => SameData
      PROVE  MInv'
  <2>1. CASE op.name = "retarget"
    <3>1. mgr' = op.prev
      BY <1>s, <2>1 DEF MgrAfterError
    <3>2. NoTeardown' /\ ~op.prev.dirty => dir'[ns'.data].layers = op.prev.applied
      <4>1. /\ SameFarm("data")
            /\ NoTeardown /\ ~op.prev.dirty => Holds("data", op.prev.applied)
        BY <1>s, <2>1 DEF SameData
      <4> QED BY <1>s, <4>1 DEF Holds, HasSentinel, SameFarm
    <3>3. LiveFarm'
      BY <1>s, <3>1, <3>2 DEF LiveFarm
    <3> QED BY <1>0, <1>s, <3>3
  <2>2. CASE op.name = "apply"
    <3>1. mgr' = mgr
      BY <1>s, <2>2 DEF MgrAfterError
    <3>2. LiveFarm'
      BY <1>m, <1>s, <3>1 DEF LiveFarm
    <3> QED BY <1>0, <1>s, <3>2
  <2> QED BY <1>m, <1>s, <2>1, <2>2
<1>g. ASSUME pc \in ApplySteps, pc' \in ApplySteps, op' = op, mgr' = mgr,
             outcome' \in {outcome, "pending"},
             DataIsFarm', ns'.staging # ns'.data, NoTeardown' <=> NoTeardown,
             pc' \in {"p_intent", "p_swap"} => Holds("staging", op.layers)',
             pc' \in {"p_back", "p_remove", "p_clear"} => Holds("data", op.layers)',
             pc' = "p_back" => HasSentinel(dir, ns.staging)',
             op.name = "retarget" /\ NoTeardown /\ ~op.prev.dirty =>
               /\ pc' \in ApplySteps \ {"p_back", "p_remove", "p_clear"} =>
                    Holds("data", op.prev.applied)'
               /\ pc' = "p_back" => Holds("staging", op.prev.applied)'
      PROVE  MInv'
  <2>1. LiveFarm'
    BY <1>g, <1>m DEF LiveFarm
  <2> QED BY <1>g, <1>m, <2>1
<1>k. SameData /\ pc \in ApplySteps =>
        /\ DataIsFarm' /\ (NoTeardown' <=> NoTeardown)
        /\ \A l : Holds("data", l) => Holds("data", l)'
  BY <1>m, FarmsSeen DEF SameData, Places
<1>c. ASSUME pc \in ApplySteps, mgr' = Mounted(op.layers), pc' = "idle", op' = NoOp,
             Holds("data", op.layers), SameData
      PROVE  MInv'
  <2>1. LiveFarm'
    BY <1>c, <1>k DEF LiveFarm, Holds, Mounted
  <2> QED BY <1>0, <1>c, <2>1
<1> USE DEF FailUnclean
<1>3. CASE PCapture
  <2>1. SameData /\ SameFarm("staging") /\ ns' = ns
    BY <1>0, <1>3, MountCapture, MountStay DEF PCapture, Places
  <2>2. CASE pc' = "p_build"
    BY <1>3, <1>g, <1>k, <1>m, <2>1, <2>2 DEF PCapture
  <2>3. CASE pc' = "idle"
    BY <1>3, <1>s, <1>k, <2>1, <2>3 DEF PCapture
  <2> QED BY <1>3, <2>2, <2>3 DEF PCapture
<1>4. CASE PBuild
  <2>1. CASE Stay /\ pc' = "p_unstage"
    BY <1>4, <2>1, <1>g, <1>k, <1>m, MountStay DEF PBuild
  <2>2. CASE MakeOk("staging", PlainDir) /\ pc' = "p_seal"
    <3>1. PICK d \in Fresh : ns' = [ns EXCEPT !.staging = d]
                             /\ dir' = [dir EXCEPT ![d] = PlainDir]
      BY <2>2 DEF MakeOk, Made
    <3>2. d # ns.data
      BY <1>4, <1>0, <1>m DEF Fresh, Mentioned, Held, Places, PBuild
    <3>3. SameData /\ ns'.staging # ns'.data
      BY <1>0, <3>1, <3>2 DEF SameData, SameFarm, Namespaces
    <3> QED BY <1>4, <2>2, <3>3, <1>g, <1>k, <1>m DEF PBuild
  <2> QED BY <1>4, <2>1, <2>2 DEF PBuild
<1>5. CASE PSeal
  <2>1. CASE Stay /\ pc' = "p_unstage"
    BY <1>5, <2>1, <1>g, <1>k, <1>m, MountStay DEF PSeal
  <2>2. CASE Filled("staging", FarmDir(op.layers)) /\ pc' \in {"p_intent", "p_unstage"}
    <3>1. ns.staging # None
      BY <1>5 DEF PSeal, GInv, DataIsOurs, StagedSteps
    <3>2. ns' = ns /\ dir' = [dir EXCEPT ![ns.staging] = FarmDir(op.layers)]
      BY <2>2 DEF Filled
    <3>3. SameData /\ Holds("staging", op.layers)'
      BY <1>0, <1>m, <1>5, <3>1, <3>2 DEF PSeal, SameData, SameFarm, Holds,
         HasSentinel, FarmDir
    <3> QED BY <1>5, <2>2, <3>2, <3>3, <1>g, <1>k, <1>m DEF PSeal
  <2> QED BY <1>5, <2>1, <2>2 DEF PSeal
<1>6. CASE PIntent
  <2>1. SameData /\ SameFarm("staging")
    BY <1>0, <1>6, MountRecord DEF PIntent
  <2>2. Holds("staging", op.layers)' /\ ns'.staging # ns'.data
    BY <1>6, <1>m, <2>1, FarmsSeen DEF PIntent, SameFarm, SameData, Places
  <2> QED BY <1>6, <2>1, <2>2, <1>g, <1>k, <1>m DEF PIntent
<1>7. CASE PUnstage
  <2>1. SameData
    BY <1>0, <1>7, <1>m, MountErase DEF PUnstage, Places
  <2> QED BY <1>7, <2>1, <1>s, <1>k DEF PUnstage
<1>8. CASE PSwap
  <2>1. CASE Stay /\ pc' = "p_unswap"
    BY <1>8, <2>1, <1>g, <1>k, <1>m, MountStay DEF PSwap
  <2>2. CASE ns' = Exchanged /\ Keep
    <3>1. /\ ns'.data = ns.staging /\ ns'.staging = ns.data /\ dir' = dir
          /\ ns'.orig = ns.orig /\ ns'.journal = ns.journal /\ ns'.restoring = ns.restoring
      BY <1>0, <2>2 DEF Exchanged, Namespaces, Keep
    <3>2. /\ DataIsFarm' /\ ns'.staging # ns'.data
          /\ \A l : Holds("staging", l) => Holds("data", l)'
      BY <1>8, <1>m, <3>1 DEF PSwap, Holds, DataIsFarm, ValidFarm, HasSentinel
    <3>3. HasSentinel(dir, ns.staging)' /\ \A l : Holds("data", l) => Holds("staging", l)'
      BY <1>8, <1>m, <3>1 DEF PSwap, Holds, DataIsFarm, ValidFarm, HasSentinel
    <3>4. NoTeardown' <=> NoTeardown
      BY <3>1 DEF NoTeardown
    <3>5. CASE pc' \in {"p_remove", "p_back"}
      BY <1>8, <1>g, <1>m, <2>2, <3>2, <3>3, <3>4, <3>5 DEF PSwap
    <3>6. CASE op.name # "retarget" /\ Fail
      BY <1>8, <1>s, <3>2, <3>4, <3>6 DEF PSwap
    <3> QED BY <1>8, <1>m, <2>1, <2>2, <3>5, <3>6 DEF PSwap
  <2> QED BY <1>8, <2>1, <2>2 DEF PSwap
<1>9. CASE PBack
  <2>1. CASE Stay /\ CommittedUnclean
    BY <1>9, <1>c, <2>1, MountStay DEF PBack, CommittedUnclean
  <2>2. CASE ns' = Exchanged /\ Keep
    <3>1. /\ ns'.data = ns.staging /\ ns'.staging = ns.data /\ dir' = dir
          /\ ns'.orig = ns.orig /\ ns'.journal = ns.journal /\ ns'.restoring = ns.restoring
      BY <1>0, <2>2 DEF Exchanged, Namespaces, Keep
    <3>2. /\ DataIsFarm' /\ ns'.staging # ns'.data
          /\ \A l : Holds("staging", l) => Holds("data", l)'
      BY <1>9, <1>m, <3>1 DEF PBack, Holds, DataIsFarm, ValidFarm, HasSentinel
    <3>3. NoTeardown' <=> NoTeardown
      BY <3>1 DEF NoTeardown
    <3>4. CASE pc' = "p_unswap" /\ op' = op /\ mgr' = mgr /\ outcome' \in {outcome, "pending"}
      BY <1>9, <1>g, <1>m, <3>2, <3>3, <3>4 DEF PBack
    <3>5. CASE CommittedUnclean /\ Stay
      BY <2>1, <3>5
    <3> QED BY <1>9, <3>4, <3>5 DEF PBack
  <2> QED BY <1>9, <2>1, <2>2 DEF PBack
<1>10. CASE PUnswap
  <2>1. SameData /\ ns'.staging \in {None, ns.staging}
    BY <1>0, <1>10, <1>m, MountErase DEF PUnswap, Places
  <2>2. ns'.staging # ns'.data
    BY <1>0, <1>10, <1>m, <2>1 DEF SameData, SameFarm, PUnswap
  <2> QED BY <1>10, <2>1, <2>2, <1>s, <1>g, <1>k, <1>m DEF PUnswap
<1>11. CASE PUnintent
  <2>1. SameData
    BY <1>0, <1>11, MountRecord DEF PUnintent
  <2> QED BY <1>11, <2>1, <1>s, <1>k DEF PUnintent
<1>12. CASE PRemove
  <2>1. SameData /\ ns'.staging \in {None, ns.staging}
    BY <1>0, <1>12, <1>m, MountErase DEF PRemove, Places
  <2>2. ns'.staging # ns'.data
    BY <1>0, <1>12, <1>m, <2>1 DEF SameData, SameFarm, PRemove
  <2>3. CASE pc' = "p_clear"
    <3>1. op' = op /\ mgr' = mgr /\ outcome' = outcome /\ pc = "p_remove"
      BY <1>12, <2>3, <1>m DEF PRemove, CommittedUnclean
    <3>2. Holds("data", op.layers)'
      BY <1>k, <2>1, <3>1
    <3> QED BY <1>g, <1>k, <1>m, <2>1, <2>2, <2>3, <3>1, <3>2
  <2>4. CASE CommittedUnclean
    BY <1>12, <2>1, <2>4, <1>c DEF PRemove, CommittedUnclean
  <2>5. CASE op.name # "retarget" /\ Fail
    <3>1. mgr' = mgr
      BY <1>12, <1>m, <2>5 DEF MgrAfterError, PRemove
    <3>2. LiveFarm'
      BY <1>12, <1>k, <1>m, <2>1, <3>1 DEF LiveFarm, PRemove
    <3> QED BY <1>0, <2>5, <3>2
  <2> QED BY <1>12, <2>3, <2>4, <2>5 DEF PRemove
<1>13. CASE PClear
  <2>1. SameData
    BY <1>0, <1>13, MountRecord DEF PClear
  <2> QED BY <1>13, <1>c, <2>1 DEF PClear, Committed
<1> QED BY <1>1, <1>2, <1>3, <1>4, <1>5, <1>6, <1>7, <1>8, <1>9, <1>10, <1>11, <1>12,
     <1>13 DEF Apply

(* A teardown runs under its journal, and ends unmounted once the original *)
(* is back.                                                                *)
LEMMA MountTeardown ==
  ASSUME IInv, RInv, GInv, MInv, Teardown
  PROVE  MInv'
<1> USE DEF MInv, MountedWhen, Activates, Exchanging, KeptFarm, UnmountedSteps,
     ActivateSteps,
        RollBackSteps, RecoverySteps, ReconcileSteps, TeardownSteps, JournalSteps,
        RestoreSteps, FinishSteps, ApplySteps
<1> USE DEF Go, Fail, End, control
<1>0. /\ WorldOK /\ ns \in Namespaces /\ op \in Locals /\ Home /\ Original # None
      /\ NoOp.name = "none" /\ Unmounted.mounted = FALSE
  BY IdentityAssumption DEF IInv, WorldOK, DiskOK, Steered, ControlOK, NoOp, Unmounted
(* How a step goes on, and how it ends.                                    *)
<1>g. ASSUME pc \in TeardownSteps, pc' \in TeardownSteps, op' = op, mgr' = mgr,
             LiveFarm'
      PROVE  MInv'
  BY <1>g
<1>e. ASSUME pc \in TeardownSteps, pc' = "idle", op' = NoOp, LiveFarm'
      PROVE  MInv'
  BY <1>0, <1>e
<1>m. pc \in TeardownSteps => MgrAfterError \in {mgr, Unmounted}
  BY DEF MgrAfterError
<1>l. ASSUME pc \in TeardownSteps, mgr' \in {mgr, Unmounted}, SameData,
             outcome' \in {outcome, "pending"} \/ op.name = "cleanup"
      PROVE  LiveFarm'
  <2>1. CASE mgr' = Unmounted \/ op.name = "cleanup"
    BY <1>0, <1>l, <2>1 DEF LiveFarm
  <2>2. CASE mgr' = mgr /\ op.name # "cleanup"
    BY <1>l, <2>2, FarmsSeen
  <2> QED BY <1>l, <2>1, <2>2
<1>j. ASSUME ns'.journal # None PROVE LiveFarm'
  BY <1>j DEF LiveFarm, NoTeardown
<1> HIDE DEF MgrAfterError
<1>1. CASE DBegin
  <2>1. ns' = ns /\ mgr' = mgr /\ outcome' = outcome /\ SameData
    BY <1>1, MountStay DEF DBegin
  <2>2. LiveFarm'
    BY <2>1, FarmsSeen
  <2>3. CASE ns.journal # None
    <3>1. op'.name = "deactivate" /\ op'.orig = Original /\ pc' = "r_loop"
      BY <1>1, <2>3 DEF DBegin, NoOp, IInv, WorldOK, RecordsTrue
    <3> QED BY <2>1, <2>2, <3>1
  <2>4. CASE ns.journal = None
    <3>1. op'.name = "deactivate" /\ op'.orig = ns.orig /\ ns.orig # None
          /\ pc' \in {"r_capture", "r_begin"}
      BY <1>1, <2>4 DEF DBegin, Start, NoOp, ValidFarm
    <3>2. ns.orig = Original
      BY <1>0, <3>1 DEF Home
    <3> QED BY <2>1, <2>2, <3>1, <3>2
  <2> QED BY <2>3, <2>4
<1>2. CASE RCapture
  <2>1. SameData
    BY <1>0, <1>2, MountCapture, MountStay DEF RCapture, Places, Pending
  <2>2. pc = "r_capture" /\ \/ pc' = "r_begin" /\ op' = op /\ mgr' = mgr /\ outcome' = outcome
                            \/ Pending /\ op.name = "cleanup"
                            \/ Fail /\ (outcome' = outcome \/ op.name = "cleanup")
    BY <1>2 DEF RCapture
  <2> QED BY <1>g, <1>e, <1>m, <1>l, <2>1, <2>2 DEF Pending
<1>3. CASE RBegin
  <2>1. CASE Stay /\ Fail
    BY <1>3, <1>e, <1>m, <1>l, <2>1, MountStay DEF RBegin
  <2>2. CASE Fail /\ \E j \in Journals : Journalled(j, TRUE)
    <3>1. ns'.journal # None
      BY <1>0, <2>2, RecordAssumption DEF Journalled, Namespaces
    <3> QED BY <1>3, <1>e, <1>j, <2>2, <3>1 DEF RBegin
  <2>3. CASE Go("r_loop") /\ \E j \in Journals : Journalled(j, TRUE)
    <3>1. ns'.journal # None
      BY <1>0, <2>3, RecordAssumption DEF Journalled, Namespaces
    <3> QED BY <1>3, <1>g, <1>j, <2>3, <3>1 DEF RBegin
  <2>4. ns.data # None /\ ns.orig # None => NewJournal(ns.data, ns.orig, op.opts) \in Journals
    BY <1>0 DEF NewJournal, Journals, Namespaces, OptDirs, Locals
  <2> QED BY <1>3, <2>1, <2>2, <2>3, <2>4 DEF RBegin, JournalFails
(* The rest runs under the journal.                                        *)
<1>t. pc \in JournalSteps => ns.journal # None /\ ns.journal \in Journals
  BY <1>0 DEF IInv, Steered, TeardownRecorded, Namespaces
<1>r. ASSUME pc \in JournalSteps, pc' \in JournalSteps \/ Fail \/ Pending,
             pc' \in JournalSteps => op' = op /\ mgr' = mgr,
             ns'.journal # None
      PROVE  MInv'
  BY <1>g, <1>e, <1>j, <1>r DEF Pending
<1>4. CASE RLoop
  <2>1. ASSUME NEW p \in {"data", "retired"}, NEW captured, NEW mark \in JournalSteps,
               NEW next \in JournalSteps, RecordedCapture(p, captured, mark, next),
               pc = "r_loop"
        PROVE  MInv'
    <3>1. ns' = ns
      BY <1>0, <2>1, MountCapture, MountStay DEF RecordedCapture, Places
    <3>2. \/ pc' \in JournalSteps /\ op' = op /\ mgr' = mgr
          \/ Fail \/ Pending
      BY <2>1 DEF RecordedCapture, CaptureRefused
    <3> QED BY <1>r, <1>t, <2>1, <3>1, <3>2 DEF Pending
  <2>2. CASE RLive
    BY <2>1, <2>2 DEF RLive
  <2>3. CASE RRetired
    BY <2>1, <2>3 DEF RRetired
  <2>4. CASE RRestore
    BY <1>0, <1>r, <1>t, <2>4 DEF RRestore, MoveOk, MoveFails, Moved, Stay, Namespaces
  <2>5. CASE RFinish
    <3>1. CASE Restored
      <4>1. mgr' = Unmounted /\ pc' = "idle" /\ op' = NoOp
        BY <3>1 DEF Restored
      <4>2. LiveFarm'
        BY <1>0, <4>1 DEF LiveFarm
      <4> QED BY <1>e, <2>5, <4>1, <4>2 DEF RFinish
    <3>2. CASE RecordFails("journal", None) /\ Fail
      <4>1. ns'.data = Original /\ ns'.orig = None
        BY <1>0, <1>t, <2>5, <3>2 DEF RFinish, FarmIsGone, RecordFails, Namespaces,
           IInv, WorldOK,
           RecordsTrue
      <4>2. ~mgr'.mounted
        BY <1>0, <2>5, <3>2, <4>1 DEF RFinish, MgrAfterError
      <4>3. LiveFarm'
        BY <4>2 DEF LiveFarm
      <4> QED BY <1>e, <2>5, <3>2, <4>3 DEF RFinish
    <3> QED BY <2>5, <3>1, <3>2 DEF RFinish
  <2>6. CASE RMismatch
    BY <1>r, <1>t, <2>6 DEF RMismatch, Stay, Pending
  <2> QED BY <1>4, <2>2, <2>3, <2>4, <2>5, <2>6 DEF RLoop
<1>5. CASE RMarkData \/ RMarkRetired
  <2>1. ASSUME NEW label \in JournalSteps,
               NEW field \in {"dataCaptured", "retiredCaptured"}, NEW next \in JournalSteps,
               RMark(label, field, next)
        PROVE  MInv'
    <3>1. pc = label /\ (ns' = ns \/ ns'.journal = [ns.journal EXCEPT ![field] = TRUE])
      BY <1>0, <2>1 DEF RMark, Journalled, JournalFails, Stay, Namespaces
    <3>2. [ns.journal EXCEPT ![field] = TRUE] \in Journals
      BY <1>t, <2>1, <3>1 DEF Journals
    <3>3. ns'.journal # None
      BY <1>t, <2>1, <3>1, <3>2, RecordAssumption
    <3> QED BY <1>r, <1>t, <2>1, <3>1, <3>3 DEF RMark
  <2> QED BY <1>5, <2>1 DEF RMarkData, RMarkRetired
<1>6. CASE RRetire
  BY <1>0, <1>r, <1>t, <1>6 DEF RRetire, MoveOk, MoveFails, Moved, Stay, Namespaces
<1>7. CASE RDrop
  <2>1. ns' = ns \/ ns' = [ns EXCEPT !.retired = None]
    BY <1>0, <1>7, EraseEffect DEF RDrop, Places
  <2>2. ns'.journal # None
    BY <1>0, <1>7, <1>t, <2>1 DEF RDrop, Namespaces
  <2> QED BY <1>7, <1>r, <2>2 DEF RDrop
<1> QED BY <1>1, <1>2, <1>3, <1>4, <1>5, <1>6, <1>7 DEF Teardown

(* Recovery runs unmounted.                                                *)
LEMMA MountCleanup ==
  ASSUME IInv, RInv, GInv, MInv, Cleanup
  PROVE  MInv'
<1> USE DEF MInv, MountedWhen, Activates, Exchanging, KeptFarm, UnmountedSteps,
     ActivateSteps,
        RollBackSteps, RecoverySteps, ReconcileSteps, TeardownSteps, JournalSteps,
        RestoreSteps, FinishSteps, ApplySteps
<1> USE DEF Go, Fail, End, control
<1>0. NoOp.name = "none" /\ Unmounted.mounted = FALSE
  BY DEF NoOp, Unmounted
<1>1. CASE CBegin
  <2>1. ~mgr.mounted /\ mgr' = mgr /\ pc' \in {"c_start", "idle"}
        /\ (pc' = "c_start" => op'.name = "cleanup") /\ (pc' = "idle" => op' = NoOp)
    BY <1>1 DEF CBegin, Start, NoOp
  <2> QED BY <1>0, <2>1 DEF LiveFarm
<1> DEFINE Recovers ==
             /\ mgr' \in {mgr, Unmounted}
             /\ \/ pc' = "idle" /\ op' = NoOp
                \/ /\ op'.name = op.name
                   /\ pc' \in RecoverySteps \cup {"r_capture", "r_begin", "r_loop"}
                              \cup {"b_check", "b_remove", "b_rename", "f_retired"}
<1>m. op.name = "cleanup" => MgrAfterError = mgr
  BY DEF MgrAfterError
<1>r. ASSUME pc \in RecoverySteps \cup {"c_start"}, Recovers PROVE MInv'
  <2>1. op.name = "cleanup" /\ ~mgr.mounted /\ ~mgr'.mounted
    BY <1>0, <1>r
  <2> QED BY <1>0, <1>r, <2>1 DEF LiveFarm
<1>l. op \in Locals
  BY DEF IInv, Steered, ControlOK
<1> USE DEF LeftAlone, Pending, Restored
<1> HIDE DEF MgrAfterError
<1>2. CASE CRestoring
  BY <1>r, <1>m, <1>2 DEF CRestoring
<1>3. CASE CJournal
  BY <1>r, <1>m, <1>l, <1>3 DEF CJournal, Locals
<1>4. CASE CRetired
  BY <1>r, <1>m, <1>4 DEF CRetired
<1>5. CASE CStranded
  BY <1>r, <1>m, <1>5 DEF CStranded
<1>6. CASE CNotStranded
  BY <1>r, <1>m, <1>6 DEF CNotStranded
<1>7. CASE CIntent
  BY <1>r, <1>m, <1>l, <1>7 DEF CIntent, CRollBack, CRollBackSchema1, Locals
<1>8. CASE CApply \/ CUnstage \/ CUnapply
  BY <1>r, <1>m, <1>8 DEF CApply, CUnstage, CUnapply
<1>9. CASE CTidy \/ CTidyStaging \/ CTidyOldFarm \/ CTidyIntent
  BY <1>r, <1>m, <1>9 DEF CTidy, CTidyStaging, CTidyOldFarm, CTidyIntent, CTidyAway
<1>10. CASE CData
  BY <1>r, <1>m, <1>10 DEF CData
<1>11. CASE CRestore
  BY <1>r, <1>m, <1>11 DEF CRestore
<1> QED BY <1>1, <1>2, <1>3, <1>4, <1>5, <1>6, <1>7, <1>8, <1>9, <1>10, <1>11
     DEF Cleanup

(* A restore leaves a mounted manager only with a recovery pending.        *)
LEMMA MountRestore ==
  ASSUME IInv, RInv, GInv, MInv, Restore
  PROVE  MInv'
<1> USE DEF MInv, MountedWhen, Activates, Exchanging, KeptFarm, UnmountedSteps,
     ActivateSteps,
        RollBackSteps, RecoverySteps, ReconcileSteps, TeardownSteps, JournalSteps,
        RestoreSteps, FinishSteps, ApplySteps
<1> USE DEF Go, Fail, End, control
<1>0. /\ WorldOK /\ ns \in Namespaces /\ op \in Locals /\ op.todo \in Seq(Places) /\ Home
      /\ Original # None /\ NoOp.name = "none" /\ Unmounted.mounted = FALSE
      /\ pc \in FinishSteps => ns.data = Original
  BY IdentityAssumption DEF IInv, WorldOK, DiskOK, Steered, ControlOK, NoOp, Unmounted,
     Locals,
     RInv, OriginalInUse
<1>m. pc \in RestoreSteps => MgrAfterError = mgr
  BY DEF MgrAfterError
<1> HIDE DEF MgrAfterError
<1>1. CASE XBegin
  <2>1. SameData /\ mgr' = mgr /\ outcome' = outcome /\ outcome = "pending"
    BY <1>1 DEF XBegin, disk, SameData, SameFarm
  <2>2. PICK opts \in CaptureOpts : XResume(opts) \/ XFirst(opts)
    BY <1>1 DEF XBegin, Decision, CaptureOpts
  <2>3. op'.name = "restore" /\ pc' \in {"x_capture", "f_retired"}
    BY <2>2 DEF XResume, XFirst, XStart, NoOp
  <2>4. LiveFarm'
    BY <2>1, FarmsSeen
  <2> QED BY <2>1, <2>3, <2>4
<1>e. ASSUME pc \in RestoreSteps, LiveFarm', Fail PROVE MInv'
  BY <1>0, <1>e
<1>g. ASSUME pc \in RestoreSteps, pc' \in RestoreSteps, LiveFarm', op'.name = op.name,
             mgr' = mgr, outcome' = outcome,
             pc' \in {"x_remove", "x_rename"} => ns'.restoring # None
      PROVE  MInv'
  BY <1>0, <1>g
<1>r. ASSUME ns'.restoring # None PROVE LiveFarm'
  BY <1>r DEF LiveFarm, NoTeardown
<1>l. ASSUME pc \in RestoreSteps, SameData, mgr' \in {mgr, MgrAfterError},
             outcome' \in {outcome, "error"}, mgr.mounted => outcome' = outcome
      PROVE  LiveFarm'
  <2>1. CASE ~mgr.mounted
    BY <1>0, <1>l, <1>m, <2>1 DEF LiveFarm
  <2>2. CASE mgr.mounted
    BY <1>l, <1>m, <2>2, FarmsSeen
  <2> QED BY <2>1, <2>2
<1>o. pc \in RestoreSteps /\ Fail =>
        outcome' \in {outcome, "error"} /\ (mgr.mounted => outcome' = outcome)
  OBVIOUS
<1>2. CASE XCapture
  <2>1. PICK p \in Places : p = Head(op.todo)
    BY <1>0, <1>2 DEF XCapture
  <2>2. SameData /\ ns' = ns
    BY <1>0, <1>2, <2>1, MountCapture, MountStay DEF XCapture
  <2>3. /\ pc = "x_capture"
        /\ \/ pc' = pc /\ op'.name = op.name /\ mgr' = mgr /\ outcome' = outcome
           \/ Fail
    BY <1>0, <1>2 DEF XCapture, Locals
  <2> QED BY <1>g, <1>e, <1>l, <1>o, <2>2, <2>3
<1>3. CASE XRecord
  <2>1. CASE Stay /\ (ns.orig = None \/ ns.restoring # None)
    <3>1. SameData /\ ns' = ns
      BY <2>1, MountStay
    <3>2. /\ pc = "x_capture" /\ op' = op /\ mgr' = mgr /\ outcome' = outcome
          /\ pc' = "f_retired" \/ (pc' = "x_remove" /\ ns.restoring # None)
      BY <1>3, <2>1 DEF XRecord
    <3>3. LiveFarm'
      BY <3>1, <3>2, FarmsSeen
    <3> QED BY <1>g, <3>1, <3>2, <3>3
  <2> DEFINE r == [backup |-> ns.orig, farm |-> ns.data]
  <2>2. CASE ns.orig # None /\ ns.restoring = None /\ RecordOk("restoring", r)
    BY <1>0, <1>3, <1>g, <1>r, <2>2, RecordAssumption DEF XRecord, RecordOk,
       Namespaces, Restoring, OptDirs
  <2>3. CASE ns.orig # None /\ ns.restoring = None /\ RecordFails("restoring", r) /\ Fail
    <3>1. CASE ns'.restoring # None
      BY <1>3, <1>e, <1>r, <2>3, <3>1 DEF XRecord
    <3>2. CASE ns'.restoring = None
      <4>1. SameData
        BY <1>0, <2>3, <3>2 DEF RecordFails, SameData, SameFarm, Namespaces, Keep
      <4> QED BY <1>3, <1>e, <1>l, <1>o, <2>3, <4>1 DEF XRecord
    <3> QED BY <3>1, <3>2
  <2> QED BY <1>3, <2>1, <2>2, <2>3 DEF XRecord
<1>4. CASE XRemove
  <2>1. ns' = ns \/ ns' = [ns EXCEPT !.data = None]
    BY <1>0, <1>4, EraseEffect DEF XRemove, Places, Stay
  <2>2. ns'.restoring # None
    BY <1>0, <1>4, <2>1 DEF XRemove, Namespaces
  <2> QED BY <1>4, <1>g, <1>e, <1>r, <2>2 DEF XRemove
<1>5. CASE XRename
  <2>1. ns'.restoring # None
    BY <1>0, <1>5 DEF XRename, MoveOk, MoveFails, Moved, Stay, Namespaces
  <2> QED BY <1>5, <1>g, <1>e, <1>r, <2>1 DEF XRename
(* Once the original is at Data, there is no farm there.                   *)
<1>f. ASSUME pc \in FinishSteps, ns'.data = Original, ns'.orig = None,
             mgr' \in {mgr, MgrAfterError}, mgr.mounted => outcome' = outcome
      PROVE  LiveFarm'
  <2>1. CASE ~mgr.mounted
    BY <1>0, <1>f, <1>m, <2>1 DEF LiveFarm
  <2>2. CASE mgr.mounted
    BY <1>f, <1>m, <2>2 DEF LiveFarm, DataIsFarm, ValidFarm
  <2> QED BY <2>1, <2>2
<1>h. pc \in FinishSteps => ns.data = Original /\ ns.orig = None
  BY <1>0 DEF Home
<1>6. ASSUME NEW p \in Places \ {"data", "orig"}, NEW next \in FinishSteps,
             pc \in FinishSteps,
             \/ EraseOk(p) /\ Go(next)
             \/ EraseAndSyncFails(p) /\ Fail
      PROVE  MInv'
  <2>1. ns' = ns \/ ns' = [ns EXCEPT ![p] = None]
    BY <1>0, <1>6, EraseEffect
  <2>2. ns'.data = Original /\ ns'.orig = None
    BY <1>0, <1>6, <1>h, <2>1 DEF Namespaces
  <2>3. LiveFarm'
    BY <1>6, <1>f, <1>o, <2>2
  <2> QED BY <1>6, <1>g, <1>e, <2>3
<1>7. ASSUME NEW q \in Records, NEW next \in FinishSteps, pc \in FinishSteps,
             \/ RecordOk(q, None) /\ Go(next)
             \/ RecordFails(q, None) /\ Fail
      PROVE  MInv'
  <2>1. ns'.data = Original /\ ns'.orig = None
    BY <1>0, <1>7, <1>h DEF RecordOk, RecordFails, Records, Namespaces
  <2>2. LiveFarm'
    BY <1>7, <1>f, <1>o, <2>1
  <2> QED BY <1>7, <1>g, <1>e, <2>2
<1>8. CASE FRetired \/ FStaging \/ FOldFarm
  BY <1>6, <1>8 DEF FRetired, FStaging, FOldFarm, FSibling, Places
<1>9. CASE FJournal \/ FActivating \/ FApplying
  BY <1>7, <1>9 DEF FJournal, FActivating, FApplying, FRecord, Records
<1>10. CASE FDone
  <2>1. CASE Restored
    <3>1. mgr' = Unmounted /\ pc' = "idle" /\ op' = NoOp
      BY <2>1 DEF Restored
    <3>2. LiveFarm'
      BY <1>0, <3>1 DEF LiveFarm
    <3> QED BY <1>0, <3>1, <3>2
  <2>2. CASE RecordFails("restoring", None) /\ Fail
    BY <1>7, <1>10, <2>2 DEF FDone, Records
  <2> QED BY <1>10, <2>1, <2>2 DEF FDone
<1> QED BY <1>1, <1>2, <1>3, <1>4, <1>5, <1>8, <1>9, <1>10 DEF Restore

(* The surroundings neither build nor move a farm.                         *)
LEMMA MountSurroundings ==
  ASSUME IInv, RInv, GInv, MInv, Surroundings
  PROVE  MInv'
<1> USE DEF MInv, MountedWhen, Activates, Exchanging, KeptFarm, UnmountedSteps,
     ActivateSteps,
        RollBackSteps, RecoverySteps, ReconcileSteps, TeardownSteps, JournalSteps,
        RestoreSteps, FinishSteps, ApplySteps
<1> USE DEF control
<1>0. /\ WorldOK /\ ns \in Namespaces /\ dir \in [Dirs -> Content] /\ None \notin Dirs
      /\ NoOp.name = "none" /\ Unmounted.mounted = FALSE
      /\ \A p \in Places : ns[p] \in Dirs \cup {None}
  BY IdentityAssumption DEF IInv, WorldOK, DiskOK, NoOp, Unmounted, Dirs, Namespaces,
     OptDirs, Places
(* Steps that leave every farm where it is, and the daemon alone.          *)
<1>s. ASSUME ns' = ns,
             \A d \in Dirs : dir'[d].meta = dir[d].meta /\ dir'[d].layers = dir[d].layers,
             UNCHANGED control
      PROVE  MInv'
  <2>1. SameData /\ SameFarm("staging")
    BY <1>0, <1>s DEF SameData, SameFarm, Places
  <2>2. LiveFarm'
    BY <1>s, <2>1, FarmsSeen
  <2>3. /\ DataIsFarm' <=> DataIsFarm
        /\ NoTeardown' <=> NoTeardown
        /\ \A l : /\ Holds("data", l)' <=> Holds("data", l)
                  /\ Holds("staging", l)' <=> Holds("staging", l)
        /\ HasSentinel(dir, ns.staging)' <=> HasSentinel(dir, ns.staging)
    BY <2>1, FarmsSeen DEF Places, SameData
  <2>4. MountedWhen' /\ Activates'
    BY <1>s, <2>3
  <2>5. Exchanging'
    BY <1>s, <2>3
  <2>6. KeptFarm'
    BY <1>s, <2>3
  <2> QED BY <2>2, <2>4, <2>5, <2>6
<1>1. CASE GameWrites
  <2>1. PICK f \in Files : dir' = [dir EXCEPT ![ns.data].out = @ \cup {f}]
    BY <1>1 DEF GameWrites
  <2>2. \A d \in Dirs : dir'[d].meta = dir[d].meta /\ dir'[d].layers = dir[d].layers
    BY <1>0, <2>1 DEF Content
  <2> QED BY <1>1, <1>s, <2>2 DEF GameWrites
<1>2. CASE ForeignData
  <2>1. PICK x \in Foreign \ Mentioned(ns), c \in {EmptyDir, PlainDir} :
          ns' = [ns EXCEPT !.data = x] /\ dir' = [dir EXCEPT ![x] = c]
    BY <1>2 DEF ForeignData
  <2>2. ns.data = None /\ UNCHANGED control /\ x \in Dirs
    BY <1>2 DEF ForeignData, Dirs
  <2>3. /\ ns'.data = x /\ ns'.orig = ns.orig /\ ns'.journal = ns.journal
        /\ ns'.restoring = ns.restoring /\ dir'[x].meta = "none"
    BY <1>0, <2>1, <2>2 DEF Namespaces, EmptyDir, PlainDir
  <2>4. ~DataIsFarm /\ ~DataIsFarm' /\ pc \notin ApplySteps /\ ~Holds("data", op.layers)
    BY <2>2, <2>3 DEF DataIsFarm, ValidFarm, HasSentinel, Holds
  <2>5. LiveFarm'
    BY <2>2, <2>3, <2>4 DEF LiveFarm, NoTeardown
  <2>6. MountedWhen' /\ Activates'
    BY <1>0, <2>1, <2>2, <2>3, <2>4
  <2>7. Exchanging' /\ KeptFarm'
    BY <2>2, <2>4
  <2> QED BY <2>5, <2>6, <2>7
<1>3. CASE SteamChanges \/ ClearMaintenance
  BY <1>3, <1>s DEF SteamChanges, ClearMaintenance, disk
<1>4. CASE Stop \/ Crash
  <2>1. mgr' = Unmounted /\ pc' = "off" /\ op' = NoOp
    BY <1>4 DEF Stop, Crash, Down
  <2>2. LiveFarm'
    BY <1>0, <2>1 DEF LiveFarm
  <2> QED BY <1>0, <2>1, <2>2
<1> QED BY <1>1, <1>2, <1>3, <1>4 DEF Surroundings

(* The daemon starts unmounted.                                            *)
LEMMA MountInit == Init => MInv
BY DEF Init, MInv, LiveFarm, MountedWhen, Activates, Exchanging, KeptFarm, Unmounted,
   NoOp,
   UnmountedSteps, TeardownSteps, JournalSteps, RestoreSteps, FinishSteps, ApplySteps,
   RecoverySteps, ReconcileSteps

(* The invariant is inductive.                                             *)
LEMMA MountNext == IInv /\ RInv /\ GInv /\ MInv /\ [Next]_vars => MInv'
<1> SUFFICES ASSUME IInv, RInv, GInv, MInv, [Next]_vars PROVE MInv'
  OBVIOUS
<1>1. CASE UNCHANGED vars
  BY <1>1 DEF vars, MInv, LiveFarm, MountedWhen, Activates, Exchanging, KeptFarm, Holds,
     HasSentinel, DataIsFarm, ValidFarm, NoTeardown
<1>2. CASE Next
  BY <1>2, MountActivate, MountRollBack, MountApply, MountTeardown, MountCleanup,
     MountRestore,
     MountSurroundings DEF Next
<1> QED BY <1>1, <1>2

(* The manager's report and the folder at Data agree in every reachable    *)
(* state, at every step of every operation.                                *)
THEOREM FarmKnown == Spec => []MInv
BY InitHolds, NextKeeps, RecInit, RecNext, GuestsInit, GuestsNext, MountInit, MountNext,
   PTL DEF Spec

(* Between operations, a manager that says mounted has a complete farm at  *)
(* Data unless a recovery is pending, and a clean report names the layers  *)
(* of the farm that is there, whatever failed in the applies and profile   *)
(* switches before: MountedIsLive holds in every reachable state.          *)
THEOREM MountedStaysLive == Spec => []MountedIsLive
<1>1. MInv => MountedIsLive
  BY DEF MInv, LiveFarm, MountedIsLive, NoTeardown, DataIsFarm
<1> QED BY <1>1, FarmKnown, PTL

-----------------------------------------------------------------------------
(* Output and maintenance.                                                 *)

(* The places a farm can be in.                                            *)
FarmPlaces == {"data", "staging", "oldfarm", "retired"}

(* No output is in the folder of a place.                                  *)
Emptied(p) == ns[p] # None => dir[ns[p]].out = {}

(* Two places never share a folder.                                        *)
Apart == \A p, q \in FarmPlaces : p # q /\ ns[p] = ns[q] => ns[p] = None

(* Only a complete farm receives output: the game runs on no other.        *)
Bare == \A d \in Dirs : dir[d].meta # "full" => dir[d].out = {}

(* The siblings were captured before they became siblings.                 *)
SiblingsEmpty == \A p \in FarmPlaces \ {"data"} : Emptied(p)

(* Output is in Overwrite or a preserved batch, or in the folder at Data.  *)
OutputAtData == \A f \in written : f \in saved \/ (ns.data # None /\ f \in dir[ns.data].out)

(* Where output is.                                                        *)
OutWorld == Apart /\ Bare /\ SiblingsEmpty /\ OutputAtData

(* What a call leaves alone unless it captures or writes the journal.      *)
Untouched == maint' = maint /\ unverified' = unverified /\ changed' = changed

(* What every such call keeps.                                             *)
CallEffect == OutWorld' /\ Untouched /\ ns'.journal = ns.journal

(***************************************************************************)
(* One lemma per system call: where it leaves the output.                  *)
(***************************************************************************)
(* Output is not where names or records change.                            *)
LEMMA OutNames ==
  ASSUME OutWorld, dir' = dir, written' = written, saved' = saved,
         \A p \in FarmPlaces : ns'[p] = ns[p]
  PROVE  OutWorld' /\ (Emptied("data") => Emptied("data")')
BY DEF OutWorld, Apart, Bare, SiblingsEmpty, OutputAtData, Emptied, FarmPlaces

(* A call that fails without effect keeps everything.                      *)
LEMMA OutStay ==
  ASSUME OutWorld, Stay
  PROVE  CallEffect /\ ns' = ns /\ dir' = dir /\ (Emptied("data") => Emptied("data")')
BY OutNames DEF Stay, Keep, output, CallEffect, Untouched

(* A record is written or removed: no folder changes.                      *)
LEMMA OutRecord ==
  ASSUME WorldOK, OutWorld, NEW r \in Records, NEW v, RecordOk(r, v) \/ RecordFails(r, v)
  PROVE  /\ OutWorld' /\ Untouched /\ (r # "journal" => CallEffect)
         /\ Emptied("data") => Emptied("data")'
         /\ ns'.data = ns.data /\ dir' = dir
<1>1. \A p \in FarmPlaces : ns'[p] = ns[p]
  BY DEF RecordOk, RecordFails, Records, FarmPlaces, WorldOK, DiskOK, Namespaces
<1>2. r # "journal" => ns'.journal = ns.journal
  BY DEF RecordOk, RecordFails, Records, WorldOK, DiskOK, Namespaces
<1>3. Untouched /\ dir' = dir
  BY DEF RecordOk, RecordFails, Keep, output, Untouched
<1>4. OutWorld' /\ (Emptied("data") => Emptied("data")')
  BY <1>1, OutNames DEF RecordOk, RecordFails, Keep, output
<1> QED BY <1>1, <1>2, <1>3, <1>4 DEF CallEffect, FarmPlaces

(* The teardown's journal is written, or not.                              *)
LEMMA OutJournal ==
  ASSUME WorldOK, OutWorld, NEW j, NEW fresh, Journalled(j, fresh) \/ JournalFails(j, fresh)
  PROVE  /\ OutWorld' /\ Untouched /\ (Emptied("data") => Emptied("data")')
         /\ ns'.data = ns.data /\ dir' = dir
<1>1. CASE Journalled(j, fresh)
  <2>1. \A p \in FarmPlaces : ns'[p] = ns[p]
    BY <1>1 DEF Journalled, FarmPlaces, WorldOK, DiskOK, Namespaces
  <2> QED BY <1>1, <2>1, OutNames DEF Journalled, Untouched, FarmPlaces
<1>2. CASE Stay
  BY <1>2, OutStay DEF CallEffect
<1> QED BY <1>1, <1>2 DEF JournalFails

(* A folder that holds no output is removed, in part or completely.        *)
LEMMA OutErase ==
  ASSUME WorldOK, OutWorld, NEW p \in FarmPlaces, Emptied(p),
         EraseOk(p) \/ EraseFails(p) \/ EraseAndSyncFails(p) \/ ErasedPartly(p)
  PROVE  /\ CallEffect /\ (Emptied("data") => Emptied("data")')
         /\ p # "data" => /\ ns'.data = ns.data
                          /\ ns.data # None => dir'[ns.data] = dir[ns.data]
<1>0. ns \in Namespaces /\ dir \in [Dirs -> Content] /\ None \notin Dirs
  BY IdentityAssumption DEF WorldOK, DiskOK, Dirs
<1>1. CASE Stay
  BY <1>1, OutStay DEF Stay, Keep
<1>2. CASE ns[p] # None /\ (Erased(p) \/ ErasedPartly(p))
  <2> DEFINE d == ns[p]
  <2>1. d \in Dirs /\ dir[d].out = {}
    BY <1>0, <1>2 DEF Emptied, FarmPlaces, Namespaces, OptDirs
  <2>2. /\ dir' \in [Dirs -> Content] /\ dir'[d].out = {}
        /\ \A e \in Dirs \ {d} : dir'[e] = dir[e]
    <3>1. CASE Erased(p)
      BY <1>0, <1>2, <2>1, <3>1, ContentTypes DEF Erased, EmptyDir
    <3>2. CASE ErasedPartly(p)
      <4> PICK r \in Remnants(dir[d]) : dir' = [dir EXCEPT ![d] = r]
        BY <3>2 DEF ErasedPartly
      <4>1. r \in Content /\ r.out = {}
        BY <1>0, <2>1, ContentTypes DEF Remnants
      <4> QED BY <1>0, <2>1, <4>1
    <3> QED BY <1>2, <3>1, <3>2
  <2>3. \A e \in Dirs : dir'[e].out = dir[e].out
    BY <2>1, <2>2
  <2>4. /\ \A q \in FarmPlaces : ns'[q] \in {ns[q], None} /\ (q # p => ns'[q] = ns[q])
        /\ \A q \in FarmPlaces : ns[q] \in Dirs \cup {None}
    BY <1>0, <1>2 DEF Erased, ErasedPartly, FarmPlaces, Namespaces, OptDirs
  <2>5. written' \subseteq written /\ saved' = saved
    BY <1>2 DEF Erased, ErasedPartly, GivenUp
  <2>6. Bare'
    BY <2>1, <2>2 DEF OutWorld, Bare
  <2>7. Apart'
    BY <2>4 DEF OutWorld, Apart
  <2>8. \A q \in FarmPlaces : Emptied(q) => Emptied(q)'
    BY <2>3, <2>4 DEF Emptied
  <2>9. SiblingsEmpty'
    BY <2>8 DEF OutWorld, SiblingsEmpty
  <2>10. p # "data" => ns'.data = ns.data /\ (ns.data # None => ns.data # d)
    BY <1>2, <2>4 DEF OutWorld, Apart, FarmPlaces
  <2>11. ns.data \in Dirs \cup {None}
    BY <1>0 DEF Namespaces, OptDirs
  <2>13. Untouched /\ ns'.journal = ns.journal
    BY <1>0, <1>2 DEF Erased, ErasedPartly, GivenUp, Untouched, FarmPlaces, Namespaces
  <2>12. OutputAtData'
    <3>1. CASE p = "data"
      BY <2>1, <2>5, <3>1 DEF OutWorld, OutputAtData
    <3>2. CASE p # "data"
      BY <2>3, <2>5, <2>10, <2>11, <3>2 DEF OutWorld, OutputAtData
    <3> QED BY <3>1, <3>2
  <2> QED BY <2>2, <2>6, <2>7, <2>8, <2>9, <2>10, <2>11, <2>12, <2>13
       DEF OutWorld, CallEffect, FarmPlaces
<1> QED BY <1>1, <1>2 DEF EraseOk, EraseFails, EraseAndSyncFails, Erased, ErasedPartly

(* A capture saves the output of a folder before it leaves it, and what    *)
(* fails half-way leaves the rest where it was.                            *)
LEMMA OutCapture ==
  ASSUME WorldOK, OutWorld, NEW p \in Places, NEW opts, NEW marker,
         Captured(p, opts, marker) \/ CaptureFails(p, opts)
  PROVE  /\ OutWorld' /\ (Emptied("data") => Emptied("data")')
         /\ Captured(p, opts, marker) => Emptied(p)'
<1>0. ns \in Namespaces /\ dir \in [Dirs -> Content] /\ None \notin Dirs
  BY IdentityAssumption DEF WorldOK, DiskOK, Dirs
<1>1. ns' = ns /\ \A q \in Places : ns[q] \in Dirs \cup {None}
  BY <1>0, CaptureEffect DEF Places, Namespaces, OptDirs
<1>2. ASSUME Stay
      PROVE  /\ OutWorld' /\ (Emptied("data") => Emptied("data")')
             /\ ns[p] = None \/ dir[ns[p]].meta # "full" => Emptied(p)'
  BY <1>1, <1>2, OutStay DEF CallEffect, Stay, Keep, Emptied, OutWorld, Bare
<1>3. ASSUME NEW m, Captured(p, opts, m), ns[p] # None, dir[ns[p]].meta = "full"
      PROVE  OutWorld' /\ (Emptied("data") => Emptied("data")') /\ Emptied(p)'
  <2> DEFINE d == ns[p]
  <2>1. d \in Dirs /\ dir' = [dir EXCEPT ![d].out = {}] /\ saved' = saved \cup dir[d].out
        /\ written' = written
    BY <1>1, <1>3 DEF Captured
  <2>2. dir' \in [Dirs -> Content] /\ dir'[d].out = {} /\ dir'[d].meta = "full"
        /\ \A e \in Dirs \ {d} : dir'[e] = dir[e]
    BY <1>0, <1>3, <2>1 DEF Content
  <2>3. \A e \in Dirs : dir[e].out = {} => dir'[e].out = {}
    BY <2>2
  <2>4. FarmPlaces \subseteq Places
    BY DEF FarmPlaces, Places
  <2>5. \A q \in FarmPlaces : Emptied(q) => Emptied(q)'
    BY <1>1, <2>3, <2>4 DEF Emptied
  <2>6. Emptied(p)'
    BY <1>1, <2>2 DEF Emptied
  <2>7. Apart' /\ Bare' /\ SiblingsEmpty'
    BY <1>1, <2>2, <2>3, <2>5 DEF OutWorld, Apart, Bare, SiblingsEmpty
  <2>8. OutputAtData'
    <3> SUFFICES ASSUME NEW f \in written', f \notin saved'
                 PROVE  ns'.data # None /\ f \in dir'[ns'.data].out
      BY DEF OutputAtData
    <3>1. ns.data # None /\ f \in dir[ns.data].out /\ ns.data # d
      BY <2>1 DEF OutWorld, OutputAtData
    <3> QED BY <1>1, <2>2, <3>1 DEF Places
  <2> QED BY <2>5, <2>6, <2>7, <2>8 DEF OutWorld, FarmPlaces
<1> QED BY <1>2, <1>3 DEF CaptureFails, Captured

(* A rename takes an emptied folder away from Data, or brings one there.   *)
LEMMA OutMove ==
  ASSUME WorldOK, OutWorld, NEW p \in Places, NEW q \in Places,
         \/ p = "data" /\ q \in {"orig", "retired"} /\ Emptied("data")
         \/ p \in {"orig", "staging", "oldfarm"} /\ q = "data",
         ns[q] = None, ns' = Moved(p, q), Keep
  PROVE  OutWorld'
<1>0. ns \in Namespaces /\ dir \in [Dirs -> Content] /\ None \notin Dirs /\ dir' = dir
      /\ written' = written /\ saved' = saved /\ NeverASibling /\ Home
  BY IdentityAssumption DEF WorldOK, DiskOK, Dirs, Keep, output
<1>1. Bare'
  BY <1>0 DEF OutWorld, Bare
<1>2. Apart'
  BY <1>0, IdentityAssumption DEF OutWorld, Apart, FarmPlaces, Places, Moved,
     Namespaces, NeverASibling, Home
<1>3. SiblingsEmpty'
  BY <1>0 DEF OutWorld, SiblingsEmpty, FarmPlaces, Places, Moved, Namespaces, Emptied
<1>4. \A f \in written : f \in saved
  BY DEF OutWorld, OutputAtData, Emptied
<1>5. OutputAtData'
  BY <1>0, <1>4 DEF OutputAtData
<1> QED BY <1>1, <1>2, <1>3, <1>5 DEF OutWorld

(* A rename that may fail: on top of the above, an emptied Data stays so.  *)
LEMMA OutMoveCall ==
  ASSUME WorldOK, OutWorld, NEW p \in Places, NEW q \in Places,
         \/ p = "data" /\ q \in {"orig", "retired"} /\ Emptied("data")
         \/ p = "orig" /\ q = "data",
         MoveOk(p, q) \/ MoveFails(p, q)
  PROVE  /\ CallEffect /\ dir' = dir
         /\ p = "data" => Emptied("data")'
<1>1. CASE Stay
  BY <1>1, OutStay
<1>2. CASE ns[q] = None /\ ns' = Moved(p, q) /\ Keep
  <2>1. p = "data" => ns'.data = None
    BY <1>2 DEF WorldOK, DiskOK, Moved, Namespaces
  <2>2. Untouched /\ ns'.journal = ns.journal /\ dir' = dir
    BY <1>2 DEF WorldOK, DiskOK, Moved, Namespaces, Keep, output, Untouched, Places
  <2> QED BY <1>2, <2>1, <2>2, OutMove DEF Emptied, CallEffect
<1> QED BY <1>1, <1>2 DEF MoveOk, MoveFails

(* A new folder holds no output.                                           *)
LEMMA OutMake ==
  ASSUME WorldOK, OutWorld, NEW p \in {"data", "staging"}, NEW c \in Content, c.out = {},
         p = "staging" => Emptied("data"), Made(p, c)
  PROVE  CallEffect /\ Emptied("data")'
<1>0. ns \in Namespaces /\ dir \in [Dirs -> Content] /\ None \notin Dirs /\ ns[p] = None
      /\ written' = written /\ saved' = saved
  BY IdentityAssumption DEF WorldOK, DiskOK, Dirs, Made, output
<1> PICK d \in Fresh : ns' = [ns EXCEPT ![p] = d] /\ dir' = [dir EXCEPT ![d] = c]
  BY DEF Made
<1>1. d \in Dirs /\ d # None /\ d \notin Held(ns)
  BY IdentityAssumption DEF Fresh, Dirs, Mentioned
<1>2. \A q \in FarmPlaces : ns[q] # d
  BY <1>1 DEF Held, FarmPlaces, Places
<1>3. dir'[d] = c /\ \A e \in Dirs \ {d} : dir'[e] = dir[e]
  BY <1>0, <1>1
<1>4. ns'[p] = d /\ \A q \in FarmPlaces \ {p} : ns'[q] = ns[q]
  BY <1>0 DEF Namespaces, FarmPlaces
<1>5. \A q \in FarmPlaces : ns[q] \in Dirs \cup {None}
  BY <1>0 DEF FarmPlaces, Namespaces, OptDirs
<1>6. Apart'
  BY <1>2, <1>4 DEF OutWorld, Apart
<1>7. Bare'
  BY <1>3 DEF OutWorld, Bare
<1>8. \A q \in FarmPlaces \ {p} : Emptied(q) => Emptied(q)'
  BY <1>2, <1>3, <1>4, <1>5 DEF Emptied
<1>9. Emptied(p)'
  BY <1>3, <1>4 DEF Emptied
<1>10. SiblingsEmpty' /\ Emptied("data")'
  BY <1>8, <1>9 DEF OutWorld, SiblingsEmpty, FarmPlaces
<1>11. OutputAtData'
  <2>1. \A f \in written : f \in saved
    BY <1>0 DEF OutWorld, OutputAtData, Emptied
  <2> QED BY <1>0, <2>1 DEF OutputAtData
<1>12. Untouched /\ ns'.journal = ns.journal
  BY <1>0 DEF Made, output, Untouched, Namespaces
<1> QED BY <1>6, <1>7, <1>10, <1>11, <1>12 DEF OutWorld, CallEffect

(* A farm is built into an emptied folder.                                 *)
LEMMA OutFill ==
  ASSUME WorldOK, OutWorld, NEW p \in {"data", "staging"}, NEW c \in Content, c.out = {},
         Emptied("data"), Filled(p, c)
  PROVE  /\ OutWorld' /\ Emptied("data")' /\ maint' = maint /\ unverified' = unverified
         /\ ns' = ns
<1>0. ns \in Namespaces /\ dir \in [Dirs -> Content] /\ ns' = ns
      /\ written' = written /\ saved' = saved /\ dir' = [dir EXCEPT ![ns[p]] = c]
  BY DEF WorldOK, DiskOK, Filled, output
<1>1. \A e \in Dirs : dir'[e] = dir[e] \/ dir'[e] = c
  BY <1>0
<1>2. \A q \in FarmPlaces : ns[q] \in Dirs \cup {None}
  BY <1>0 DEF FarmPlaces, Namespaces, OptDirs
<1>3. \A q \in FarmPlaces : Emptied(q) => Emptied(q)'
  BY <1>0, <1>1, <1>2 DEF Emptied
<1>4. Apart' /\ Bare' /\ SiblingsEmpty'
  BY <1>0, <1>1, <1>3 DEF OutWorld, Apart, Bare, SiblingsEmpty
<1>5. \A f \in written : f \in saved
  BY DEF OutWorld, OutputAtData, Emptied
<1>6. OutputAtData'
  BY <1>0, <1>5 DEF OutputAtData
<1> QED BY <1>0, <1>3, <1>4, <1>6 DEF OutWorld, FarmPlaces, Filled, output

(* The exchange of two emptied folders.                                    *)
LEMMA OutSwap ==
  ASSUME WorldOK, OutWorld, Emptied("data"), ns' = Exchanged, Keep
  PROVE  CallEffect /\ Emptied("data")'
<1>0. ns \in Namespaces /\ dir' = dir /\ written' = written /\ saved' = saved
  BY DEF WorldOK, DiskOK, Keep, output
<1>1. ns'.data = ns.staging /\ ns'.staging = ns.data /\ ns'.oldfarm = ns.oldfarm
      /\ ns'.retired = ns.retired
  BY <1>0 DEF Exchanged, Namespaces
<1>2. Apart'
  BY <1>1 DEF OutWorld, Apart, FarmPlaces
<1>3. Bare' /\ SiblingsEmpty' /\ Emptied("data")'
  BY <1>0, <1>1 DEF OutWorld, Bare, SiblingsEmpty, Emptied, FarmPlaces
<1>4. OutputAtData'
  BY <1>0 DEF OutWorld, OutputAtData, Emptied
<1>5. Untouched /\ ns'.journal = ns.journal
  BY <1>0 DEF Keep, output, Untouched, Exchanged, Namespaces
<1> QED BY <1>2, <1>3, <1>4, <1>5 DEF OutWorld, CallEffect

(***************************************************************************)
(* The maintenance marker.                                                 *)
(*                                                                         *)
(* A teardown after Steam changed the game keeps the output in a batch of  *)
(* its own and sets the marker that keeps mods off.  The journal remembers *)
(* which of the two it is, so that a restart goes on with it, and the      *)
(* marker is set with the capture: until then the farm is still live at    *)
(* Data.                                                                   *)
(***************************************************************************)
(* The teardown the journal describes is one after a change by Steam.      *)
Preserving == ns.journal # None /\ ns.journal.capture = "preserve"

(* Unverified files are marked.                                            *)
Marked == unverified => maint

(* The teardown has not captured Data yet.                                 *)
FarmStillLive == Preserving /\ ns.data = ns.journal.farm /\ dir[ns.data].meta = "full"

(* The marker is there as soon as a teardown has captured Data.            *)
MarkedUnlessLive == Marked \/ FarmStillLive

(* A preserving operation is one after a change by Steam, and none         *)
(* exchanges farms after one.                                              *)
SteamRecorded ==
  /\ Preserving => changed
  /\ op.opts = "preserve" => changed
  /\ pc \in ExchangeSteps => ~changed
  /\ pc \in ActivateSteps => op.opts = "overwrite"

(* Steps before which Data was captured, and steps outside a teardown.     *)
CapturedSteps ==
  {"a_rename", "a_mkdir", "a_record", "a_build", "a_seal", "b_check", "b_remove",
   "p_build", "p_seal", "p_intent", "p_swap", "p_back", "r_mark_data", "r_retire",
   "x_remove"}
UnjournalledSteps ==
  ActivateSteps \cup RollBackSteps \cup RecoverySteps \cup {"r_capture", "r_begin"}

(* Before a step that removes Data, retires it or moves it aside, its      *)
(* output was captured and the marker set; and a restore captures Data     *)
(* first, or had nothing to capture.                                       *)
DataCaptured ==
  /\ pc \in CapturedSteps => Emptied("data") /\ Marked
  /\ pc = "x_capture" =>
       /\ (Emptied("data") /\ Marked) \/ (op.todo # <<>> /\ Head(op.todo) = "data")
       /\ Preserving => op.opts = "preserve"
  /\ pc \in UnjournalledSteps => ns.journal = None

(* The invariant about output and its marker.                              *)
OInv == OutWorld /\ MarkedUnlessLive /\ SteamRecorded /\ DataCaptured

(* Where the marker cannot be missing.                                     *)
LEMMA MarkedWhere ==
  ASSUME IInv, OInv, ns.journal = None \/ ns.data \in {None, Original} \/ ~changed
  PROVE  Marked
<1>1. ns.journal # None => ns.journal.farm \notin {None, Original}
  BY IdentityAssumption DEF IInv, WorldOK, DiskOK, Namespaces, RecordsTrue, Journals,
     Dirs
<1> QED BY <1>1 DEF OInv, MarkedUnlessLive, FarmStillLive, SteamRecorded, Preserving

(* A call that leaves the marker and the change by Steam alone keeps it.   *)
LEMMA MarkedStays ==
  ASSUME Untouched
  PROVE  /\ Marked => Marked' /\ MarkedUnlessLive'
         /\ /\ MarkedUnlessLive /\ ns'.journal = ns.journal /\ ns'.data = ns.data
            /\ dir'[ns.data] = dir[ns.data]
            => MarkedUnlessLive'
BY DEF Untouched, Marked, MarkedUnlessLive, FarmStillLive, Preserving

(* A capture sets the marker, where it is told to.                         *)
LEMMA MarkedByCapture ==
  ASSUME WorldOK, MarkedUnlessLive, NEW p \in Places, NEW opts, NEW marker,
         Captured(p, opts, marker), Preserving => opts = "preserve" /\ marker
  PROVE  /\ Marked => Marked'
         /\ MarkedUnlessLive'
         /\ p = "data" => Marked'
<1>0. ns' = ns /\ \A d \in Dirs : dir'[d].meta = dir[d].meta
  BY CaptureEffect
<1>1. CASE Stay /\ (ns[p] = None \/ dir[ns[p]].meta # "full")
  <2>1. Marked <=> Marked'
    BY <1>1 DEF Stay, Keep, output, Marked
  <2>2. MarkedUnlessLive'
    BY <1>1, <2>1 DEF Stay, Keep, MarkedUnlessLive, FarmStillLive, Preserving
  <2>3. p = "data" => ~FarmStillLive
    <3>1. ns.journal # None => ns.journal.farm # None
      BY IdentityAssumption DEF WorldOK, DiskOK, Namespaces, Journals, Dirs
    <3> QED BY <1>1, <3>1 DEF FarmStillLive, Preserving
  <2> QED BY <2>1, <2>2, <2>3 DEF MarkedUnlessLive
<1>2. CASE ~(ns[p] = None \/ dir[ns[p]].meta # "full")
  <2>1. CASE Preserving
    <3>1. maint' = (maint \/ (opts = "preserve" /\ marker))
      BY <1>2 DEF Captured
    <3>2. Marked'
      BY <2>1, <3>1 DEF Marked
    <3> QED BY <3>2 DEF MarkedUnlessLive
  <2>2. CASE ~Preserving
    <3>1. Marked
      BY <2>2 DEF MarkedUnlessLive, FarmStillLive
    <3>2. /\ maint' = (maint \/ (opts = "preserve" /\ marker))
          /\ unverified' = (unverified \/ (/\ dir[ns[p]].out # {} /\ ns.journal # None
                                          /\ ns.journal.farm = ns[p]
                                          /\ ns.journal.capture = "preserve"))
      BY <1>2 DEF Captured
    <3>3. Marked'
      BY <2>2, <3>1, <3>2, Zenon DEF Marked, Preserving
    <3> QED BY <3>3 DEF MarkedUnlessLive
  <2> QED BY <2>1, <2>2
<1> QED BY <1>1, <1>2 DEF Captured

(* A capture that fails half-way loses no marker.                          *)
LEMMA MarkedByFailure ==
  ASSUME WorldOK, OutWorld, MarkedUnlessLive, NEW p \in Places, NEW opts, CaptureFails(p, opts)
  PROVE  MarkedUnlessLive' /\ (Marked /\ ~Preserving => Marked')
<1>0. ns' = ns /\ \A d \in Dirs : dir'[d].meta = dir[d].meta
  BY CaptureEffect
<1>1. CASE Stay
  <2>1. Marked <=> Marked'
    BY <1>1 DEF Stay, Keep, output, Marked
  <2> QED BY <1>1, <2>1 DEF Stay, Keep, MarkedUnlessLive, FarmStillLive, Preserving
<1>2. CASE Captured(p, opts, FALSE) /\ ns[p] # None /\ dir[ns[p]].meta = "full"
  <2> DEFINE told == /\ dir[ns[p]].out # {} /\ ns.journal # None
                     /\ ns.journal.farm = ns[p] /\ ns.journal.capture = "preserve"
  <2>1. maint' = (maint \/ (opts = "preserve" /\ FALSE)) /\ unverified' = (unverified \/ told)
    BY <1>2 DEF Captured
  <2>2. Preserving' <=> Preserving
    BY <1>0 DEF Preserving
  <2>3. FarmStillLive => FarmStillLive'
    <3>1. FarmStillLive => ns.data \in Dirs
      BY DEF FarmStillLive, Preserving, WorldOK, DiskOK, Namespaces, Journals
    <3> QED BY <1>0, <2>2, <3>1 DEF FarmStillLive
  <2>4. CASE told
    <3>1. p = "data"
      BY <2>4, <1>2, IdentityAssumption DEF OutWorld, SiblingsEmpty, Emptied,
         FarmPlaces, Places,
         WorldOK, RecordsTrue, Home
    <3>2. FarmStillLive
      BY <1>2, <2>4, <3>1 DEF FarmStillLive, Preserving
    <3> QED BY <2>3, <2>4, <3>2 DEF MarkedUnlessLive, Preserving
  <2>5. CASE ~told
    <3> HIDE DEF told
    <3>1. Marked => Marked'
      BY <2>1, <2>5, Zenon DEF Marked
    <3> QED BY <2>3, <3>1 DEF MarkedUnlessLive
  <2> QED BY <2>4, <2>5
<1>3. CASE Captured(p, opts, FALSE) /\ ~(ns[p] # None /\ dir[ns[p]].meta = "full")
  BY <1>1, <1>3 DEF Captured
<1> QED BY <1>1, <1>2, <1>3 DEF CaptureFails

(***************************************************************************)
(* One lemma per group of actions.                                         *)
(***************************************************************************)
(* Between operations no capture is due.                                   *)
LEMMA NoOpPlain == NoOp.opts = "overwrite" /\ NoOp.todo = <<>>
BY DEF NoOp

(* The removal of a sibling: what it held was empty of output.             *)
LEMMA OutSibling ==
  ASSUME IInv, OInv, NEW p \in FarmPlaces \ {"data"},
         EraseOk(p) \/ EraseFails(p) \/ EraseAndSyncFails(p) \/ ErasedPartly(p)
  PROVE  CallEffect /\ (Emptied("data") => Emptied("data")') /\ MarkedUnlessLive'
<1>1. WorldOK /\ OutWorld /\ Emptied(p)
  BY DEF IInv, OInv, OutWorld, SiblingsEmpty
<1>2. /\ CallEffect /\ (Emptied("data") => Emptied("data")') /\ ns'.data = ns.data
      /\ ns.data # None => dir'[ns.data] = dir[ns.data]
  BY <1>1, OutErase
<1>3. CASE ns.data = None
  BY <1>2, <1>3, MarkedWhere, MarkedStays DEF CallEffect
<1>4. CASE ns.data # None
  BY <1>2, <1>4, MarkedStays DEF CallEffect, OInv
<1> QED BY <1>2, <1>3, <1>4

(* An activation starts from an original without output.                   *)
LEMMA OutActivate ==
  ASSUME IInv, RInv, GInv, OInv, Activate
  PROVE  OInv'
<1> USE DEF SteamRecorded, DataCaptured, CapturedSteps, UnjournalledSteps,
     ActivateSteps,
        RollBackSteps, RecoverySteps, ReconcileSteps, ExchangeSteps, FinishSteps
<1> USE DEF Go, Fail, End, Preserving, CallEffect, Untouched, control
<1>0. /\ WorldOK /\ OutWorld /\ MarkedUnlessLive /\ SteamRecorded /\ DataCaptured
      /\ op \in Locals /\ ns \in Namespaces /\ Home
      /\ NoOp.opts = "overwrite"
      /\ pc \in FinishSteps => ns.data = Original
      /\ Marked \/ ns.journal # None
      /\ pc \in UnjournalledSteps \cup ExchangeSteps \cup FinishSteps => Marked
  BY MarkedWhere, NoOpPlain DEF IInv, OInv, RInv, OriginalInUse, WorldOK, DiskOK,
     Steered, ControlOK
<1>1. CASE ABegin
  <2>1. CallEffect /\ (Emptied("data") => Emptied("data")')
    BY <1>0, <1>1, OutRecord DEF ABegin, Records
  <2>2. ns.journal = None /\ Emptied("data")
    BY <1>0, <1>1 DEF ABegin, CanActivate, HasSentinel, OutWorld, Bare, Emptied,
       Namespaces, OptDirs
  <2>3. Marked' /\ MarkedUnlessLive'
    BY <1>0, <2>1, <2>2, MarkedStays
  <2>4. /\ pc' \in {"idle", "a_rename"} /\ op'.opts \in {op.opts, "overwrite"}
        /\ pc' = "a_rename" => op'.opts = "overwrite"
    BY <1>1 DEF ABegin, NoOp
  <2>5. SteamRecorded' /\ DataCaptured'
    BY <1>0, <2>1, <2>2, <2>3, <2>4
  <2> QED BY <2>1, <2>3, <2>5 DEF OInv
<1>2. CASE ARename
  <2>1. CallEffect /\ Emptied("data")'
    BY <1>0, <1>2, OutMoveCall DEF ARename, Places
  <2>2. Marked' /\ MarkedUnlessLive'
    BY <1>0, <1>2, <2>1, MarkedStays DEF ARename, Places
  <2>3. SteamRecorded' /\ DataCaptured'
    BY <1>0, <1>2, <2>1, <2>2 DEF ARename
  <2> QED BY <2>1, <2>2, <2>3 DEF OInv
<1>3. CASE AAbort
  <2>1. CallEffect /\ (Emptied("data") => Emptied("data")')
    BY <1>0, <1>3, OutRecord, OutStay DEF AAbort, Records
  <2>2. Marked' /\ MarkedUnlessLive'
    BY <1>0, <1>3, <2>1, MarkedStays DEF AAbort, Records
  <2>3. SteamRecorded' /\ DataCaptured'
    BY <1>0, <1>3, <2>1, <2>2 DEF AAbort
  <2> QED BY <2>1, <2>2, <2>3 DEF OInv
<1>4. CASE AMkdir
  <2>1. CallEffect /\ Emptied("data")'
    <3>1. EmptyDir \in Content /\ EmptyDir.out = {}
      BY ContentTypes DEF EmptyDir
    <3> QED BY <1>0, <1>4, <3>1, OutMake, OutStay DEF AMkdir, MakeOk
  <2>2. Marked' /\ MarkedUnlessLive'
    BY <1>0, <1>4, <2>1, MarkedStays DEF AMkdir
  <2>3. SteamRecorded' /\ DataCaptured'
    BY <1>0, <1>4, <2>1, <2>2 DEF AMkdir, Locals
  <2> QED BY <2>1, <2>2, <2>3 DEF OInv
<1>5. CASE ARecord
  <2>1. CallEffect /\ (Emptied("data") => Emptied("data")')
    BY <1>0, <1>5, OutRecord, OutStay DEF ARecord, Records
  <2>2. Marked' /\ MarkedUnlessLive'
    BY <1>0, <1>5, <2>1, MarkedStays DEF ARecord, Records
  <2>3. SteamRecorded' /\ DataCaptured'
    BY <1>0, <1>5, <2>1, <2>2 DEF ARecord
  <2> QED BY <2>1, <2>2, <2>3 DEF OInv
<1>6. CASE ABuild
  <2>1. CallEffect /\ Emptied("data")'
    <3>1. PlainDir \in Content /\ PlainDir.out = {}
      BY ContentTypes DEF PlainDir, EmptyDir
    <3> QED BY <1>0, <1>6, <3>1, OutFill, OutStay DEF ABuild
  <2>2. Marked' /\ MarkedUnlessLive'
    BY <1>0, <1>6, <2>1, MarkedStays DEF ABuild
  <2>3. SteamRecorded' /\ DataCaptured'
    BY <1>0, <1>6, <2>1, <2>2 DEF ABuild
  <2> QED BY <2>1, <2>2, <2>3 DEF OInv
<1>7. CASE ASeal
  <2>1. CASE Fault /\ Stay /\ Go("b_check")
    <3>1. CallEffect /\ (Emptied("data") => Emptied("data")')
      BY <1>0, <2>1, OutStay
    <3>2. Marked' /\ MarkedUnlessLive'
      BY <1>0, <1>7, <3>1, MarkedStays DEF ASeal
    <3>3. SteamRecorded' /\ DataCaptured'
      BY <1>0, <1>7, <2>1, <3>1, <3>2 DEF ASeal
    <3> QED BY <3>1, <3>2, <3>3 DEF OInv
  <2>2. CASE /\ Filled("data", FarmDir(op.layers)) /\ changed' = FALSE
             /\ Go("a_clear") \/ Go("b_check")
    <3>1. FarmDir(op.layers) \in Content /\ FarmDir(op.layers).out = {}
      BY <1>0 DEF FarmDir, Content, Locals
    <3>2. /\ OutWorld' /\ Emptied("data")' /\ maint' = maint /\ unverified' = unverified
          /\ ns' = ns
      BY <1>0, <1>7, <2>2, <3>1, OutFill DEF ASeal
    <3>3. Marked' /\ MarkedUnlessLive'
      BY <1>0, <1>7, <3>2 DEF ASeal, Marked, MarkedUnlessLive
    <3>4. SteamRecorded' /\ DataCaptured'
      BY <1>0, <1>7, <2>2, <3>2, <3>3 DEF ASeal
    <3> QED BY <3>2, <3>3, <3>4 DEF OInv
  <2> QED BY <1>7, <2>1, <2>2 DEF ASeal
<1>8. CASE AClear
  <2>1. CallEffect /\ (Emptied("data") => Emptied("data")')
    BY <1>0, <1>8, OutRecord, OutStay DEF AClear, Records
  <2>2. Marked' /\ MarkedUnlessLive'
    BY <1>0, <1>8, <2>1, MarkedStays DEF AClear, Records
  <2>3. SteamRecorded' /\ DataCaptured'
    BY <1>0, <1>8, <2>1, <2>2 DEF AClear
  <2> QED BY <2>1, <2>2, <2>3 DEF OInv
<1> QED BY <1>1, <1>2, <1>3, <1>4, <1>5, <1>6, <1>7, <1>8 DEF Activate

(* Its roll-back removes a folder the game never ran on.                   *)
LEMMA OutRollBack ==
  ASSUME IInv, RInv, GInv, OInv, RollBack
  PROVE  OInv'
<1> USE DEF SteamRecorded, DataCaptured, CapturedSteps, UnjournalledSteps,
     ActivateSteps,
        RollBackSteps, RecoverySteps, ReconcileSteps, ExchangeSteps, FinishSteps
<1> USE DEF Go, Fail, End, Preserving, CallEffect, Untouched, control
<1>0. /\ WorldOK /\ OutWorld /\ MarkedUnlessLive /\ SteamRecorded /\ DataCaptured
      /\ op \in Locals /\ ns \in Namespaces /\ Home
      /\ NoOp.opts = "overwrite"
      /\ pc \in FinishSteps => ns.data = Original
      /\ Marked \/ ns.journal # None
      /\ pc \in UnjournalledSteps \cup ExchangeSteps \cup FinishSteps => Marked
  BY MarkedWhere, NoOpPlain DEF IInv, OInv, RInv, OriginalInUse, WorldOK, DiskOK,
     Steered, ControlOK
<1>1. CASE BCheck
  <2>1. CallEffect /\ ns' = ns /\ dir' = dir /\ (Emptied("data") => Emptied("data")')
    BY <1>0, <1>1, OutStay DEF BCheck
  <2>2. Marked' /\ MarkedUnlessLive'
    BY <1>0, <1>1, <2>1, MarkedStays DEF BCheck
  <2>3. SteamRecorded' /\ DataCaptured'
    BY <1>0, <1>1, <2>1, <2>2 DEF BCheck
  <2> QED BY <2>1, <2>2, <2>3 DEF OInv
<1>2. CASE BRemove
  <2>1. CallEffect /\ (Emptied("data") => Emptied("data")')
    BY <1>0, <1>2, OutErase DEF BRemove, FarmPlaces
  <2>2. Marked' /\ MarkedUnlessLive'
    BY <1>0, <1>2, <2>1, MarkedStays DEF BRemove, FarmPlaces
  <2>3. SteamRecorded' /\ DataCaptured'
    BY <1>0, <1>2, <2>1, <2>2 DEF BRemove
  <2> QED BY <2>1, <2>2, <2>3 DEF OInv
<1>3. CASE BRename
  <2>1. CallEffect
    BY <1>0, <1>3, OutMoveCall DEF BRename, Places
  <2>2. Marked' /\ MarkedUnlessLive'
    BY <1>0, <1>3, <2>1, MarkedStays DEF BRename, Places
  <2>3. SteamRecorded' /\ DataCaptured'
    BY <1>0, <1>3, <2>1, <2>2 DEF BRename
  <2> QED BY <2>1, <2>2, <2>3 DEF OInv
<1>4. CASE BClear
  <2>1. CallEffect /\ (Emptied("data") => Emptied("data")')
    BY <1>0, <1>4, OutRecord, OutStay DEF BClear, Records
  <2>2. Marked' /\ MarkedUnlessLive'
    BY <1>0, <1>4, <2>1, MarkedStays DEF BClear, Records
  <2>3. SteamRecorded' /\ DataCaptured'
    BY <1>0, <1>4, <2>1, <2>2 DEF BClear, Restored
  <2> QED BY <2>1, <2>2, <2>3 DEF OInv
<1> QED BY <1>1, <1>2, <1>3, <1>4 DEF RollBack

(* An apply captures the farm at Data before it exchanges it.              *)
LEMMA OutApply ==
  ASSUME IInv, RInv, GInv, OInv, MarkDirty \/ Apply
  PROVE  OInv'
<1> USE DEF SteamRecorded, DataCaptured, CapturedSteps, UnjournalledSteps,
     ActivateSteps,
        RollBackSteps, RecoverySteps, ReconcileSteps, ExchangeSteps, FinishSteps
<1> USE DEF Go, Fail, End, Preserving, CallEffect, Untouched, control
<1>0. /\ WorldOK /\ OutWorld /\ MarkedUnlessLive /\ SteamRecorded /\ DataCaptured
      /\ op \in Locals /\ ns \in Namespaces /\ Home
      /\ NoOp.opts = "overwrite"
      /\ pc \in FinishSteps => ns.data = Original
      /\ Marked \/ ns.journal # None
      /\ pc \in UnjournalledSteps \cup ExchangeSteps \cup FinishSteps => Marked
  BY MarkedWhere, NoOpPlain DEF IInv, OInv, RInv, OriginalInUse, WorldOK, DiskOK,
     Steered, ControlOK
<1>1. CASE MarkDirty
  <2>1. CallEffect /\ ns' = ns /\ dir' = dir /\ (Emptied("data") => Emptied("data")')
    BY <1>0, <1>1, OutStay DEF MarkDirty
  <2>2. MarkedUnlessLive'
    BY <1>0, <2>1, MarkedStays
  <2>3. SteamRecorded' /\ DataCaptured'
    BY <1>0, <1>1, <2>1, <2>2 DEF MarkDirty
  <2> QED BY <2>1, <2>2, <2>3 DEF OInv
<1>2. CASE PBegin
  <2>1. CallEffect /\ ns' = ns /\ dir' = dir /\ (Emptied("data") => Emptied("data")')
    BY <1>0, <1>2, OutStay DEF PBegin
  <2>2. MarkedUnlessLive'
    BY <1>0, <2>1, MarkedStays
  <2>3. SteamRecorded' /\ DataCaptured'
    BY <1>0, <1>2, <2>1, <2>2 DEF PBegin, CanApply, Start, NoOp
  <2> QED BY <2>1, <2>2, <2>3 DEF OInv
<1>3. CASE PCapture
  <2>1. ns' = ns /\ changed' = changed /\ OutWorld' /\ Marked' /\ MarkedUnlessLive'
        /\ (pc' = "p_build" => Emptied("data")')
    <3>1. CASE Captured("data", "overwrite", FALSE)
      BY <1>0, <1>3, <3>1, CaptureEffect, OutCapture, MarkedByCapture
         DEF PCapture, Places
    <3>2. CASE CaptureFails("data", "overwrite") /\ Fail
      BY <1>0, <1>3, <3>2, CaptureEffect, OutCapture, MarkedByFailure
         DEF PCapture, Places
    <3>3. CASE Stay /\ Fail
      BY <1>0, <1>3, <3>3, OutStay, MarkedStays DEF PCapture
    <3> QED BY <1>3, <3>1, <3>2, <3>3 DEF PCapture
  <2>2. SteamRecorded' /\ DataCaptured'
    BY <1>0, <1>3, <2>1 DEF PCapture
  <2> QED BY <2>1, <2>2 DEF OInv
<1>4. CASE PBuild
  <2>1. CallEffect /\ Emptied("data")'
    <3>1. PlainDir \in Content /\ PlainDir.out = {}
      BY ContentTypes DEF PlainDir, EmptyDir
    <3> QED BY <1>0, <1>4, <3>1, OutMake, OutStay DEF PBuild, MakeOk
  <2>2. Marked' /\ MarkedUnlessLive'
    BY <1>0, <1>4, <2>1, MarkedStays DEF PBuild
  <2>3. SteamRecorded' /\ DataCaptured'
    BY <1>0, <1>4, <2>1, <2>2 DEF PBuild
  <2> QED BY <2>1, <2>2, <2>3 DEF OInv
<1>5. CASE PSeal
  <2>1. CallEffect /\ Emptied("data")'
    <3>1. FarmDir(op.layers) \in Content /\ FarmDir(op.layers).out = {}
      BY <1>0 DEF FarmDir, Content, Locals
    <3>2. UNCHANGED changed \/ Stay
      BY <1>5 DEF PSeal
    <3> QED BY <1>0, <1>5, <3>1, OutFill, OutStay DEF PSeal
  <2>2. Marked' /\ MarkedUnlessLive'
    BY <1>0, <1>5, <2>1, MarkedStays DEF PSeal
  <2>3. SteamRecorded' /\ DataCaptured'
    BY <1>0, <1>5, <2>1, <2>2 DEF PSeal
  <2> QED BY <2>1, <2>2, <2>3 DEF OInv
<1>6. CASE PIntent
  <2>1. CallEffect /\ (Emptied("data") => Emptied("data")')
    BY <1>0, <1>6, OutRecord, OutStay DEF PIntent, Records
  <2>2. Marked' /\ MarkedUnlessLive'
    BY <1>0, <1>6, <2>1, MarkedStays DEF PIntent, Records
  <2>3. SteamRecorded' /\ DataCaptured'
    BY <1>0, <1>6, <2>1, <2>2 DEF PIntent
  <2> QED BY <2>1, <2>2, <2>3 DEF OInv
<1>7. CASE PUnstage
  <2>1. CallEffect /\ (Emptied("data") => Emptied("data")')
    BY <1>0, <1>7, OutSibling DEF PUnstage, FarmPlaces
  <2>2. MarkedUnlessLive'
    BY <1>7, OutSibling DEF PUnstage, FarmPlaces
  <2>3. SteamRecorded' /\ DataCaptured'
    BY <1>0, <1>7, <2>1, <2>2 DEF PUnstage, FailUnclean
  <2> QED BY <2>1, <2>2, <2>3 DEF OInv
<1>8. CASE PSwap
  <2>1. CallEffect /\ Emptied("data")'
    BY <1>0, <1>8, OutSwap, OutStay DEF PSwap
  <2>2. Marked' /\ MarkedUnlessLive'
    BY <1>0, <1>8, <2>1, MarkedStays DEF PSwap
  <2>3. SteamRecorded' /\ DataCaptured'
    BY <1>0, <1>8, <2>1, <2>2 DEF PSwap
  <2> QED BY <2>1, <2>2, <2>3 DEF OInv
<1>9. CASE PBack
  <2>1. CallEffect /\ Emptied("data")'
    BY <1>0, <1>9, OutSwap, OutStay DEF PBack
  <2>2. Marked' /\ MarkedUnlessLive'
    BY <1>0, <1>9, <2>1, MarkedStays DEF PBack
  <2>3. SteamRecorded' /\ DataCaptured'
    BY <1>0, <1>9, <2>1, <2>2 DEF PBack, CommittedUnclean
  <2> QED BY <2>1, <2>2, <2>3 DEF OInv
<1>10. CASE PUnswap
  <2>1. CallEffect /\ (Emptied("data") => Emptied("data")')
    BY <1>0, <1>10, OutSibling DEF PUnswap, FarmPlaces
  <2>2. MarkedUnlessLive'
    BY <1>10, OutSibling DEF PUnswap, FarmPlaces
  <2>3. SteamRecorded' /\ DataCaptured'
    BY <1>0, <1>10, <2>1, <2>2 DEF PUnswap, FailUnclean
  <2> QED BY <2>1, <2>2, <2>3 DEF OInv
<1>11. CASE PUnintent
  <2>1. CallEffect /\ (Emptied("data") => Emptied("data")') /\ ns'.data = ns.data /\ dir' = dir
    BY <1>0, <1>11, OutRecord DEF PUnintent, Records
  <2>2. MarkedUnlessLive'
    BY <1>0, <2>1, MarkedStays
  <2>3. SteamRecorded' /\ DataCaptured'
    BY <1>0, <1>11, <2>1, <2>2 DEF PUnintent, FailUnclean
  <2> QED BY <2>1, <2>2, <2>3 DEF OInv
<1>12. CASE PRemove
  <2>1. CallEffect /\ (Emptied("data") => Emptied("data")')
    BY <1>0, <1>12, OutSibling DEF PRemove, FarmPlaces
  <2>2. MarkedUnlessLive'
    BY <1>12, OutSibling DEF PRemove, FarmPlaces
  <2>3. SteamRecorded' /\ DataCaptured'
    BY <1>0, <1>12, <2>1, <2>2 DEF PRemove, CommittedUnclean
  <2> QED BY <2>1, <2>2, <2>3 DEF OInv
<1>13. CASE PClear
  <2>1. CallEffect /\ (Emptied("data") => Emptied("data")') /\ ns'.data = ns.data /\ dir' = dir
    BY <1>0, <1>13, OutRecord DEF PClear, Records
  <2>2. MarkedUnlessLive'
    BY <1>0, <2>1, MarkedStays
  <2>3. SteamRecorded' /\ DataCaptured'
    BY <1>0, <1>13, <2>1, <2>2 DEF PClear, Committed
  <2> QED BY <2>1, <2>2, <2>3 DEF OInv
<1> QED BY <1>1, <1>2, <1>3, <1>4, <1>5, <1>6, <1>7, <1>8, <1>9, <1>10, <1>11, <1>12,
     <1>13 DEF Apply

(* A teardown captures Data and what it retired before each rename and     *)
(* removal.                                                                *)
LEMMA OutTeardown ==
  ASSUME IInv, RInv, GInv, OInv, Teardown
  PROVE  OInv'
<1> USE DEF SteamRecorded, DataCaptured, CapturedSteps, UnjournalledSteps,
     ActivateSteps,
        RollBackSteps, RecoverySteps, ReconcileSteps, ExchangeSteps, FinishSteps
<1> USE DEF Go, Fail, End, Preserving, CallEffect, Untouched, control
<1>0. /\ WorldOK /\ OutWorld /\ MarkedUnlessLive /\ SteamRecorded /\ DataCaptured
      /\ op \in Locals /\ ns \in Namespaces /\ Home
      /\ NoOp.opts = "overwrite"
      /\ pc \in FinishSteps => ns.data = Original
      /\ Marked \/ ns.journal # None
      /\ pc \in UnjournalledSteps \cup ExchangeSteps \cup FinishSteps => Marked
  BY MarkedWhere, NoOpPlain DEF IInv, OInv, RInv, OriginalInUse, WorldOK, DiskOK,
     Steered, ControlOK
<1>1. CASE DBegin
  <2>1. CallEffect /\ ns' = ns /\ dir' = dir /\ (Emptied("data") => Emptied("data")')
    BY <1>0, <1>1, OutStay DEF DBegin
  <2>2. MarkedUnlessLive'
    BY <1>0, <2>1, MarkedStays
  <2>3. SteamRecorded' /\ DataCaptured'
    BY <1>0, <1>1, <2>1, <2>2 DEF DBegin, Start, NoOp, Decision
  <2> QED BY <2>1, <2>2, <2>3 DEF OInv
<1>2. CASE RCapture
  <2>1. ns' = ns /\ changed' = changed /\ OutWorld' /\ Marked' /\ MarkedUnlessLive'
    <3>1. CASE Captured("data", "overwrite", FALSE)
      BY <1>0, <1>2, <3>1, CaptureEffect, OutCapture, MarkedByCapture
         DEF RCapture, Places
    <3>2. CASE CaptureFails("data", "overwrite")
      BY <1>0, <1>2, <3>2, CaptureEffect, OutCapture, MarkedByFailure
         DEF RCapture, Places
    <3>3. CASE Stay
      BY <1>0, <1>2, <3>3, OutStay, MarkedStays DEF RCapture
    <3> QED BY <1>2, <3>1, <3>2, <3>3 DEF RCapture
  <2>2. (pc' = "idle" /\ op' = NoOp) \/ (pc' = "r_begin" /\ op' = op)
    BY <1>2 DEF RCapture, Pending
  <2>3. SteamRecorded' /\ DataCaptured'
    BY <1>0, <1>2, <2>1, <2>2 DEF RCapture
  <2> QED BY <2>1, <2>3 DEF OInv
<1>3. CASE RBegin
  <2> DEFINE j == NewJournal(ns.data, ns.orig, op.opts)
  <2>1. /\ OutWorld' /\ Untouched
        /\ ns' = ns \/ ns' = [ns EXCEPT !.journal = j]
    BY <1>0, <1>3, OutJournal, OutStay DEF RBegin, JournalFails, Journalled
  <2>2. j.capture = op.opts
    BY DEF NewJournal
  <2>3. Marked' /\ MarkedUnlessLive'
    BY <1>0, <1>3, <2>1, MarkedStays DEF RBegin
  <2>4. Preserving' => changed'
    <3>1. CASE ns' = ns
      BY <1>0, <2>1, <3>1
    <3>2. CASE ns' = [ns EXCEPT !.journal = j]
      BY <1>0, <2>1, <2>2, <3>2 DEF Namespaces
    <3> QED BY <2>1, <3>1, <3>2
  <2>5. pc' \in {"idle", "r_loop"} /\ op' \in {op, NoOp}
    BY <1>3 DEF RBegin
  <2>6. SteamRecorded' /\ DataCaptured'
    BY <1>0, <2>1, <2>4, <2>5
  <2> QED BY <2>1, <2>3, <2>6 DEF OInv
<1>4. CASE RLive
  <2>0. "data" \in Places
    BY DEF Places
  <2>1. /\ ns' = ns /\ changed' = changed /\ OutWorld' /\ MarkedUnlessLive'
        /\ \/ pc' = "idle" /\ op' = NoOp
           \/ pc' \in {"r_mark_data", "r_retire"} /\ op' = op /\ Emptied("data")' /\ Marked'
    <3>1. CASE Captured("data", ns.journal.capture, TRUE)
               /\ Go(IF ns.journal.dataCaptured THEN "r_retire" ELSE "r_mark_data")
      <4>1. ns' = ns /\ changed' = changed
        BY <1>0, <2>0, <3>1, CaptureEffect
      <4>2. OutWorld' /\ Emptied("data")'
        BY <1>0, <2>0, <3>1, OutCapture
      <4>3. MarkedUnlessLive' /\ ("data" = "data" => Marked')
        BY <1>0, <2>0, <3>1, MarkedByCapture
      <4> QED BY <3>1, <4>1, <4>2, <4>3
    <3>2. CASE CaptureFails("data", ns.journal.capture) /\ CaptureRefused
      <4>1. ns' = ns /\ changed' = changed
        BY <1>0, <2>0, <3>2, CaptureEffect
      <4>2. OutWorld' /\ MarkedUnlessLive'
        BY <1>0, <2>0, <3>2, OutCapture, MarkedByFailure
      <4> QED BY <3>2, <4>1, <4>2 DEF CaptureRefused, Pending
    <3>3. CASE Stay /\ CaptureRefused
      BY <1>0, <3>3, OutStay, MarkedStays DEF CaptureRefused, Pending
    <3> QED BY <1>4, <3>1, <3>2, <3>3 DEF RLive, RecordedCapture
  <2>2. SteamRecorded' /\ DataCaptured'
    BY <1>0, <2>1
  <2> QED BY <2>1, <2>2 DEF OInv
<1>5. CASE RRestore
  <2>1. CallEffect
    BY <1>0, <1>5, OutMoveCall DEF RRestore, Places
  <2>2. Marked
    BY <1>5, MarkedWhere DEF RRestore, FarmIsRetired
  <2>3. Marked' /\ MarkedUnlessLive'
    BY <2>1, <2>2, MarkedStays
  <2>4. SteamRecorded' /\ DataCaptured'
    BY <1>0, <1>5, <2>1, <2>3 DEF RRestore
  <2> QED BY <2>1, <2>3, <2>4 DEF OInv
<1>6. CASE RRetired
  <2>0. "retired" \in Places
    BY DEF Places
  <2>1. /\ ns' = ns /\ changed' = changed /\ OutWorld' /\ MarkedUnlessLive'
        /\ \/ pc' = "idle" /\ op' = NoOp
           \/ pc' \in {"r_mark_retired", "r_drop"} /\ op' = op
    <3>1. CASE Captured("retired", ns.journal.capture, TRUE)
               /\ Go(IF ns.journal.retiredCaptured THEN "r_drop" ELSE "r_mark_retired")
      <4>1. ns' = ns /\ changed' = changed
        BY <1>0, <2>0, <3>1, CaptureEffect
      <4>2. OutWorld' /\ Emptied("retired")'
        BY <1>0, <2>0, <3>1, OutCapture
      <4>3. MarkedUnlessLive' /\ ("retired" = "data" => Marked')
        BY <1>0, <2>0, <3>1, MarkedByCapture
      <4> QED BY <3>1, <4>1, <4>2, <4>3
    <3>2. CASE CaptureFails("retired", ns.journal.capture) /\ CaptureRefused
      <4>1. ns' = ns /\ changed' = changed
        BY <1>0, <2>0, <3>2, CaptureEffect
      <4>2. OutWorld' /\ MarkedUnlessLive'
        BY <1>0, <2>0, <3>2, OutCapture, MarkedByFailure
      <4> QED BY <3>2, <4>1, <4>2 DEF CaptureRefused, Pending
    <3>3. CASE Stay /\ CaptureRefused
      BY <1>0, <3>3, OutStay, MarkedStays DEF CaptureRefused, Pending
    <3> QED BY <1>6, <3>1, <3>2, <3>3 DEF RRetired, RecordedCapture
  <2>2. SteamRecorded' /\ DataCaptured'
    BY <1>0, <2>1
  <2> QED BY <2>1, <2>2 DEF OInv
<1>7. CASE RFinish
  <2>1. Marked
    <3>1. ns.data = Original
      BY <1>7 DEF RFinish, FarmIsGone, IInv, Steered, TeardownRecorded, JournalSteps,
         WorldOK, RecordsTrue
    <3> QED BY <3>1, MarkedWhere
  <2>2. OutWorld' /\ Untouched
    BY <1>0, <1>7, OutRecord DEF RFinish, Records
  <2>3. Marked' /\ MarkedUnlessLive'
    BY <2>1, <2>2, MarkedStays
  <2>4. ns'.journal \in {None, ns.journal}
    BY <1>0, <1>7 DEF RFinish, RecordOk, RecordFails, Namespaces
  <2>5. pc' = "idle" /\ op' = NoOp
    BY <1>7 DEF RFinish, Restored
  <2>6. SteamRecorded' /\ DataCaptured'
    BY <1>0, <2>2, <2>4, <2>5
  <2> QED BY <2>2, <2>3, <2>6 DEF OInv
<1>8. CASE RMismatch
  <2>1. CallEffect /\ ns' = ns /\ dir' = dir /\ (Emptied("data") => Emptied("data")')
    BY <1>0, <1>8, OutStay DEF RMismatch
  <2>2. MarkedUnlessLive'
    BY <1>0, <2>1, MarkedStays
  <2>3. SteamRecorded' /\ DataCaptured'
    BY <1>0, <1>8, <2>1, <2>2 DEF RMismatch, Pending
  <2> QED BY <2>1, <2>2, <2>3 DEF OInv
<1>9. CASE RMarkData
  <2> DEFINE j == [ns.journal EXCEPT !["dataCaptured"] = TRUE]
  <2>1. ns.journal # None /\ ns.journal \in Journals /\ j # None
    <3>1. ns.journal # None /\ ns.journal \in Journals
      BY <1>0, <1>9 DEF RMarkData, RMark, IInv, Steered, TeardownRecorded,
         JournalSteps, Namespaces
    <3>2. j \in Journals
      BY <3>1 DEF Journals
    <3> QED BY <3>1, <3>2, RecordAssumption
  <2>2. j.farm = ns.journal.farm /\ j.capture = ns.journal.capture
    BY <2>1 DEF Journals
  <2>3. /\ OutWorld' /\ Untouched /\ (Emptied("data") => Emptied("data")')
        /\ ns'.data = ns.data /\ dir' = dir
    BY <1>0, <1>9, OutJournal DEF RMarkData, RMark
  <2>4. ns'.journal \in {ns.journal, j}
    BY <1>0, <1>9 DEF RMarkData, RMark, JournalFails, Journalled, Stay, Namespaces
  <2>5. Preserving' <=> Preserving
    BY <2>1, <2>2, <2>4
  <2>6. (Marked => Marked') /\ MarkedUnlessLive'
    BY <1>0, <2>1, <2>2, <2>3, <2>4, <2>5, MarkedStays DEF MarkedUnlessLive,
       FarmStillLive
  <2>7. SteamRecorded' /\ DataCaptured'
    BY <1>0, <1>9, <2>3, <2>5, <2>6 DEF RMarkData, RMark
  <2> QED BY <2>3, <2>6, <2>7 DEF OInv
<1>10. CASE RMarkRetired
  <2> DEFINE j == [ns.journal EXCEPT !["retiredCaptured"] = TRUE]
  <2>1. ns.journal # None /\ ns.journal \in Journals /\ j # None
    <3>1. ns.journal # None /\ ns.journal \in Journals
      BY <1>0, <1>10 DEF RMarkRetired, RMark, IInv, Steered, TeardownRecorded,
         JournalSteps, Namespaces
    <3>2. j \in Journals
      BY <3>1 DEF Journals
    <3> QED BY <3>1, <3>2, RecordAssumption
  <2>2. j.farm = ns.journal.farm /\ j.capture = ns.journal.capture
    BY <2>1 DEF Journals
  <2>3. /\ OutWorld' /\ Untouched /\ (Emptied("data") => Emptied("data")')
        /\ ns'.data = ns.data /\ dir' = dir
    BY <1>0, <1>10, OutJournal DEF RMarkRetired, RMark
  <2>4. ns'.journal \in {ns.journal, j}
    BY <1>0, <1>10 DEF RMarkRetired, RMark, JournalFails, Journalled, Stay, Namespaces
  <2>5. Preserving' <=> Preserving
    BY <2>1, <2>2, <2>4
  <2>6. (Marked => Marked') /\ MarkedUnlessLive'
    BY <1>0, <2>1, <2>2, <2>3, <2>4, <2>5, MarkedStays DEF MarkedUnlessLive,
       FarmStillLive
  <2>7. SteamRecorded' /\ DataCaptured'
    BY <1>0, <1>10, <2>3, <2>5, <2>6 DEF RMarkRetired, RMark
  <2> QED BY <2>3, <2>6, <2>7 DEF OInv
<1>11. CASE RRetire
  <2>1. CallEffect /\ Emptied("data")'
    BY <1>0, <1>11, OutMoveCall DEF RRetire, Places
  <2>2. Marked' /\ MarkedUnlessLive'
    BY <1>0, <1>11, <2>1, MarkedStays DEF RRetire, Places
  <2>3. SteamRecorded' /\ DataCaptured'
    BY <1>0, <1>11, <2>1, <2>2 DEF RRetire
  <2> QED BY <2>1, <2>2, <2>3 DEF OInv
<1>12. CASE RDrop
  <2>1. CallEffect /\ (Emptied("data") => Emptied("data")')
    BY <1>0, <1>12, OutSibling DEF RDrop, FarmPlaces
  <2>2. MarkedUnlessLive'
    BY <1>12, OutSibling DEF RDrop, FarmPlaces
  <2>3. SteamRecorded' /\ DataCaptured'
    BY <1>0, <1>12, <2>1, <2>2 DEF RDrop
  <2> QED BY <2>1, <2>2, <2>3 DEF OInv
<1> QED BY <1>1, <1>2, <1>3, <1>4, <1>5, <1>6, <1>7, <1>8, <1>9, <1>10, <1>11, <1>12
     DEF Teardown, RLoop

(* Recovery goes on with what the journal, the intents and the siblings    *)
(* say.                                                                    *)
LEMMA OutCleanup ==
  ASSUME IInv, RInv, GInv, OInv, Cleanup
  PROVE  OInv'
<1> USE DEF SteamRecorded, DataCaptured, CapturedSteps, UnjournalledSteps,
     ActivateSteps,
        RollBackSteps, RecoverySteps, ReconcileSteps, ExchangeSteps, FinishSteps
<1> USE DEF Go, Fail, End, Preserving, CallEffect, Untouched, control
<1>0. /\ WorldOK /\ OutWorld /\ MarkedUnlessLive /\ SteamRecorded /\ DataCaptured
      /\ op \in Locals /\ ns \in Namespaces /\ Home
      /\ NoOp.opts = "overwrite"
      /\ pc \in FinishSteps => ns.data = Original
      /\ Marked \/ ns.journal # None
      /\ pc \in UnjournalledSteps \cup ExchangeSteps \cup FinishSteps => Marked
  BY MarkedWhere, NoOpPlain DEF IInv, OInv, RInv, OriginalInUse, WorldOK, DiskOK,
     Steered, ControlOK
<1>1. CASE CBegin
  <2>1. CallEffect /\ ns' = ns /\ dir' = dir /\ (Emptied("data") => Emptied("data")')
    BY <1>0, <1>1, OutStay DEF CBegin
  <2>2. MarkedUnlessLive'
    BY <1>0, <2>1, MarkedStays
  <2>3. SteamRecorded' /\ DataCaptured'
    BY <1>0, <1>1, <2>1, <2>2 DEF CBegin, Start, NoOp, Decision
  <2> QED BY <2>1, <2>2, <2>3 DEF OInv
<1>2. CASE CRestoring
  <2>1. CallEffect /\ ns' = ns /\ dir' = dir /\ (Emptied("data") => Emptied("data")')
    BY <1>0, <1>2, OutStay DEF CRestoring
  <2>2. MarkedUnlessLive'
    BY <1>0, <2>1, MarkedStays
  <2>3. SteamRecorded' /\ DataCaptured'
    BY <1>0, <1>2, <2>1, <2>2 DEF CRestoring, Pending
  <2> QED BY <2>1, <2>2, <2>3 DEF OInv
<1>3. CASE CJournal
  <2> DEFINE j == NewJournal(ns.journal.farm, ns.journal.backup, op.opts)
  <2>1. /\ OutWorld' /\ Untouched
        /\ ns' = ns \/ (ns' = [ns EXCEPT !.journal = j] /\ ~Preserving)
        /\ ns'.data = ns.data /\ dir' = dir
    BY <1>0, <1>3, OutJournal, OutStay DEF CJournal, JournalFails, Journalled
  <2>2. j.capture = op.opts
    BY DEF NewJournal
  <2>3. MarkedUnlessLive'
    <3>1. CASE ns' = ns
      BY <1>0, <2>1, <3>1, MarkedStays
    <3>2. CASE ~Preserving
      BY <1>0, <2>1, <3>2, MarkedStays DEF MarkedUnlessLive, FarmStillLive
    <3> QED BY <2>1, <3>1, <3>2
  <2>4. Preserving' => changed'
    <3>1. CASE ns' = ns
      BY <1>0, <2>1, <3>1
    <3>2. CASE ns' = [ns EXCEPT !.journal = j]
      BY <1>0, <2>1, <2>2, <3>2 DEF Namespaces
    <3> QED BY <2>1, <3>1, <3>2
  <2>5. \/ pc' = "idle" /\ op' = NoOp
        \/ pc' = "r_loop" /\ op'.opts = op.opts
    BY <1>0, <1>3 DEF CJournal, Pending, Locals
  <2>6. SteamRecorded' /\ DataCaptured'
    BY <1>0, <2>1, <2>4, <2>5
  <2> QED BY <2>1, <2>3, <2>6 DEF OInv
<1>4. CASE CRetired
  <2>1. CallEffect /\ ns' = ns /\ dir' = dir /\ (Emptied("data") => Emptied("data")')
    BY <1>0, <1>4, OutStay DEF CRetired
  <2>2. MarkedUnlessLive'
    BY <1>0, <2>1, MarkedStays
  <2>3. SteamRecorded' /\ DataCaptured'
    BY <1>0, <1>4, <2>1, <2>2 DEF CRetired, Pending
  <2> QED BY <2>1, <2>2, <2>3 DEF OInv
<1>5. CASE CStranded
  <2>1. Marked /\ ns.journal = None /\ ns.data = None
    BY <1>5, MarkedWhere DEF CStranded, NoTeardown
  <2>2. CallEffect
    <3>1. CASE Stay
      BY <1>0, <3>1, OutStay
    <3>2. ASSUME NEW p \in {"oldfarm", "staging"}, ns' = Moved(p, "data"), Keep
          PROVE  CallEffect
      <4>1. OutWorld'
        BY <1>0, <2>1, <3>2, OutMove DEF Places
      <4> QED BY <1>0, <3>2, <4>1 DEF Keep, output, Moved, Namespaces
    <3> QED BY <1>5, <3>1, <3>2 DEF CStranded
  <2>3. Marked' /\ MarkedUnlessLive'
    BY <2>1, <2>2, MarkedStays
  <2>4. (pc' = "idle" /\ op' = NoOp) \/ (pc' = "c_intent" /\ op' = op)
    BY <1>5 DEF CStranded, Pending
  <2>5. SteamRecorded' /\ DataCaptured'
    BY <1>0, <2>1, <2>2, <2>4
  <2> QED BY <2>2, <2>3, <2>5 DEF OInv
<1>6. CASE CNotStranded
  <2>1. CallEffect /\ ns' = ns /\ dir' = dir /\ (Emptied("data") => Emptied("data")')
    BY <1>0, <1>6, OutStay DEF CNotStranded
  <2>2. MarkedUnlessLive'
    BY <1>0, <2>1, MarkedStays
  <2>3. SteamRecorded' /\ DataCaptured'
    BY <1>0, <1>6, <2>1, <2>2 DEF CNotStranded, NoTeardown
  <2> QED BY <2>1, <2>2, <2>3 DEF OInv
<1>7. CASE CIntent
  <2>1. CallEffect /\ (Emptied("data") => Emptied("data")')
    BY <1>0, <1>7, OutRecord, OutStay DEF CIntent, CRollBack, CRollBackSchema1, Records
  <2>2. Marked' /\ MarkedUnlessLive'
    BY <1>0, <1>7, <2>1, MarkedStays DEF CIntent
  <2>3. /\ pc' \in {"idle", "c_apply", "b_rename", "b_check", "b_remove"}
        /\ op'.opts \in {op.opts, "overwrite"}
    BY <1>0, <1>7 DEF CIntent, CRollBack, CRollBackSchema1, Pending, Restored, Locals
  <2>4. pc' \in {"b_check", "b_remove"} => Emptied("data")
    <3>1. pc' \in {"b_check", "b_remove"} => ~DataIsFarm /\ (ns.data # None => ns.orig # None)
      BY <1>0, <1>7, IdentityAssumption DEF CIntent, CRollBack, CRollBackSchema1,
         Pending, Restored, Home, IInv,
         WorldOK, RecordsTrue, Intended
    <3>2. ~DataIsFarm /\ (ns.data # None => ns.orig # None) => Emptied("data")
      BY <1>0 DEF DataIsFarm, ValidFarm, HasSentinel, OutWorld, Bare, Emptied,
         Namespaces, OptDirs
    <3> QED BY <3>1, <3>2
  <2>5. SteamRecorded' /\ DataCaptured'
    BY <1>0, <1>7, <2>1, <2>2, <2>3, <2>4 DEF CIntent
  <2> QED BY <2>1, <2>2, <2>5 DEF OInv
<1>8. CASE CApply
  <2>1. CallEffect /\ ns' = ns /\ dir' = dir /\ (Emptied("data") => Emptied("data")')
    BY <1>0, <1>8, OutStay DEF CApply
  <2>2. MarkedUnlessLive'
    BY <1>0, <2>1, MarkedStays
  <2>3. SteamRecorded' /\ DataCaptured'
    BY <1>0, <1>8, <2>1, <2>2 DEF CApply, Pending
  <2> QED BY <2>1, <2>2, <2>3 DEF OInv
<1>9. CASE CUnstage
  <2>1. CallEffect /\ (Emptied("data") => Emptied("data")')
    BY <1>0, <1>9, OutSibling DEF CUnstage, FarmPlaces
  <2>2. MarkedUnlessLive'
    BY <1>9, OutSibling DEF CUnstage, FarmPlaces
  <2>3. SteamRecorded' /\ DataCaptured'
    BY <1>0, <1>9, <2>1, <2>2 DEF CUnstage
  <2> QED BY <2>1, <2>2, <2>3 DEF OInv
<1>10. CASE CUnapply
  <2>1. CallEffect /\ (Emptied("data") => Emptied("data")')
    BY <1>0, <1>10, OutRecord, OutStay DEF CUnapply, Records
  <2>2. Marked' /\ MarkedUnlessLive'
    BY <1>0, <1>10, <2>1, MarkedStays DEF CUnapply, Records
  <2>3. SteamRecorded' /\ DataCaptured'
    BY <1>0, <1>10, <2>1, <2>2 DEF CUnapply
  <2> QED BY <2>1, <2>2, <2>3 DEF OInv
<1>11. CASE CTidy
  <2>1. CallEffect /\ ns' = ns /\ dir' = dir /\ (Emptied("data") => Emptied("data")')
    BY <1>0, <1>11, OutStay DEF CTidy
  <2>2. MarkedUnlessLive'
    BY <1>0, <2>1, MarkedStays
  <2>3. SteamRecorded' /\ DataCaptured'
    BY <1>0, <1>11, <2>1, <2>2 DEF CTidy, Pending
  <2> QED BY <2>1, <2>2, <2>3 DEF OInv
<1>12. CASE CTidyStaging
  <2>1. CallEffect /\ (Emptied("data") => Emptied("data")')
    BY <1>0, <1>12, OutSibling DEF CTidyStaging, FarmPlaces, CTidyAway
  <2>2. MarkedUnlessLive'
    BY <1>12, OutSibling DEF CTidyStaging, FarmPlaces, CTidyAway
  <2>3. SteamRecorded' /\ DataCaptured'
    BY <1>0, <1>12, <2>1, <2>2 DEF CTidyStaging, CTidyAway
  <2> QED BY <2>1, <2>2, <2>3 DEF OInv
<1>13. CASE CTidyOldFarm
  <2>1. CallEffect /\ (Emptied("data") => Emptied("data")')
    BY <1>0, <1>13, OutSibling DEF CTidyOldFarm, FarmPlaces, CTidyAway
  <2>2. MarkedUnlessLive'
    BY <1>13, OutSibling DEF CTidyOldFarm, FarmPlaces, CTidyAway
  <2>3. SteamRecorded' /\ DataCaptured'
    BY <1>0, <1>13, <2>1, <2>2 DEF CTidyOldFarm, CTidyAway
  <2> QED BY <2>1, <2>2, <2>3 DEF OInv
<1>14. CASE CTidyIntent
  <2>1. CallEffect /\ (Emptied("data") => Emptied("data")')
    BY <1>0, <1>14, OutRecord, OutStay DEF CTidyIntent, Records
  <2>2. Marked' /\ MarkedUnlessLive'
    BY <1>0, <1>14, <2>1, MarkedStays DEF CTidyIntent, Records
  <2>3. SteamRecorded' /\ DataCaptured'
    BY <1>0, <1>14, <2>1, <2>2 DEF CTidyIntent
  <2> QED BY <2>1, <2>2, <2>3 DEF OInv
<1>15. CASE CData
  <2>1. CallEffect
    <3>1. CASE Stay
      BY <1>0, <3>1, OutStay
    <3>2. CASE EraseOk("data") /\ IsEmptyDir(dir[ns.data])
      <4>1. Emptied("data")
        BY <3>2 DEF IsEmptyDir, Emptied
      <4> QED BY <1>0, <3>2, <4>1, OutErase DEF FarmPlaces
    <3> QED BY <1>15, <3>1, <3>2 DEF CData
  <2>2. Marked' /\ MarkedUnlessLive'
    BY <1>0, <1>15, <2>1, MarkedStays DEF CData
  <2>3. \/ pc' = "idle" /\ op' = NoOp
        \/ pc' \in {"c_restore", "r_capture", "r_begin"} /\ op' = op
    BY <1>15 DEF CData, LeftAlone, Pending, Restored
  <2>4. SteamRecorded' /\ DataCaptured'
    BY <1>0, <1>15, <2>1, <2>2, <2>3 DEF CData
  <2> QED BY <2>1, <2>2, <2>4 DEF OInv
<1>16. CASE CRestore
  <2>1. CallEffect
    <3>1. CASE Stay
      BY <1>0, <3>1, OutStay
    <3>2. CASE ns.data = None /\ ns' = Moved("orig", "data") /\ Keep
      <4>1. OutWorld'
        BY <1>0, <3>2, OutMove DEF Places
      <4> QED BY <1>0, <3>2, <4>1 DEF Keep, output, Moved, Namespaces
    <3> QED BY <1>16, <3>1, <3>2 DEF CRestore
  <2>2. Marked' /\ MarkedUnlessLive'
    BY <1>0, <1>16, <2>1, MarkedStays DEF CRestore
  <2>3. SteamRecorded' /\ DataCaptured'
    BY <1>0, <1>16, <2>1, <2>2 DEF CRestore, Restored
  <2> QED BY <2>1, <2>2, <2>3 DEF OInv
<1> QED BY <1>1, <1>2, <1>3, <1>4, <1>5, <1>6, <1>7, <1>8, <1>9, <1>10, <1>11, <1>12,
     <1>13, <1>14, <1>15, <1>16 DEF Cleanup

(* A list that starts with a list starts with its first element.           *)
LEMMA ConcatStart ==
  ASSUME NEW S, NEW s \in Seq(S), NEW t \in Seq(S), s # <<>>
  PROVE  s \o t # <<>> /\ Head(s \o t) = Head(s)
<1>1. /\ s \o t \in Seq(S) /\ Len(s \o t) = Len(s) + Len(t)
      /\ Len(s) # 0 /\ Len(s) \in Nat /\ Len(t) \in Nat
  OBVIOUS
<1>2. (s \o t)[1] = s[1]
  BY <1>1
<1> QED BY <1>1, <1>2

(* A restore captures every folder it is about to remove, Data first.      *)
LEMMA OutRestore ==
  ASSUME IInv, RInv, GInv, OInv, Restore
  PROVE  OInv'
<1> USE DEF SteamRecorded, DataCaptured, CapturedSteps, UnjournalledSteps,
     ActivateSteps,
        RollBackSteps, RecoverySteps, ReconcileSteps, ExchangeSteps, FinishSteps
<1> USE DEF Go, Fail, End, Preserving, CallEffect, Untouched, control
<1>0. /\ WorldOK /\ OutWorld /\ MarkedUnlessLive /\ SteamRecorded /\ DataCaptured
      /\ op \in Locals /\ ns \in Namespaces /\ Home
      /\ NoOp.opts = "overwrite"
      /\ pc \in FinishSteps => ns.data = Original
      /\ Marked \/ ns.journal # None
      /\ pc \in UnjournalledSteps \cup ExchangeSteps \cup FinishSteps => Marked
  BY MarkedWhere, NoOpPlain DEF IInv, OInv, RInv, OriginalInUse, WorldOK, DiskOK,
     Steered, ControlOK
<1>1. CASE XBegin
  <2>1. /\ ns' = ns /\ dir' = dir /\ written' = written /\ saved' = saved
        /\ maint' = maint /\ unverified' = unverified /\ changed' = changed
    BY <1>1 DEF XBegin, disk
  <2>2. OutWorld' /\ Untouched /\ (Emptied("data") => Emptied("data")')
    BY <1>0, <2>1, OutNames
  <2>3. MarkedUnlessLive' /\ (Marked => Marked')
    BY <1>0, <2>1, <2>2, MarkedStays
  <2>4. PICK opts \in CaptureOpts : /\ XResume(opts) \/ XFirst(opts)
                                    /\ Preserving => opts = "preserve"
                                    /\ opts = "preserve" => changed
    BY <1>0, <1>1 DEF XBegin, Decision, CaptureOpts
  <2>5. /\ op'.opts = opts /\ pc' \in {"f_retired", "x_capture"}
        /\ pc' = "x_capture" => \/ op'.todo # <<>> /\ Head(op'.todo) = "data"
                                \/ ns.data = None
                                \/ /\ ns.data # None /\ ~HasSentinel(dir, ns.data)
                                   /\ ns.orig = None
    <3> DEFINE siblings == <<"retired", "staging", "oldfarm">>
    <3>1. <<"data">> \in Seq(Places) /\ siblings \in Seq(Places)
      BY DEF Places
    <3>2. <<"data">> # <<>> /\ Head(<<"data">>) = "data"
      OBVIOUS
    <3>6. <<"data">> \o siblings # <<>> /\ Head(<<"data">> \o siblings) = "data"
      <4> HIDE DEF siblings
      <4> QED BY <3>1, <3>2, ConcatStart
    <3>3. ASSUME NEW label, NEW todo, XStart(opts, label, todo)
          PROVE  op'.opts = opts /\ pc' = label /\ op'.todo = todo
      BY <3>3 DEF XStart, NoOp
    <3>4. CASE XResume(opts)
      BY <3>2, <3>3, <3>4 DEF XResume
    <3>5. CASE XFirst(opts)
      <4>1. CASE ns.orig # None /\ XStart(opts, "x_capture", <<"data">> \o siblings)
        BY <3>3, <3>6, <4>1
      <4>2. CASE /\ ns.orig = None /\ ns.data # None /\ ~HasSentinel(dir, ns.data)
                 /\ XStart(opts, "x_capture", siblings)
        BY <3>3, <4>2
      <4> QED BY <3>5, <4>1, <4>2 DEF XFirst
    <3> QED BY <2>4, <3>4, <3>5
  <2>6. ns.data = None \/ (~HasSentinel(dir, ns.data) /\ ns.orig = None)
          => Emptied("data") /\ Marked
    <3>1. ns.data = None \/ (~HasSentinel(dir, ns.data) /\ ns.orig = None) => Marked
      BY <1>0, MarkedWhere, IdentityAssumption DEF Home
    <3>2. ns.data = None \/ ~HasSentinel(dir, ns.data) => Emptied("data")
      BY <1>0 DEF HasSentinel, OutWorld, Bare, Emptied, Namespaces, OptDirs
    <3> QED BY <3>1, <3>2
  <2>7. pc' = "x_capture" => \/ Emptied("data")' /\ Marked'
                             \/ op'.todo # <<>> /\ Head(op'.todo) = "data"
    BY <2>2, <2>3, <2>5, <2>6
  <2>8. SteamRecorded' /\ DataCaptured'
    BY <1>0, <2>1, <2>4, <2>5, <2>7
  <2> QED BY <2>2, <2>3, <2>8 DEF OInv
<1>2. CASE XCapture
  <2>0. PICK p \in Places : p = Head(op.todo)
    BY <1>0, <1>2 DEF XCapture, Locals
  <2>1. pc = "x_capture" /\ op.todo # <<>>
    BY <1>0, <1>2 DEF XCapture, Locals
  <2>2. CASE Captured(p, op.opts, TRUE) /\ op' = [op EXCEPT !.todo = Tail(@)] /\ pc' = pc
    <3>1. ns' = ns /\ changed' = changed
      BY <1>0, <2>1, <2>2, CaptureEffect
    <3>2. OutWorld' /\ (Emptied("data") => Emptied("data")') /\ Emptied(p)'
      BY <1>0, <2>1, <2>2, OutCapture
    <3>3. MarkedUnlessLive' /\ (Marked => Marked') /\ (p = "data" => Marked')
      BY <1>0, <2>1, <2>2, MarkedByCapture
    <3>4. Emptied("data")' /\ Marked'
      BY <1>0, <2>0, <2>1, <3>2, <3>3
    <3>5. op'.opts = op.opts
      BY <1>0, <2>2 DEF Locals
    <3>6. SteamRecorded' /\ DataCaptured'
      BY <1>0, <2>1, <2>2, <3>1, <3>4, <3>5
    <3> QED BY <3>2, <3>3, <3>6 DEF OInv
  <2>3. CASE CaptureFails(p, op.opts) /\ Fail
    <3>1. ns' = ns /\ changed' = changed
      BY <1>0, <2>1, <2>3, CaptureEffect
    <3>2. OutWorld' /\ MarkedUnlessLive'
      BY <1>0, <2>1, <2>3, OutCapture, MarkedByFailure
    <3>3. SteamRecorded' /\ DataCaptured'
      BY <1>0, <2>3, <3>1
    <3> QED BY <3>2, <3>3 DEF OInv
  <2>4. CASE Stay /\ Fail
    <3>1. CallEffect /\ ns' = ns /\ MarkedUnlessLive'
      BY <1>0, <2>4, OutStay, MarkedStays
    <3>2. SteamRecorded' /\ DataCaptured'
      BY <1>0, <2>4, <3>1
    <3> QED BY <3>1, <3>2 DEF OInv
  <2> QED BY <1>2, <2>0, <2>2, <2>3, <2>4 DEF XCapture
<1>3. CASE XRecord
  <2>1. Emptied("data") /\ Marked
    BY <1>0, <1>3 DEF XRecord
  <2>2. CallEffect /\ (Emptied("data") => Emptied("data")')
    BY <1>0, <1>3, OutRecord, OutStay DEF XRecord, Records
  <2>3. Marked' /\ MarkedUnlessLive'
    BY <2>1, <2>2, MarkedStays
  <2>4. SteamRecorded' /\ DataCaptured'
    BY <1>0, <1>3, <2>1, <2>2, <2>3 DEF XRecord
  <2> QED BY <2>2, <2>3, <2>4 DEF OInv
<1>4. CASE XRemove
  <2>1. CallEffect
    BY <1>0, <1>4, OutErase, OutStay DEF XRemove, FarmPlaces
  <2>2. Marked' /\ MarkedUnlessLive'
    BY <1>0, <1>4, <2>1, MarkedStays DEF XRemove, FarmPlaces
  <2>3. SteamRecorded' /\ DataCaptured'
    BY <1>0, <1>4, <2>1, <2>2 DEF XRemove
  <2> QED BY <2>1, <2>2, <2>3 DEF OInv
<1>5. CASE XRename
  <2>1. CallEffect
    BY <1>0, <1>5, OutMoveCall DEF XRename, Places
  <2>2. MarkedUnlessLive'
    <3>1. CASE ns.data = None
      BY <2>1, <3>1, MarkedWhere, MarkedStays
    <3>2. CASE ns' = ns /\ dir' = dir
      BY <1>0, <2>1, <3>2, MarkedStays
    <3> QED BY <1>5, <3>1, <3>2 DEF XRename, MoveOk, MoveFails, Stay, Keep
  <2>3. SteamRecorded' /\ DataCaptured'
    BY <1>0, <1>5, <2>1, <2>2 DEF XRename
  <2> QED BY <2>1, <2>2, <2>3 DEF OInv
<1>6. CASE FRetired
  <2>1. CallEffect /\ (Emptied("data") => Emptied("data")')
    BY <1>0, <1>6, OutSibling DEF FRetired, FarmPlaces
  <2>2. MarkedUnlessLive'
    BY <1>6, OutSibling DEF FRetired, FarmPlaces
  <2>3. SteamRecorded' /\ DataCaptured'
    BY <1>0, <1>6, <2>1, <2>2 DEF FRetired
  <2> QED BY <2>1, <2>2, <2>3 DEF OInv
<1>7. CASE FJournal
  <2>1. OutWorld' /\ Untouched
    BY <1>0, <1>7, OutRecord DEF FJournal, FRecord, Records
  <2>2. Marked' /\ MarkedUnlessLive'
    BY <1>0, <1>7, <2>1, MarkedStays DEF FJournal, FRecord
  <2>3. ns'.journal \in {None, ns.journal}
    BY <1>0, <1>7 DEF FJournal, FRecord, RecordOk, RecordFails, Namespaces
  <2>4. SteamRecorded' /\ DataCaptured'
    BY <1>0, <1>7, <2>1, <2>2, <2>3 DEF FJournal, FRecord
  <2> QED BY <2>1, <2>2, <2>4 DEF OInv
<1>8. CASE FStaging
  <2>1. CallEffect /\ (Emptied("data") => Emptied("data")')
    BY <1>0, <1>8, OutSibling DEF FStaging, FarmPlaces, FSibling
  <2>2. MarkedUnlessLive'
    BY <1>8, OutSibling DEF FStaging, FarmPlaces, FSibling
  <2>3. SteamRecorded' /\ DataCaptured'
    BY <1>0, <1>8, <2>1, <2>2 DEF FStaging, FSibling
  <2> QED BY <2>1, <2>2, <2>3 DEF OInv
<1>9. CASE FOldFarm
  <2>1. CallEffect /\ (Emptied("data") => Emptied("data")')
    BY <1>0, <1>9, OutSibling DEF FOldFarm, FarmPlaces, FSibling
  <2>2. MarkedUnlessLive'
    BY <1>9, OutSibling DEF FOldFarm, FarmPlaces, FSibling
  <2>3. SteamRecorded' /\ DataCaptured'
    BY <1>0, <1>9, <2>1, <2>2 DEF FOldFarm, FSibling
  <2> QED BY <2>1, <2>2, <2>3 DEF OInv
<1>10. CASE FActivating
  <2>1. CallEffect /\ (Emptied("data") => Emptied("data")')
    BY <1>0, <1>10, OutRecord, OutStay DEF FActivating, Records, FRecord
  <2>2. Marked' /\ MarkedUnlessLive'
    BY <1>0, <1>10, <2>1, MarkedStays DEF FActivating, Records, FRecord
  <2>3. SteamRecorded' /\ DataCaptured'
    BY <1>0, <1>10, <2>1, <2>2 DEF FActivating, FRecord
  <2> QED BY <2>1, <2>2, <2>3 DEF OInv
<1>11. CASE FApplying
  <2>1. CallEffect /\ (Emptied("data") => Emptied("data")')
    BY <1>0, <1>11, OutRecord, OutStay DEF FApplying, Records, FRecord
  <2>2. Marked' /\ MarkedUnlessLive'
    BY <1>0, <1>11, <2>1, MarkedStays DEF FApplying, Records, FRecord
  <2>3. SteamRecorded' /\ DataCaptured'
    BY <1>0, <1>11, <2>1, <2>2 DEF FApplying, FRecord
  <2> QED BY <2>1, <2>2, <2>3 DEF OInv
<1>12. CASE FDone
  <2>1. CallEffect /\ (Emptied("data") => Emptied("data")')
    BY <1>0, <1>12, OutRecord, OutStay DEF FDone, Records
  <2>2. Marked' /\ MarkedUnlessLive'
    BY <1>0, <1>12, <2>1, MarkedStays DEF FDone, Records
  <2>3. SteamRecorded' /\ DataCaptured'
    BY <1>0, <1>12, <2>1, <2>2 DEF FDone, Restored
  <2> QED BY <2>1, <2>2, <2>3 DEF OInv
<1> QED BY <1>1, <1>2, <1>3, <1>4, <1>5, <1>6, <1>7, <1>8, <1>9, <1>10, <1>11, <1>12
     DEF Restore

(* The game writes while no operation runs (no write window); a crash in a *)
(* removal catches a folder without output.                                *)
LEMMA OutSurroundings ==
  ASSUME IInv, RInv, GInv, OInv, WriteWindows = {}, Surroundings
  PROVE  OInv'
<1> USE DEF SteamRecorded, DataCaptured, CapturedSteps, UnjournalledSteps,
     ActivateSteps,
        RollBackSteps, RecoverySteps, ReconcileSteps, ExchangeSteps, FinishSteps
<1> USE DEF Go, Fail, End, Preserving, CallEffect, Untouched, control
<1>0. /\ WorldOK /\ OutWorld /\ MarkedUnlessLive /\ SteamRecorded /\ DataCaptured
      /\ op \in Locals /\ ns \in Namespaces /\ Home
      /\ NoOp.opts = "overwrite"
      /\ pc \in FinishSteps => ns.data = Original
      /\ Marked \/ ns.journal # None
      /\ pc \in UnjournalledSteps \cup ExchangeSteps \cup FinishSteps => Marked
  BY MarkedWhere, NoOpPlain DEF IInv, OInv, RInv, OriginalInUse, WorldOK, DiskOK,
     Steered, ControlOK
<1>1. CASE GameWrites
  <2>0. pc \in {"off", "idle"} /\ UNCHANGED <<ns, maint, unverified, changed, pc, op>>
    BY <1>1 DEF GameWrites
  <2> DEFINE d == ns.data
  <2>1. PICK f \in Files :
          /\ dir' = [dir EXCEPT ![d].out = @ \cup {f}]
          /\ written' = written \cup {f} /\ saved' = saved \ {f}
    BY <1>1 DEF GameWrites
  <2>2. d \in Dirs /\ dir \in [Dirs -> Content] /\ dir[d].meta = "full" /\ d # None
    BY <1>0, <1>1 DEF GameWrites, Namespaces, OptDirs, WorldOK, DiskOK
  <2>3. /\ dir'[d].meta = "full" /\ dir'[d].out = dir[d].out \cup {f}
        /\ \A e \in Dirs \ {d} : dir'[e] = dir[e]
    BY <2>1, <2>2 DEF Content
  <2>4. \A q \in FarmPlaces \ {"data"} : ns[q] # d /\ (ns[q] = None \/ ns[q] \in Dirs)
    BY <1>0, <2>2 DEF OutWorld, Apart, FarmPlaces, Namespaces, OptDirs
  <2>5. SiblingsEmpty'
    BY <1>0, <2>0, <2>3, <2>4 DEF OutWorld, SiblingsEmpty, Emptied
  <2>6. Apart' /\ Bare'
    BY <1>0, <2>0, <2>3 DEF OutWorld, Apart, Bare
  <2>7. OutputAtData'
    BY <1>0, <2>0, <2>1, <2>2, <2>3 DEF OutWorld, OutputAtData
  <2>8. MarkedUnlessLive'
    BY <1>0, <2>0, <2>3 DEF MarkedUnlessLive, Marked, FarmStillLive
  <2>9. SteamRecorded' /\ DataCaptured'
    BY <1>0, <2>0
  <2> QED BY <2>5, <2>6, <2>7, <2>8, <2>9 DEF OInv, OutWorld
<1>2. CASE ForeignData
  <2>1. PICK x \in Foreign \ Mentioned(ns), c \in {EmptyDir, PlainDir} :
          ns' = [ns EXCEPT !.data = x] /\ dir' = [dir EXCEPT ![x] = c]
    BY <1>2 DEF ForeignData
  <2>2. /\ ns.data = None /\ written' = written /\ saved' = saved
        /\ UNCHANGED <<maint, unverified, changed, pc, op>>
    BY <1>2 DEF ForeignData, output
  <2>3. x \in Dirs /\ x # None /\ c.out = {} /\ dir \in [Dirs -> Content]
    BY <1>0, IdentityAssumption DEF Dirs, EmptyDir, PlainDir, WorldOK, DiskOK
  <2>4. dir'[x].out = {} /\ \A e \in Dirs \ {x} : dir'[e] = dir[e]
    BY <2>1, <2>3
  <2>5. ns'.data = x /\ ns'.journal = ns.journal
        /\ \A q \in FarmPlaces \ {"data"} :
             ns'[q] = ns[q] /\ ns[q] # x /\ (ns[q] = None \/ ns[q] \in Dirs)
    BY <1>0, <2>1, <2>3 DEF Mentioned, Held, Places, FarmPlaces, Namespaces, OptDirs
  <2>6. Apart' /\ Bare'
    BY <1>0, <2>4, <2>5 DEF OutWorld, Apart, Bare
  <2>7. SiblingsEmpty' /\ Emptied("data")'
    BY <1>0, <2>4, <2>5 DEF OutWorld, SiblingsEmpty, Emptied
  <2>8. OutputAtData'
    BY <1>0, <2>2 DEF OutWorld, OutputAtData
  <2>9. Marked
    BY <2>2, MarkedWhere
  <2>10. Marked' /\ MarkedUnlessLive'
    BY <2>2, <2>9 DEF Marked, MarkedUnlessLive
  <2>11. SteamRecorded' /\ DataCaptured'
    BY <1>0, <2>2, <2>5, <2>7, <2>10
  <2> QED BY <2>6, <2>7, <2>8, <2>10, <2>11 DEF OInv, OutWorld
<1>3. CASE SteamChanges
  <2>1. /\ ns' = ns /\ dir' = dir /\ written' = written /\ saved' = saved
        /\ maint' = maint /\ unverified' = unverified /\ changed' = TRUE
        /\ UNCHANGED <<pc, op>> /\ pc \in {"off", "idle"}
    BY <1>3 DEF SteamChanges, disk, output
  <2>2. OutWorld'
    BY <1>0, <2>1, OutNames
  <2>3. MarkedUnlessLive'
    BY <1>0, <2>1 DEF Marked, MarkedUnlessLive, FarmStillLive
  <2>4. SteamRecorded' /\ DataCaptured'
    BY <1>0, <2>1
  <2> QED BY <2>2, <2>3, <2>4 DEF OInv
<1>4. CASE ClearMaintenance
  <2>1. /\ ns' = ns /\ dir' = dir /\ written' = written /\ saved' = saved
        /\ unverified' = FALSE /\ changed' = changed
        /\ UNCHANGED <<pc, op>> /\ pc = "idle"
    BY <1>4 DEF ClearMaintenance, disk
  <2>2. OutWorld'
    BY <1>0, <2>1, OutNames
  <2>3. MarkedUnlessLive'
    BY <2>1 DEF Marked, MarkedUnlessLive
  <2>4. SteamRecorded' /\ DataCaptured'
    BY <1>0, <2>1
  <2> QED BY <2>2, <2>3, <2>4 DEF OInv
<1>5. CASE Stop
  <2>1. CallEffect /\ ns' = ns /\ dir' = dir /\ (Emptied("data") => Emptied("data")')
    BY <1>0, <1>5, OutStay DEF Stop
  <2>2. MarkedUnlessLive'
    BY <1>0, <2>1, MarkedStays
  <2>3. SteamRecorded' /\ DataCaptured'
    BY <1>0, <1>5, <2>1, <2>2 DEF Stop, Down
  <2> QED BY <2>1, <2>2, <2>3 DEF OInv
<1>6. CASE Crash
  <2>1. ASSUME NEW p \in DOMAIN Removing, pc \in Removing[p], ErasedPartly(p)
        PROVE  CallEffect /\ MarkedUnlessLive'
    <3>1. CASE p = "data"
      <4>1. Emptied("data") /\ Marked
        BY <1>0, <2>1, <3>1 DEF Removing
      <4> QED BY <1>0, <2>1, <3>1, <4>1, OutErase, MarkedStays DEF FarmPlaces
    <3>2. CASE p # "data"
      BY <2>1, <3>2, OutSibling DEF Removing, FarmPlaces
    <3> QED BY <3>1, <3>2
  <2>2. CallEffect /\ MarkedUnlessLive'
    <3>1. CASE Stay
      BY <1>0, <3>1, OutStay, MarkedStays
    <3> QED BY <1>6, <2>1, <3>1 DEF Crash
  <2>3. pc' = "off" /\ op' = NoOp
    BY <1>6 DEF Crash, Down
  <2>4. SteamRecorded' /\ DataCaptured'
    BY <1>0, <2>2, <2>3
  <2> QED BY <2>2, <2>4 DEF OInv
<1> QED BY <1>1, <1>2, <1>3, <1>4, <1>5, <1>6 DEF Surroundings

(* No output has been written yet.                                         *)
LEMMA OutInit == Init => OInv
<1> SUFFICES ASSUME Init PROVE OInv
  OBVIOUS
<1> DEFINE P == PristineNamespace
           Placed(n) == \A p, q \in FarmPlaces : p # q /\ n[p] = n[q] => n[p] = None
           NoOutput(c) == \A d \in Dirs : c[d].out = {}
<1>1. ns.journal = None /\ Placed(ns)
  <2>1. P.journal = None /\ Placed(P)
    BY IdentityAssumption DEF PristineNamespace, FarmPlaces
  <2>2. ASSUME NEW f \in Farms, NEW g \in Farms, f # g, ns \in InheritedStates(f, g)
        PROVE  ns.journal = None /\ Placed(ns)
    <3> DEFINE backed == [P EXCEPT !.orig = Original, !.data = None]
               activating == [backed EXCEPT !.activating = Schema1Intent]
               applying == [backed EXCEPT !.applying = Schema1Apply]
    <3>0. /\ "data" \in DOMAIN P /\ "staging" \in DOMAIN P /\ "oldfarm" \in DOMAIN P
          /\ "retired" \in DOMAIN P /\ "journal" \in DOMAIN P /\ "activating" \in DOMAIN P
          /\ "applying" \in DOMAIN P /\ "orig" \in DOMAIN P
      BY DEF PristineNamespace
    <3>1. /\ P.journal = None /\ P.data = Original /\ P.staging = None
          /\ P.oldfarm = None /\ P.retired = None
      BY DEF PristineNamespace
    <3>2. /\ backed.journal = None /\ backed.data = None /\ backed.staging = None
          /\ backed.oldfarm = None /\ backed.retired = None
          /\ DOMAIN backed = DOMAIN P
      BY <3>0, <3>1
    <3>3. ns \in {[P EXCEPT !.activating = Schema1Intent], activating,
                  [activating EXCEPT !.data = f],
                  [[applying EXCEPT !.data = f] EXCEPT !.staging = g],
                  [[applying EXCEPT !.oldfarm = f] EXCEPT !.staging = g],
                  [[applying EXCEPT !.oldfarm = f] EXCEPT !.data = g],
                  backed, [backed EXCEPT !.data = f], [backed EXCEPT !.retired = f],
                  [P EXCEPT !.retired = f]}
      BY <2>2 DEF InheritedStates
    <3> HIDE DEF P, backed
    <3>4. /\ activating.journal = None /\ activating.data = None /\ activating.staging = None
          /\ activating.oldfarm = None /\ activating.retired = None
          /\ applying.journal = None /\ applying.data = None /\ applying.staging = None
          /\ applying.oldfarm = None /\ applying.retired = None
          /\ DOMAIN activating = DOMAIN P /\ DOMAIN applying = DOMAIN P
      BY <3>0, <3>2
    <3> HIDE DEF activating, applying
    <3>5. f # None /\ g # None /\ f # Original /\ Original # None
      BY IdentityAssumption
    <3>6. CASE ns \in {[P EXCEPT !.activating = Schema1Intent], [P EXCEPT !.retired = f]}
      BY <3>0, <3>1, <3>5, <3>6 DEF FarmPlaces
    <3>7. CASE ns \in {activating, [activating EXCEPT !.data = f]}
      BY <3>0, <3>4, <3>7 DEF FarmPlaces
    <3>8. CASE ns \in {[[applying EXCEPT !.data = f] EXCEPT !.staging = g],
                       [[applying EXCEPT !.oldfarm = f] EXCEPT !.staging = g],
                       [[applying EXCEPT !.oldfarm = f] EXCEPT !.data = g]}
      <4>1. ns.journal = None /\ ns.retired = None /\ DOMAIN ns = DOMAIN P
        BY <3>0, <3>4, <3>8
      <4>2. \/ ns.data = f /\ ns.staging = g /\ ns.oldfarm = None
            \/ ns.data = None /\ ns.staging = g /\ ns.oldfarm = f
            \/ ns.data = g /\ ns.staging = None /\ ns.oldfarm = f
        BY <3>0, <3>4, <3>8
      <4> QED BY <2>2, <4>1, <4>2 DEF FarmPlaces
    <3>9. CASE ns \in {backed, [backed EXCEPT !.data = f], [backed EXCEPT !.retired = f]}
      BY <3>0, <3>2, <3>9 DEF FarmPlaces
    <3> QED BY <3>3, <3>6, <3>7, <3>8, <3>9
  <2>3. CASE ns # PristineNamespace
    <3>1. PICK f \in Farms, g \in Farms : f # g /\ ns \in InheritedStates(f, g)
      BY <2>3 DEF Init, InitDisk
    <3> QED BY <2>2, <3>1
  <2> QED BY <2>1, <2>3
<1>2. NoOutput(dir)
  <2>1. PlainDir.out = {} /\ EmptyDir.out = {} /\ \A l : FarmDir(l).out = {}
    BY DEF PlainDir, EmptyDir, FarmDir
  <2>2. ASSUME NEW S, NEW l PROVE NoOutput(Farmed(S, l))
    BY <2>1 DEF Farmed
  <2>3. ASSUME NEW l, NEW f \in Farms PROVE NoOutput([Farmed({}, l) EXCEPT ![f] = PlainDir])
    BY <2>1, <2>2 DEF Farmed
  <2>4. NoOutput([d \in Dirs |-> IF d = Original THEN PlainDir ELSE EmptyDir])
    BY <2>1
  <2>5. CASE ~(ns = P /\ dir = [d \in Dirs |-> IF d = Original THEN PlainDir ELSE EmptyDir])
    <3>1. PICK f \in Farms, g \in Farms, l \in Layers :
            dir \in IF ns.applying # None THEN {Farmed({f, g}, l)}
                    ELSE IF ns.activating # None
                    THEN {Farmed({f, g}, l), [Farmed({}, l) EXCEPT ![f] = PlainDir]}
                    ELSE IF ns.retired # None THEN {Farmed({f}, l)}
                    ELSE {Farmed({}, l)}
      BY <2>5, ZenonT(30) DEF Init, InitDisk
    <3>2. dir \in {Farmed({f, g}, l), Farmed({f}, l), Farmed({}, l),
                   [Farmed({}, l) EXCEPT ![f] = PlainDir]}
      BY <3>1
    <3> HIDE DEF NoOutput
    <3> QED BY <2>2, <2>3, <3>2
  <2> HIDE DEF NoOutput
  <2> QED BY <2>4, <2>5
<1>3. Apart
  BY <1>1 DEF Apart
<1>4. Bare
  BY <1>2 DEF Bare
<1>5. ns \in Namespaces
  BY InitHolds DEF IInv, WorldOK, DiskOK
<1>6. SiblingsEmpty
  BY <1>2, <1>5 DEF SiblingsEmpty, Emptied, FarmPlaces, Namespaces, OptDirs
<1>7. OutputAtData
  BY DEF Init, OutputAtData
<1>8. ~unverified /\ ~changed /\ pc = "off" /\ op = NoOp
  BY DEF Init
<1>9. MarkedUnlessLive
  BY <1>8 DEF MarkedUnlessLive, Marked
<1>10. SteamRecorded /\ DataCaptured
  BY <1>1, <1>8, NoOpPlain DEF SteamRecorded, DataCaptured, Preserving, CapturedSteps,
     UnjournalledSteps, ActivateSteps, RollBackSteps, RecoverySteps, ExchangeSteps
<1> QED BY <1>3, <1>4, <1>6, <1>7, <1>9, <1>10 DEF OInv, OutWorld

(* The invariant is inductive.                                             *)
LEMMA OutNext ==
  ASSUME WriteWindows = {}
  PROVE  IInv /\ RInv /\ GInv /\ OInv /\ [Next]_vars => OInv'
<1> SUFFICES ASSUME IInv, RInv, GInv, OInv, [Next]_vars PROVE OInv'
  OBVIOUS
<1>1. CASE UNCHANGED vars
  BY <1>1 DEF vars, OInv, OutWorld, Apart, Bare, SiblingsEmpty, OutputAtData, Emptied,
     MarkedUnlessLive, Marked, FarmStillLive, Preserving, SteamRecorded, DataCaptured
<1>2. CASE Next
  BY <1>2, OutActivate, OutRollBack, OutApply, OutTeardown, OutCleanup, OutRestore,
     OutSurroundings DEF Next
<1> QED BY <1>1, <1>2

(* Where output is, and which of it is marked, in every reachable state.   *)
THEOREM OutputKept ==
  ASSUME WriteWindows = {}
  PROVE  Spec => []OInv
<1>1. IInv /\ RInv /\ GInv /\ OInv /\ [Next]_vars => OInv'
  BY OutNext
<1> QED BY <1>1, OutInit, Invariance, RecoveryChecked, GuestsKnown, PTL DEF Spec

(* Nothing the game or a tool wrote through the farm is destroyed by any   *)
(* operation, crash, failed call or recovery, for every set of files,      *)
(* layers and folders and any number of faults: OutputSafe holds in every  *)
(* reachable state. The hypothesis is the code's own condition, that       *)
(* nothing runs on the farm during an operation.                           *)
THEOREM OutputIsSafe ==
  ASSUME WriteWindows = {}
  PROVE  Spec => []OutputSafe
<1>1. OInv => OutputSafe
  BY DEF OInv, OutWorld, OutputAtData, OutputSafe, Held, Places
<1>2. Spec => []OInv
  BY OutputKept
<1> QED BY <1>1, <1>2, PTL

(* The original does not come back into use with unverified files and no   *)
(* marker, whichever operation ends the teardown: MaintenanceRecorded      *)
(* holds in every reachable state.                                         *)
THEOREM MaintenanceIsRecorded ==
  ASSUME WriteWindows = {}
  PROVE  Spec => []MaintenanceRecorded
<1>1. IInv /\ OInv => MaintenanceRecorded
  BY MarkedWhere DEF MaintenanceRecorded, Marked
<1>2. Spec => []OInv
  BY OutputKept
<1> QED BY <1>1, <1>2, Invariance, PTL
=============================================================================
