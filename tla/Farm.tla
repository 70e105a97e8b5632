-------------------------------- MODULE Farm --------------------------------
(***************************************************************************)
(* The mod farm of one game: internal/vfs MountManager, its crash recovery *)
(* CleanupStale and the confirmed RestoreFromBackup, driven the way the    *)
(* daemon drives them (one operation at a time, under the session lock).   *)
(*                                                                         *)
(* Every system call that changes the parent directory is a step of its    *)
(* own, so that a crash, an I/O error or another program can come between  *)
(* any two of them.  pc names the next call; the letter before the         *)
(* underscore says which function it belongs to:                           *)
(*   a Activate             p reMaterializeLocked (apply, retarget)        *)
(*   b rollbackActivation   r retireFarm and resumeFarmRetirement          *)
(*   c CleanupStale         x RestoreFromBackup   f finishRestoreCleanup   *)
(*                                                                         *)
(* A rename, or a removal, and the SyncDir after it are one step with      *)
(* three outcomes: done, not done, and done but reported as failed.  The   *)
(* file system commits its changes in order, so what a power loss leaves   *)
(* is a state an earlier crash could have left.                            *)
(***************************************************************************)
EXTENDS FarmDisk, Sequences

CONSTANTS
  MaxFaults,      \* bound on crashes, I/O errors and foreign directories
  WriteWindows,   \* operations during which the game may be writing
  Inherited       \* whether an older version, or a user who removed a
                  \* record, may have left the first state

ASSUME FarmAssumption ==
  /\ MaxFaults \in Nat
  /\ WriteWindows \subseteq {"activate", "apply", "retarget", "deactivate",
                             "cleanup", "restore"}
  /\ Inherited \in BOOLEAN

VARIABLES
  ns,        \* the entries of the parent directory
  dir,       \* what each directory holds
  written,   \* files the game wrote whose last version nobody gave up
  saved,     \* files whose last version is in Overwrite or a preserved batch
  batch,     \* files in the preserved batch of the decision in force
  maint,     \* the Steam maintenance marker exists
  unverified, \* a recorded teardown set output aside for a Steam change that
              \* nobody has verified since
  changed,   \* Steam changed the game since the farm's baseline was taken
  strangers, \* foreign directories nobody agreed to remove
  mgr,       \* the MountManager's fields
  pc, op,    \* the next step, and the running operation's locals
  outcome,   \* the result of the last recovery
  faults     \* how many faults have happened

disk == <<ns, dir>>
output == <<written, saved, batch, maint, unverified>>
control == <<pc, op, mgr, outcome>>
vars == <<ns, dir, written, saved, batch, maint, unverified, changed, strangers,
          mgr, pc, op, outcome, faults>>

Unmounted == [mounted |-> FALSE, layers |-> None, applied |-> None, dirty |-> FALSE]
Mounted(l) == [mounted |-> TRUE, layers |-> l, applied |-> l, dirty |-> FALSE]

NoOp == [name |-> "none", layers |-> None, opts |-> "overwrite", orig |-> None,
         farm |-> None, prev |-> Unmounted, resumed |-> FALSE, todo |-> <<>>]

(***************************************************************************)
(* System calls.                                                           *)
(***************************************************************************)
Ok == UNCHANGED faults
Fault == faults < MaxFaults /\ faults' = faults + 1

Keep == UNCHANGED <<dir, output, changed, strangers>>
Stay == UNCHANGED ns /\ Keep

Moved(p, q) == [ns EXCEPT ![p] = None, ![q] = ns[p]]

(* os.Rename of a directory, which refuses an existing target, and SyncDir. *)
MoveOk(p, q) == ns[q] = None /\ ns' = Moved(p, q) /\ Keep /\ Ok
MoveFails(p, q) ==
  \/ ns[q] # None /\ Stay /\ Ok
  \/ Fault /\ Stay
  \/ Fault /\ ns[q] = None /\ ns' = Moved(p, q) /\ Keep

(* renameat2(RENAME_EXCHANGE) of Data and the staging directory.           *)
Exchanged == [ns EXCEPT !.data = ns.staging, !.staging = ns.data]

(* WriteFileDurable of a record, or RemoveDurable when v is None: an error *)
(* may come after the change is visible.                                   *)
RecordOk(r, v) == ns' = [ns EXCEPT ![r] = v] /\ Keep /\ Ok
RecordFails(r, v) ==
  Fault /\ Keep /\ (UNCHANGED ns \/ ns' = [ns EXCEPT ![r] = v])

(* os.RemoveAll.  The user's confirmation covers a directory that is not a *)
(* readable farm, and what is left in one.                                 *)
Consented == op.name = "restore" \/ ns.restoring # None

GivenUp(p) ==
  /\ strangers' = IF Consented THEN strangers \ {ns[p]} ELSE strangers
  /\ written' = IF Consented /\ dir[ns[p]].meta = "none"
                THEN written \ dir[ns[p]].out ELSE written
  /\ UNCHANGED <<saved, batch, maint, unverified, changed>>

Erased(p) ==
  IF ns[p] = None THEN Stay
  ELSE /\ ns' = [ns EXCEPT ![p] = None]
       /\ dir' = [dir EXCEPT ![ns[p]] = EmptyDir]
       /\ GivenUp(p)

ErasedPartly(p) ==
  /\ ns[p] # None
  /\ \E r \in Remnants(dir[ns[p]]) : dir' = [dir EXCEPT ![ns[p]] = r]
  /\ UNCHANGED ns
  /\ GivenUp(p)

EraseOk(p) == Erased(p) /\ Ok
EraseFails(p) == Fault /\ (Stay \/ ErasedPartly(p))
EraseAndSyncFails(p) == EraseFails(p) \/ (Fault /\ Erased(p))

(* Identities the file system may give to a new directory: none that an    *)
(* entry or a record still names.                                          *)
Fresh == Farms \ (Mentioned(ns) \cup {op.farm, op.orig})

Made(p, c) ==
  /\ ns[p] = None
  /\ \E d \in Fresh : ns' = [ns EXCEPT ![p] = d] /\ dir' = [dir EXCEPT ![d] = c]
  /\ UNCHANGED <<output, changed, strangers>>

MakeOk(p, c) == Made(p, c) /\ Ok

(***************************************************************************)
(* Moving the game's output out of a farm.                                 *)
(***************************************************************************)
(* captureRetiringFarm and captureRecordedFarm can succeed.                *)
CanCapture(p, opts) ==
  ns[p] # None =>
    CASE dir[ns[p]].meta = "none" -> opts = "overwrite"
      [] dir[ns[p]].meta = "sentinel" -> FALSE
      [] dir[ns[p]].meta = "full" ->
           opts = "preserve" => dir[ns[p]].out \cap batch = {}

CanCaptureRecorded(p, opts, captured) ==
  IF ns[p] # None /\ dir[ns[p]].meta = "full" THEN CanCapture(p, opts) ELSE captured

Captured(p, opts, marker) ==
  IF ns[p] = None \/ dir[ns[p]].meta # "full" THEN Stay
  ELSE LET out == dir[ns[p]].out IN
       /\ dir' = [dir EXCEPT ![ns[p]].out = {}]
       /\ saved' = saved \cup out
       /\ batch' = IF opts = "preserve" THEN batch \cup out ELSE batch
       /\ maint' = (maint \/ (opts = "preserve" /\ marker))
       /\ unverified' = (unverified \/ (/\ out # {}
                                       /\ ns.journal # None
                                       /\ ns.journal.farm = ns[p]
                                       /\ ns.journal.capture = "preserve"))
       /\ UNCHANGED <<ns, written, changed, strangers>>

(* An error before anything moved, or before the maintenance marker.       *)
CaptureFails(p, opts) ==
  /\ Fault
  /\ Stay \/ (CanCapture(p, opts) /\ Captured(p, opts, FALSE))

(***************************************************************************)
(* How a step hands over, and how an operation ends.                       *)
(***************************************************************************)
Go(l) == pc' = l /\ UNCHANGED <<op, mgr, outcome>>

(* The manager after an error.  A failed teardown counts as unmounted once *)
(* the original is back (retirementErrorLocked); Retarget puts the old     *)
(* fields back.                                                            *)
MgrAfterError ==
  CASE op.name = "deactivate" ->
         IF ns'.data = op.orig /\ ns'.orig = None THEN Unmounted ELSE mgr
    [] op.name = "retarget" -> op.prev
    [] OTHER -> mgr

End == pc' = "idle" /\ op' = NoOp

Fail ==
  /\ End
  /\ mgr' = MgrAfterError
  /\ outcome' = IF op.name = "cleanup" THEN "error" ELSE outcome

(* A failed profile switch that left something to clean up: the daemon     *)
(* registers a pending recovery (RetargetCleanupError).                    *)
FailUnclean ==
  /\ End
  /\ mgr' = MgrAfterError
  /\ outcome' = IF op.name = "retarget" THEN "pending" ELSE outcome

(* CleanupStale returns a RecoveryPending.                                 *)
Pending == End /\ outcome' = "pending" /\ UNCHANGED mgr

(* The original Data is back, or there was nothing to do.                  *)
Restored ==
  /\ End
  /\ mgr' = Unmounted
  /\ outcome' = CASE op.name = "cleanup" -> "ok"
                  [] op.name = "restore" -> "none"
                  [] OTHER -> outcome

Start(name, l, opts, label) ==
  /\ pc' = label
  /\ op' = [NoOp EXCEPT !.name = name, !.layers = l, !.opts = opts,
                        !.orig = ns.orig, !.prev = mgr]

(* steamCaptureLocked: output is preserved, and kept out of Overwrite, when *)
(* Steam has changed the game since the baseline some farm here records.   *)
Decision ==
  IF changed /\ \E p \in Places \ {"orig"} : HasSentinel(dir, ns[p])
  THEN "preserve" ELSE "overwrite"

(***************************************************************************)
(* Activate: Data -> Data.orig, and a new farm at Data.                    *)
(***************************************************************************)
NoApplyLeftovers == ns.staging = None /\ ns.oldfarm = None /\ ns.applying = None

CanActivate ==
  /\ ~mgr.mounted
  /\ ns.data # None
  /\ ns.orig = None
  /\ ~HasSentinel(dir, ns.data)
  /\ ns.journal = None /\ ns.retired = None
  /\ NoApplyLeftovers

(* mountVFSOwned refuses while a recovery is pending or Steam maintenance  *)
(* is recorded; Activate writes its intent.                                *)
ABegin ==
  /\ pc = "idle" /\ outcome # "pending" /\ ~maint
  /\ CanActivate
  /\ \E l \in Layers :
       LET intent == ActivatingIntent(ns.data, None) IN
       \/ /\ RecordOk("activating", intent)
          /\ pc' = "a_rename"
          /\ op' = [NoOp EXCEPT !.name = "activate", !.layers = l, !.orig = ns.data]
          /\ UNCHANGED <<mgr, outcome>>
       \/ RecordFails("activating", intent) /\ UNCHANGED control

(* Mutant: any error of the rename rolls back without a look at Data.      *)
ARenameUnchecked ==
  /\ pc = "a_rename"
  /\ \/ MoveOk("data", "orig") /\ Go("a_mkdir")
     \/ MoveFails("data", "orig") /\ Go("b_remove")

ARename ==
  /\ pc = "a_rename"
  /\ \/ MoveOk("data", "orig") /\ Go("a_mkdir")
     \/ MoveFails("data", "orig")
        /\ Go(IF ns'.orig = None THEN "a_abort" ELSE "b_check")

AAbort ==
  /\ pc = "a_abort"
  /\ RecordOk("activating", None) \/ RecordFails("activating", None)
  /\ Fail

(* A folder whose identity cannot be read is not the farm to a rollback.   *)
AMkdir ==
  /\ pc = "a_mkdir"
  /\ \/ /\ MakeOk("data", EmptyDir)
        /\ pc' = "a_record" /\ op' = [op EXCEPT !.farm = ns'.data]
        /\ UNCHANGED <<mgr, outcome>>
     \/ ns.data # None /\ Stay /\ Ok /\ Go("b_check")
     \/ Fault /\ (Stay \/ Made("data", EmptyDir)) /\ Go("b_check")

(* SyncDir, then the intent is rewritten with the farm's identity.         *)
(* Mutant: the two directories are recorded the wrong way round.           *)
ARecordSwapped ==
  /\ pc = "a_record"
  /\ LET intent == ActivatingIntent(op.farm, op.orig) IN
     \/ RecordOk("activating", intent) /\ Go("a_build")
     \/ RecordFails("activating", intent) /\ Go("b_check")

ARecord ==
  /\ pc = "a_record"
  /\ LET intent == ActivatingIntent(op.orig, op.farm) IN
     \/ RecordOk("activating", intent) /\ Go("a_build")
     \/ RecordFails("activating", intent) /\ Go("b_check")

Filled(p, c) ==
  dir' = [dir EXCEPT ![ns[p]] = c] /\ UNCHANGED <<ns, output, strangers>>

ABuild ==
  /\ pc = "a_build"
  /\ \/ Filled("data", PlainDir) /\ UNCHANGED changed /\ Ok /\ Go("a_seal")
     \/ Fault /\ Filled("data", PlainDir) /\ UNCHANGED changed /\ Go("b_check")
     \/ Fault /\ Stay /\ Go("b_check")

(* WriteSentinel, the commit point; it carries a new Steam baseline.       *)
ASeal ==
  /\ pc = "a_seal"
  /\ \/ Filled("data", FarmDir(op.layers)) /\ changed' = FALSE /\ Ok /\ Go("a_clear")
     \/ Fault /\ Stay /\ Go("b_check")
     \/ Fault /\ Filled("data", FarmDir(op.layers)) /\ changed' = FALSE /\ Go("b_check")

AClear ==
  /\ pc = "a_clear"
  /\ RecordOk("activating", None) \/ RecordFails("activating", None)
  /\ End
  /\ mgr' = Mounted(op.layers)
  /\ UNCHANGED outcome

(* rollbackActivation, for Activate and for CleanupStale.  Mutant: it      *)
(* removes whatever stands at Data.                                        *)
BCheckUnchecked ==
  /\ pc = "b_check"
  /\ Stay /\ Ok
  /\ IF ns.orig # op.orig THEN Fail
     ELSE Go(IF ns.data = None THEN "b_rename" ELSE "b_remove")

BCheck ==
  /\ pc = "b_check"
  /\ Stay /\ Ok
  /\ IF ns.orig # op.orig \/ (ns.data # None /\ ns.data # op.farm) THEN Fail
     ELSE Go(IF ns.data = None THEN "b_rename" ELSE "b_remove")

BRemove ==
  /\ pc = "b_remove"
  /\ \/ EraseOk("data") /\ Go("b_rename")
     \/ EraseFails("data") /\ Fail

BRename ==
  /\ pc = "b_rename"
  /\ \/ MoveOk("orig", "data") /\ Go("b_clear")
     \/ MoveFails("orig", "data") /\ Fail

BClear ==
  /\ pc = "b_clear"
  /\ \/ RecordOk("activating", None) /\ Restored
     \/ RecordFails("activating", None) /\ Fail

(***************************************************************************)
(* MarkDirty, ReMaterialize and Retarget: a new farm swapped in for the    *)
(* live one.                                                               *)
(***************************************************************************)
MarkDirty ==
  /\ pc = "idle" /\ mgr.mounted
  /\ \E l \in Layers : mgr' = [mgr EXCEPT !.layers = l, !.dirty = TRUE]
  /\ Stay /\ Ok /\ UNCHANGED <<pc, op, outcome>>

CanApply == ~changed /\ ~maint /\ mgr.mounted /\ ValidFarm(ns, dir, ns.data) /\ NoApplyLeftovers

PBegin ==
  /\ pc = "idle" /\ CanApply
  /\ \/ mgr.dirty /\ Start("apply", mgr.layers, "overwrite", "p_capture") /\ UNCHANGED mgr
     \/ \E l \in Layers :
          /\ outcome # "pending"
          /\ Start("retarget", l, "overwrite", "p_capture")
          /\ mgr' = [mgr EXCEPT !.layers = l, !.dirty = TRUE]
  /\ Stay /\ Ok /\ UNCHANGED outcome

(* Mutant: the live farm is replaced without a capture.                    *)
PCaptureSkipped == pc = "p_capture" /\ Stay /\ Ok /\ Go("p_build")

PCapture ==
  /\ pc = "p_capture"
  /\ \/ dir[ns.data].meta = "full" /\ Captured("data", "overwrite", FALSE) /\ Ok /\ Go("p_build")
     \/ dir[ns.data].meta # "full" /\ Stay /\ Ok /\ Fail
     \/ CaptureFails("data", "overwrite") /\ Fail

(* BuildInto creates the staging directory; WriteSentinel completes it.    *)
PBuild ==
  /\ pc = "p_build"
  /\ \/ MakeOk("staging", PlainDir) /\ Go("p_seal")
     \/ Fault /\ Stay /\ Go("p_unstage")

PSeal ==
  /\ pc = "p_seal"
  /\ \/ Filled("staging", FarmDir(op.layers)) /\ UNCHANGED changed /\ Ok /\ Go("p_intent")
     \/ Fault /\ Stay /\ Go("p_unstage")
     \/ Fault /\ Filled("staging", FarmDir(op.layers)) /\ UNCHANGED changed /\ Go("p_unstage")

PIntent ==
  /\ pc = "p_intent"
  /\ LET intent == ApplyingIntent(ns.data, ns.staging) IN
     \/ RecordOk("applying", intent) /\ Go("p_swap")
     \/ RecordFails("applying", intent) /\ Go("p_unstage")

(* removeFailedStaging, on a path that leaves the intent alone.            *)
PUnstage ==
  /\ pc = "p_unstage"
  /\ \/ EraseOk("staging") /\ Fail
     \/ EraseFails("staging") /\ FailUnclean

(* Mutant: Retarget reports a failed sync without taking the swap back.    *)
PSwapLeft ==
  /\ pc = "p_swap"
  /\ \/ ns' = Exchanged /\ Keep /\ Ok /\ Go("p_remove")
     \/ Fault /\ Stay /\ Go("p_unswap")
     \/ Fault /\ ns' = Exchanged /\ Keep /\ Fail

PSwap ==
  /\ pc = "p_swap"
  /\ \/ ns' = Exchanged /\ Keep /\ Ok /\ Go("p_remove")
     \/ Fault /\ Stay /\ Go("p_unswap")
     \/ /\ Fault /\ ns' = Exchanged /\ Keep       \* the SyncDir failed
        /\ IF op.name = "retarget" THEN Go("p_back") ELSE Fail

Committed ==
  /\ End
  /\ mgr' = Mounted(op.layers)
  /\ UNCHANGED outcome

(* The switch stands, but needs recovery (RetargetCommittedError).         *)
CommittedUnclean == End /\ mgr' = Mounted(op.layers) /\ outcome' = "pending"

(* Only Retarget takes a swap back; when it cannot, the switch stands.     *)
PBack ==
  /\ pc = "p_back"
  /\ \/ ns' = Exchanged /\ Keep /\ Ok /\ Go("p_unswap")
     \/ /\ Fault /\ ns' = Exchanged /\ Keep
        /\ pc' = "p_unswap" /\ outcome' = "pending" /\ UNCHANGED <<op, mgr>>
     \/ Fault /\ Stay /\ CommittedUnclean

(* The failed new farm is removed, and then its intent.                    *)
PUnswap ==
  /\ pc = "p_unswap"
  /\ \/ EraseOk("staging") /\ Go("p_unintent")
     \/ EraseFails("staging") /\ FailUnclean

PUnintent ==
  /\ pc = "p_unintent"
  /\ \/ RecordOk("applying", None) /\ Fail
     \/ RecordFails("applying", None) /\ FailUnclean

(* removeOldFarm: the old farm is now at the staging path.                 *)
PRemove ==
  /\ pc = "p_remove"
  /\ \/ EraseOk("staging") /\ Go("p_clear")
     \/ /\ EraseFails("staging")
        /\ IF op.name = "retarget" THEN CommittedUnclean ELSE Fail

PClear ==
  /\ pc = "p_clear"
  /\ RecordOk("applying", None) \/ RecordFails("applying", None)
  /\ Committed

(***************************************************************************)
(* Deactivate, retireFarm and resumeFarmRetirement: Data -> retired,       *)
(* Data.orig -> Data, the retired farm removed, all under a journal.       *)
(***************************************************************************)
DBegin ==
  /\ pc = "idle"
  /\ Stay /\ Ok /\ UNCHANGED <<mgr, outcome>>
  /\ IF ns.journal # None
     THEN /\ pc' = "r_loop"
          /\ op' = [NoOp EXCEPT !.name = "deactivate", !.orig = ns.journal.backup]
     ELSE /\ mgr.mounted /\ ValidFarm(ns, dir, ns.data)
          /\ Start("deactivate", None, Decision,
                   IF Decision = "overwrite" THEN "r_capture" ELSE "r_begin")

(* The first capture, before the teardown is recorded: Deactivate refuses  *)
(* to go on without it, CleanupStale asks the user.                        *)
RCapture ==
  /\ pc = "r_capture"
  /\ LET failed == IF op.name = "cleanup" THEN Pending ELSE Fail IN
     \/ dir[ns.data].meta = "full" /\ Captured("data", "overwrite", FALSE) /\ Ok /\ Go("r_begin")
     \/ dir[ns.data].meta # "full" /\ Stay /\ Ok /\ failed
     \/ CaptureFails("data", "overwrite") /\ failed

(* A journal on disk: a new preserve decision starts a new batch.          *)
Journalled(j, fresh) ==
  /\ ns' = [ns EXCEPT !.journal = j]
  /\ batch' = IF fresh THEN {} ELSE batch
  /\ UNCHANGED <<dir, written, saved, maint, unverified, changed, strangers>>

JournalFails(j, fresh) == Fault /\ (Stay \/ Journalled(j, fresh))

RBegin ==
  /\ pc = "r_begin"
  /\ IF \/ ns.journal # None \/ ns.retired # None
        \/ ns.data = None \/ ns.orig = None
     THEN Stay /\ Ok /\ Fail
     ELSE LET j == NewJournal(ns.data, ns.orig, op.opts) IN
          \/ Journalled(j, TRUE) /\ Ok /\ Go("r_loop")
          \/ JournalFails(j, TRUE) /\ Fail

(* The states resumeFarmRetirement tells apart.                            *)
FarmIsLive    == ns.data = ns.journal.farm /\ ns.orig = ns.journal.backup /\ ns.retired = None
FarmIsRetired == ns.data = None /\ ns.orig = ns.journal.backup /\ ns.retired = ns.journal.farm
OriginalIsBack == ns.data = ns.journal.backup /\ ns.orig = None /\ ns.retired = ns.journal.farm
FarmIsGone    == ns.data = ns.journal.backup /\ ns.orig = None /\ ns.retired = None

CaptureRefused == IF op.name = "cleanup" THEN Pending ELSE Fail

(* captureRecordedFarm; a success not yet in the journal is marked there.  *)
(* Mutant: it leaves the maintenance marker to its caller.                 *)
RecordedCaptureUnmarked(p, captured, mark, next) ==
  LET opts == ns.journal.capture IN
  \/ /\ CanCaptureRecorded(p, opts, captured)
     /\ Captured(p, opts, FALSE) /\ Ok
     /\ Go(IF captured THEN next ELSE mark)
  \/ /\ ~CanCaptureRecorded(p, opts, captured)
     /\ Stay /\ Ok /\ CaptureRefused
  \/ CaptureFails(p, opts) /\ CaptureRefused

RecordedCapture(p, captured, mark, next) ==
  LET opts == ns.journal.capture IN
  \/ /\ CanCaptureRecorded(p, opts, captured)
     /\ Captured(p, opts, TRUE) /\ Ok
     /\ Go(IF captured THEN next ELSE mark)
  \/ /\ ~CanCaptureRecorded(p, opts, captured)
     /\ Stay /\ Ok /\ CaptureRefused
  \/ CaptureFails(p, opts) /\ CaptureRefused

Resumable == FarmIsLive \/ FarmIsRetired \/ OriginalIsBack \/ FarmIsGone

(* One round of the loop.  What was written into the farm after its first  *)
(* capture is captured again once the farm is retired.                     *)
RLive ==
  /\ pc = "r_loop" /\ FarmIsLive
  /\ RecordedCapture("data", ns.journal.dataCaptured, "r_mark_data", "r_retire")

RRestore ==
  /\ pc = "r_loop" /\ FarmIsRetired
  /\ \/ MoveOk("orig", "data") /\ Go("r_loop")
     \/ MoveFails("orig", "data") /\ Fail

(* Mutant: one capture, of the live farm, is enough.                       *)
RRetiredTrusting ==
  /\ pc = "r_loop" /\ OriginalIsBack
  /\ IF ns.journal.dataCaptured THEN Stay /\ Ok /\ Go("r_drop")
     ELSE RecordedCapture("retired", ns.journal.retiredCaptured, "r_mark_retired", "r_drop")

RRetired ==
  /\ pc = "r_loop" /\ OriginalIsBack
  /\ RecordedCapture("retired", ns.journal.retiredCaptured, "r_mark_retired", "r_drop")

RFinish ==
  /\ pc = "r_loop" /\ FarmIsGone
  /\ \/ RecordOk("journal", None) /\ Restored
     \/ RecordFails("journal", None) /\ Fail

(* Mutant: folders that do not match the journal are looked at again.      *)
RMismatchRetried == pc = "r_loop" /\ ~Resumable /\ Stay /\ Ok /\ Go("r_loop")

RMismatch ==
  /\ pc = "r_loop" /\ ~Resumable
  /\ Stay /\ Ok
  /\ IF op.name = "cleanup" /\ op.resumed THEN Pending ELSE Fail

RLoop == RLive \/ RRestore \/ RRetired \/ RFinish \/ RMismatch

RMark(label, field, next) ==
  /\ pc = label
  /\ LET j == [ns.journal EXCEPT ![field] = TRUE] IN
     \/ Journalled(j, FALSE) /\ Ok /\ Go(next)
     \/ JournalFails(j, FALSE) /\ Fail

RMarkData == RMark("r_mark_data", "dataCaptured", "r_retire")
RMarkRetired == RMark("r_mark_retired", "retiredCaptured", "r_drop")

RRetire ==
  /\ pc = "r_retire"
  /\ \/ MoveOk("data", "retired") /\ Go("r_loop")
     \/ MoveFails("data", "retired") /\ Fail

RDrop ==
  /\ pc = "r_drop"
  /\ \/ EraseOk("retired") /\ Go("r_loop")
     \/ EraseAndSyncFails("retired") /\ Fail

(***************************************************************************)
(* CleanupStale, run once when the daemon starts.                          *)
(***************************************************************************)
CBegin ==
  /\ pc = "off"
  /\ \/ Start("cleanup", None, Decision, "c_start") /\ UNCHANGED outcome
     \/ pc' = "idle" /\ op' = NoOp /\ outcome' = "pending"   \* Steam is busy
  /\ Stay /\ Ok /\ UNCHANGED mgr

(* An interrupted confirmed restore.                                       *)
CRestoring ==
  /\ pc = "c_start" /\ ns.restoring # None
  /\ Stay /\ Ok
  /\ IF ns.orig = None /\ ns.data = ns.restoring.backup THEN Go("f_retired") ELSE Pending

(* An interrupted teardown.  A preserve decision made since then is        *)
(* recorded while the farm is still live.                                  *)
CJournal ==
  /\ pc = "c_start" /\ ns.restoring = None /\ ns.journal # None
  /\ LET j == NewJournal(ns.journal.farm, ns.journal.backup, op.opts)
         resume == /\ pc' = "r_loop" /\ op' = [op EXCEPT !.resumed = TRUE]
                   /\ UNCHANGED <<mgr, outcome>>
     IN IF op.opts = "overwrite" \/ ns.journal.capture = "preserve"
        THEN Stay /\ Ok /\ resume
        ELSE IF ns.data = ns.journal.farm
        THEN \/ Journalled(j, TRUE) /\ Ok /\ resume
             \/ JournalFails(j, TRUE) /\ Fail
        ELSE Stay /\ Ok /\ Pending

NoTeardown == ns.restoring = None /\ ns.journal = None

CRetired ==
  /\ pc = "c_start" /\ NoTeardown /\ ns.retired # None
  /\ Stay /\ Ok /\ Pending

Intended == ns.activating # None /\ ns.activating.schema = 2

(* A farm stranded by an older version's swap goes back to Data.           *)
CStranded ==
  /\ pc = "c_start" /\ NoTeardown /\ ns.retired = None
  /\ ns.data = None /\ ~Intended
  /\ LET found == {p \in {"oldfarm", "staging"} : ValidFarm(ns, dir, ns[p])}
         p == IF "oldfarm" \in found THEN "oldfarm" ELSE "staging"
     IN CASE found # {} ->
               \/ ns' = Moved(p, "data") /\ Keep /\ Ok /\ Go("c_intent")
               \/ Fault /\ Stay /\ Fail
          [] found = {} /\ NoApplyLeftovers -> Stay /\ Ok /\ Go("c_intent")
          [] OTHER -> Stay /\ Ok /\ Pending

CNotStranded ==
  /\ pc = "c_start" /\ NoTeardown /\ ns.retired = None
  /\ ns.data # None \/ Intended
  /\ Stay /\ Ok /\ Go("c_intent")

DataIsFarm == ValidFarm(ns, dir, ns.data)

(* The four answers to an activation that did not commit: it had not moved *)
(* Data yet, somebody else made a Data folder, it can be rolled back, or   *)
(* the folders do not match its record.  Mutant: whatever stands at Data   *)
(* and is not the farm is taken for the original.                          *)
CRollBackTrusting ==
  IF ns.data \notin {None, ns.activating.farm}
  THEN \/ RecordOk("activating", None) /\ Restored
       \/ RecordFails("activating", None) /\ Fail
  ELSE /\ Stay /\ Ok
       /\ pc' = "b_check"
       /\ op' = [op EXCEPT !.orig = ns.activating.original, !.farm = ns.activating.farm]
       /\ UNCHANGED <<mgr, outcome>>

CRollBack ==
  LET original == ns.activating.original IN
  CASE ns.data = original /\ ns.orig = None ->
         \/ RecordOk("activating", None) /\ Restored
         \/ RecordFails("activating", None) /\ Fail
    [] ns.orig = original /\ ns.data \notin {None, original, ns.activating.farm} ->
         Stay /\ Ok /\ Pending
    [] ns.orig = original /\ ns.data \in {None, ns.activating.farm} ->
         /\ Stay /\ Ok
         /\ pc' = "b_check"
         /\ op' = [op EXCEPT !.orig = original, !.farm = ns.activating.farm]
         /\ UNCHANGED <<mgr, outcome>>
    [] OTHER -> Stay /\ Ok /\ Pending

(* An older version's intent records no identities.                        *)
CRollBackSchema1 ==
  IF ns.orig = None
  THEN \/ RecordOk("activating", None) /\ Restored
       \/ RecordFails("activating", None) /\ Fail
  ELSE Stay /\ Ok /\ Go(IF ns.data = None THEN "b_rename" ELSE "b_remove")

CIntent ==
  /\ pc = "c_intent"
  /\ CASE ns.activating = None -> Stay /\ Ok /\ Go("c_apply")
       [] ns.activating # None /\ DataIsFarm ->
            \/ RecordOk("activating", None) /\ Go("c_apply")
            \/ RecordFails("activating", None) /\ Fail
       [] Intended /\ ~DataIsFarm -> CRollBack
       [] OTHER -> CRollBackSchema1

(* reconcileApplyIntent: which of the two farms it names is live decides   *)
(* which one may be removed from the staging path.                         *)
Sibling == IF ns.data = ns.applying.live THEN ns.applying.staging ELSE ns.applying.live

Reconcilable ==
  /\ DataIsFarm
  /\ ns.data \in {ns.applying.live, ns.applying.staging}
  /\ ns.oldfarm = None
  /\ ns.staging # None => ValidFarm(ns, dir, ns.staging) /\ ns.staging = Sibling

CApply ==
  /\ pc = "c_apply"
  /\ Stay /\ Ok
  /\ IF ns.applying = None \/ ns.applying.schema = 1 THEN Go("c_tidy")
     ELSE IF ~Reconcilable THEN Pending
     ELSE Go(IF ns.staging = None THEN "c_unapply" ELSE "c_unstage")

CUnstage ==
  /\ pc = "c_unstage"
  /\ \/ EraseOk("staging") /\ Go("c_unapply")
     \/ EraseFails("staging") /\ Fail

CUnapply ==
  /\ pc = "c_unapply"
  /\ \/ RecordOk("applying", None) /\ Go("c_data")
     \/ RecordFails("applying", None) /\ Fail

PlainOriginal ==
  /\ ns.data # None /\ dir[ns.data].meta = "none"
  /\ ns.orig # None => IsEmptyDir(dir[ns.data])

CTidy ==
  /\ pc = "c_tidy"
  /\ Stay /\ Ok
  /\ IF /\ ~DataIsFarm
        /\ \E p \in {"oldfarm", "staging"} : ValidFarm(ns, dir, ns[p])
     THEN Pending
     ELSE Go(IF DataIsFarm \/ PlainOriginal THEN "c_tidy_staging" ELSE "c_data")

CTidyAway(label, p, next) ==
  /\ pc = label
  /\ \/ EraseOk(p) /\ Go(next)
     \/ EraseFails(p) /\ Fail

CTidyStaging == CTidyAway("c_tidy_staging", "staging", "c_tidy_oldfarm")
CTidyOldFarm == CTidyAway("c_tidy_oldfarm", "oldfarm", "c_tidy_intent")

CTidyIntent ==
  /\ pc = "c_tidy_intent"
  /\ \/ RecordOk("applying", None) /\ Go("c_data")
     \/ RecordFails("applying", None) /\ Fail

(* What stands at Data is retired as a farm, removed as an empty folder,   *)
(* left for the user to look at, or left alone when it cannot be listed.   *)
LeftAlone == End /\ UNCHANGED <<mgr, outcome>>

CData ==
  /\ pc = "c_data"
  /\ CASE DataIsFarm -> /\ Stay /\ Ok
                        /\ Go(IF op.opts = "overwrite" THEN "r_capture" ELSE "r_begin")
       [] HasSentinel(dir, ns.data) /\ ~DataIsFarm -> Stay /\ Ok /\ Pending
       [] ~HasSentinel(dir, ns.data) /\ ns.orig = None -> Stay /\ Ok /\ Restored
       [] OTHER ->
            \/ ns.data = None /\ Stay /\ Ok /\ Go("c_restore")
            \/ /\ ns.data # None
               /\ \/ Fault /\ Stay /\ LeftAlone
                  \/ IF IsEmptyDir(dir[ns.data])
                     THEN (EraseOk("data") /\ Go("c_restore")) \/ (Fault /\ Stay /\ Fail)
                     ELSE Stay /\ Ok /\ Pending

CRestore ==
  /\ pc = "c_restore"
  /\ \/ ns.data = None /\ ns' = Moved("orig", "data") /\ Keep /\ Ok /\ Restored
     \/ ns.data # None /\ Stay /\ Ok /\ Fail
     \/ Fault /\ Stay /\ Fail

(***************************************************************************)
(* RestoreFromBackup, which the user confirms for a pending recovery; the  *)
(* farm may be mounted meanwhile.                                          *)
(***************************************************************************)
XStart(opts, label, todo) ==
  /\ pc' = label
  /\ op' = [NoOp EXCEPT !.name = "restore", !.opts = opts, !.prev = mgr,
                        !.todo = todo]

(* A restore interrupted earlier: its record says which folders it had     *)
(* agreed to exchange.                                                     *)
XResume(opts) ==
  \/ /\ ns.orig = None /\ ns.data = ns.restoring.backup
     /\ XStart(opts, "f_retired", <<>>)
  \/ /\ ns.orig = ns.restoring.backup
     /\ ns.data \in {None, ns.restoring.farm}
     /\ XStart(opts, "x_capture", IF ns.data = None THEN <<>> ELSE <<"data">>)

(* The folders that may still hold output, in the order they are captured. *)
XFirst(opts) ==
  LET siblings == <<"retired", "staging", "oldfarm">> IN
  \/ ns.orig # None /\ XStart(opts, "x_capture", <<"data">> \o siblings)
  \/ /\ ns.orig = None /\ ns.data # None /\ ~HasSentinel(dir, ns.data)
     /\ ns.journal # None \/ ns.retired # None
     /\ XStart(opts, "x_capture", siblings)

XBegin ==
  /\ pc = "idle" /\ outcome = "pending"
  /\ LET decided == ns.journal # None /\ ns.journal.capture = "preserve"
         opts == IF decided THEN "preserve" ELSE Decision
     IN /\ \/ ns.restoring # None /\ XResume(opts)
           \/ ns.restoring = None /\ XFirst(opts)
        /\ batch' = IF opts = "preserve" /\ ~decided THEN {} ELSE batch
  /\ UNCHANGED <<disk, written, saved, maint, unverified, changed, strangers,
                 mgr, outcome>>
  /\ Ok

AlreadyCaptured(p) ==
  /\ ns.journal # None /\ ns[p] = ns.journal.farm
  /\ CASE p = "data" -> ns.journal.dataCaptured
       [] p = "retired" -> ns.journal.retiredCaptured
       [] OTHER -> FALSE

(* A transition sibling without a sentinel has nothing to save.            *)
Skipped(p) == p \in {"staging", "oldfarm"} /\ ~HasSentinel(dir, ns[p])

XCapture ==
  /\ pc = "x_capture" /\ op.todo # <<>>
  /\ LET p == Head(op.todo)
         can == \/ Skipped(p)
                \/ AlreadyCaptured(p) /\ CanCaptureRecorded(p, op.opts, TRUE)
                \/ ~AlreadyCaptured(p) /\ CanCapture(p, op.opts)
     IN \/ /\ can /\ Captured(p, op.opts, TRUE) /\ Ok
           /\ op' = [op EXCEPT !.todo = Tail(@)]
           /\ UNCHANGED <<pc, mgr, outcome>>
        \/ ~can /\ Stay /\ Ok /\ Fail
        \/ CaptureFails(p, op.opts) /\ Fail

(* The restore record, before anything is removed.  Mutant: it is written  *)
(* whether or not there is a backup.                                       *)
XRecordAlways ==
  /\ pc = "x_capture" /\ op.todo = <<>>
  /\ LET r == [backup |-> ns.orig, farm |-> ns.data] IN
     \/ RecordOk("restoring", r) /\ Go("x_remove")
     \/ RecordFails("restoring", r) /\ Fail

XRecord ==
  /\ pc = "x_capture" /\ op.todo = <<>>
  /\ LET r == [backup |-> ns.orig, farm |-> ns.data] IN
     IF ns.orig = None THEN Stay /\ Ok /\ Go("f_retired")
     ELSE IF ns.restoring # None THEN Stay /\ Ok /\ Go("x_remove")
     ELSE \/ RecordOk("restoring", r) /\ Go("x_remove")
          \/ RecordFails("restoring", r) /\ Fail

(* restoreRecordedBackup.                                                  *)
XRemove ==
  /\ pc = "x_remove"
  /\ IF ns.orig # ns.restoring.backup \/ ns.data \notin {None, ns.restoring.farm}
     THEN Stay /\ Ok /\ Fail
     ELSE \/ EraseOk("data") /\ Go("x_rename")
          \/ ns.data # None /\ EraseFails("data") /\ Fail

XRename ==
  /\ pc = "x_rename"
  /\ \/ MoveOk("orig", "data") /\ Go("f_retired")
     \/ MoveFails("orig", "data") /\ Fail

(* finishRestoreCleanup: siblings first, the restore record last.          *)
FRetired ==
  /\ pc = "f_retired"
  /\ \/ EraseOk("retired") /\ Go("f_journal")
     \/ EraseAndSyncFails("retired") /\ Fail

FRecord(label, r, next) ==
  /\ pc = label
  /\ \/ RecordOk(r, None) /\ Go(next)
     \/ RecordFails(r, None) /\ Fail

FSibling(label, p, next) ==
  /\ pc = label
  /\ \/ EraseOk(p) /\ Go(next)
     \/ EraseAndSyncFails(p) /\ Fail

FJournal == FRecord("f_journal", "journal", "f_staging")
FStaging == FSibling("f_staging", "staging", "f_oldfarm")
FOldFarm == FSibling("f_oldfarm", "oldfarm", "f_activating")
FActivating == FRecord("f_activating", "activating", "f_applying")
FApplying == FRecord("f_applying", "applying", "f_done")

FDone ==
  /\ pc = "f_done"
  /\ \/ RecordOk("restoring", None) /\ Restored
     \/ RecordFails("restoring", None) /\ Fail

(***************************************************************************)
(* The surroundings: the game, other programs, the user and the machine.   *)
(***************************************************************************)
(* The game or a tool writes through a complete farm: while the daemon is  *)
(* down or idle, and during the operations it can have started after the   *)
(* daemon looked for it.                                                   *)
GameWrites ==
  /\ pc \in {"off", "idle"} \/ op.name \in WriteWindows
  /\ ns.data # None /\ dir[ns.data].meta = "full"
  /\ \E f \in Files \ dir[ns.data].out :
       /\ dir' = [dir EXCEPT ![ns.data].out = @ \cup {f}]
       /\ written' = written \cup {f}
       /\ saved' = saved \ {f}
  /\ UNCHANGED <<ns, batch, maint, unverified, changed, strangers, control, faults>>

(* Another program, the store's client say, makes a Data folder while      *)
(* there is none.                                                          *)
ForeignData ==
  /\ ns.data = None
  /\ \E x \in Foreign \ Mentioned(ns), c \in {EmptyDir, PlainDir} :
       /\ ns' = [ns EXCEPT !.data = x]
       /\ dir' = [dir EXCEPT ![x] = c]
       /\ strangers' = IF c = PlainDir THEN strangers \cup {x} ELSE strangers \ {x}
  /\ Fault
  /\ UNCHANGED <<output, changed, control>>

(* Steam updates or verifies the game.                                     *)
SteamChanges ==
  /\ pc \in {"off", "idle"} /\ ~changed
  /\ \E p \in Places : HasSentinel(dir, ns[p])
  /\ changed' = TRUE
  /\ UNCHANGED <<disk, output, strangers, control, faults>>

(* The user confirms that Steam verified the files.                        *)
ClearMaintenance ==
  /\ pc = "idle" /\ ~mgr.mounted /\ maint
  /\ maint' = FALSE /\ unverified' = FALSE
  /\ UNCHANGED <<disk, written, saved, batch, changed, strangers, control, faults>>

Down == pc' = "off" /\ op' = NoOp /\ mgr' = Unmounted /\ outcome' = "none"

(* The daemon stops between operations, leaving the farm as it is.         *)
Stop == pc = "idle" /\ Down /\ Stay /\ Ok

(* The steps during which each place is being removed.                     *)
Removing ==
  [data    |-> {"b_remove", "x_remove"},
   staging |-> {"p_unstage", "p_unswap", "p_remove", "c_unstage",
                "c_tidy_staging", "f_staging"},
   oldfarm |-> {"c_tidy_oldfarm", "f_oldfarm"},
   retired |-> {"r_drop", "f_retired"}]

Crash ==
  /\ pc \notin {"off", "idle"}
  /\ Down /\ Fault
  /\ \/ Stay
     \/ \E p \in DOMAIN Removing : pc \in Removing[p] /\ ErasedPartly(p)

(***************************************************************************)
(* The specification.                                                      *)
(***************************************************************************)
(* States this version finds but does not leave: an older version's        *)
(* activation, whose intent names no directories, and its swap, made of    *)
(* two renames under such an intent; its mount, which left Data missing or *)
(* an empty mountpoint beside its backup; and a retired farm whose journal *)
(* the user has removed.                                                   *)
Schema1Intent == [schema |-> 1, original |-> None, farm |-> None]
Schema1Apply == [schema |-> 1, live |-> None, staging |-> None]

InheritedStates(f, g) ==
  LET backed == [PristineNamespace EXCEPT !.orig = Original, !.data = None]
      activating == [backed EXCEPT !.activating = Schema1Intent]
      applying == [backed EXCEPT !.applying = Schema1Apply]
  IN {[PristineNamespace EXCEPT !.activating = Schema1Intent],
      activating,
      [activating EXCEPT !.data = f],
      [applying EXCEPT !.data = f, !.staging = g],
      [applying EXCEPT !.oldfarm = f, !.staging = g],
      [applying EXCEPT !.oldfarm = f, !.data = g],
      backed, [backed EXCEPT !.data = f],
      [backed EXCEPT !.retired = f], [PristineNamespace EXCEPT !.retired = f]}

Farmed(S, l) == [d \in Dirs |-> IF d = Original THEN PlainDir
                               ELSE IF d \in S THEN FarmDir(l) ELSE EmptyDir]

InitDisk ==
  \/ ns = PristineNamespace /\ dir = [d \in Dirs |-> IF d = Original THEN PlainDir ELSE EmptyDir]
  \/ /\ Inherited
     /\ \E f, g \in Farms, l \in Layers :
          /\ f # g
          /\ ns \in InheritedStates(f, g)
          /\ dir \in IF ns.applying # None THEN {Farmed({f, g}, l)}
                    ELSE IF ns.activating # None
                    THEN {Farmed({f, g}, l), [Farmed({}, l) EXCEPT ![f] = PlainDir]}
                    ELSE IF ns.retired # None THEN {Farmed({f}, l)}
                    ELSE {Farmed({}, l)}

Init ==
  /\ InitDisk
  /\ written = {} /\ saved = {} /\ batch = {} /\ maint = FALSE
  /\ unverified = FALSE /\ changed = FALSE /\ strangers = {}
  /\ mgr = Unmounted /\ pc = "off" /\ op = NoOp /\ outcome = "none"
  /\ faults = 0

Activate == ABegin \/ ARename \/ AAbort \/ AMkdir \/ ARecord \/ ABuild \/ ASeal \/ AClear
RollBack == BCheck \/ BRemove \/ BRename \/ BClear
Apply == PBegin \/ PCapture \/ PBuild \/ PSeal \/ PIntent \/ PUnstage \/ PSwap
           \/ PBack \/ PUnswap \/ PUnintent \/ PRemove \/ PClear
Teardown == DBegin \/ RCapture \/ RBegin \/ RLoop \/ RMarkData \/ RMarkRetired
              \/ RRetire \/ RDrop
Cleanup == CBegin \/ CRestoring \/ CJournal \/ CRetired \/ CStranded \/ CNotStranded
             \/ CIntent \/ CApply \/ CUnstage \/ CUnapply \/ CTidy \/ CTidyStaging
             \/ CTidyOldFarm \/ CTidyIntent \/ CData \/ CRestore
Restore == XBegin \/ XCapture \/ XRecord \/ XRemove \/ XRename \/ FRetired
             \/ FJournal \/ FStaging \/ FOldFarm \/ FActivating \/ FApplying \/ FDone
Surroundings == GameWrites \/ ForeignData \/ SteamChanges \/ ClearMaintenance \/ Stop \/ Crash

Next == Activate \/ RollBack \/ MarkDirty \/ Apply \/ Teardown \/ Cleanup
          \/ Restore \/ Surroundings

Spec == Init /\ [][Next]_vars

(* The daemon goes on with what it started, and recovers when it starts.   *)
Working == pc # "idle" /\ (Activate \/ RollBack \/ Apply \/ Teardown \/ Cleanup \/ Restore)

(***************************************************************************)
(* Properties.                                                             *)
(***************************************************************************)
Labels == {"off", "idle", "a_rename", "a_abort", "a_mkdir", "a_record", "a_build",
  "a_seal", "a_clear", "b_check", "b_remove", "b_rename", "b_clear", "p_capture",
  "p_build", "p_seal", "p_intent", "p_unstage", "p_swap", "p_back", "p_unswap",
  "p_unintent", "p_remove", "p_clear", "r_capture", "r_begin", "r_loop",
  "r_mark_data", "r_mark_retired", "r_retire", "r_drop", "c_start", "c_intent",
  "c_apply", "c_unstage", "c_unapply", "c_tidy", "c_tidy_staging",
  "c_tidy_oldfarm", "c_tidy_intent", "c_data", "c_restore", "x_capture",
  "x_remove", "x_rename", "f_retired", "f_journal", "f_staging", "f_oldfarm",
  "f_activating", "f_applying", "f_done"}

Managers == [mounted : BOOLEAN, layers : Layers \cup {None},
             applied : Layers \cup {None}, dirty : BOOLEAN]

Locals == [name : {"none", "activate", "apply", "retarget", "deactivate",
                   "cleanup", "restore"},
           layers : Layers \cup {None}, opts : CaptureOpts,
           orig : OptDirs, farm : OptDirs, prev : Managers, resumed : BOOLEAN,
           todo : Seq(Places)]

(* Every variable keeps its type.                                          *)
TypeOK ==
  /\ ns \in Namespaces
  /\ dir \in [Dirs -> Content]
  /\ written \subseteq Files /\ saved \subseteq Files /\ batch \subseteq Files
  /\ maint \in BOOLEAN /\ unverified \in BOOLEAN /\ changed \in BOOLEAN
  /\ strangers \subseteq Foreign
  /\ mgr \in Managers
  /\ pc \in Labels
  /\ op \in Locals
  /\ outcome \in {"none", "ok", "pending", "error"}
  /\ faults \in 0..MaxFaults

(* The game's own Data directory is never lost, removed or mistaken for a  *)
(* farm: at every instant, whatever crashed or failed, it is at Data or at *)
(* Data.orig, at one of them only, and never where the code removes        *)
(* directories without a confirmation.                                     *)
OriginalSafe ==
  /\ (ns.data = Original) # (ns.orig = Original)
  /\ Original \notin {ns.staging, ns.oldfarm, ns.retired}

(* Why it is safe, stronger than OriginalSafe and inductive.  The original *)
(* has one of two homes, and Data.orig never holds anything else; no       *)
(* record on disk names it as a directory that may go; while a step that   *)
(* removes, replaces or renames Data is due, the original is at Data.orig; *)
(* an activation that may have to be rolled back knows which directory to  *)
(* put back; and a teardown runs under its journal.                        *)
Home ==
  \/ ns.data = Original /\ ns.orig = None
  \/ ns.data # Original /\ ns.orig = Original

NeverASibling == Original \notin {ns.staging, ns.oldfarm, ns.retired}

RecordsTrue ==
  /\ ns.journal # None => ns.journal.backup = Original /\ ns.journal.farm # Original
  /\ Intended => ns.activating.original = Original /\ ns.activating.farm # Original
  /\ ns.applying # None => Original \notin {ns.applying.live, ns.applying.staging}
  /\ ns.restoring # None => ns.restoring.backup = Original /\ ns.restoring.farm # Original

(* From the check that a farm is at Data to the step that moves it; the    *)
(* steps of an activation that may lead to its rollback; and those of      *)
(* resumeFarmRetirement.                                                   *)
DisposingSteps == {"b_remove", "p_capture", "p_build", "p_seal", "p_intent", "p_swap",
                   "p_back", "r_mark_data", "r_retire", "x_remove"}
ActivationSteps == {"a_rename", "a_mkdir", "a_record", "a_build", "a_seal", "b_check"}
JournalSteps == {"r_loop", "r_mark_data", "r_retire", "r_mark_retired", "r_drop"}

DataIsDisposable == pc \in DisposingSteps => ns.orig = Original

ActivationKnows ==
  /\ pc \in ActivationSteps => op.orig = Original
  /\ pc = "a_record" => op.farm # Original

TeardownRecorded == pc \in JournalSteps => ns.journal # None

OriginalTracked ==
  /\ Home /\ NeverASibling /\ RecordsTrue
  /\ DataIsDisposable /\ ActivationKnows /\ TeardownRecorded

(* Nothing the game or a tool wrote through the farm is destroyed: its     *)
(* last version is in Overwrite, in a preserved batch, or still in a farm  *)
(* directory that exists.                                                  *)
OutputSafe ==
  \A f \in written :
    f \in saved \/ \E d \in Held(ns) : f \in dir[d].out

(* A Data folder another program filled is removed only by a restore the   *)
(* user confirmed, or when an older version's activation is rolled back:   *)
(* its intent does not say which folder it made.                           *)
Unidentified == pc = "b_remove" /\ ns.activating # None /\ ns.activating.schema = 1
KeepsStrangers == strangers' \cap Held(ns) \subseteq Held(ns') \/ Unidentified
StrangersSafe == [][KeepsStrangers]_vars

(* Between operations, a manager that reports its farm mounted has a valid *)
(* farm at Data unless a recovery is pending, and a clean report names     *)
(* exactly the layers of the farm that is there: a failed apply or profile *)
(* switch never leaves the other farm live behind a clean report.          *)
MountedIsLive ==
  pc = "idle" /\ mgr.mounted /\ ns.journal = None /\ ns.restoring = None =>
    /\ outcome # "pending" => ValidFarm(ns, dir, ns.data)
    /\ ValidFarm(ns, dir, ns.data) /\ ~mgr.dirty => dir[ns.data].layers = mgr.applied

(* A recovery that reports neither a pending item nor an error has put the *)
(* original back and left nothing of a removal behind.                     *)
RecoversCleanly ==
  outcome # "ok" /\ outcome' = "ok" =>
     /\ ns'.data = Original /\ ns'.orig = None /\ ns'.retired = None
     /\ ns'.journal = None /\ ns'.restoring = None
CleanRecovery == [][RecoversCleanly]_vars

(* Once a recorded teardown has set output aside because Steam changed the *)
(* game, the original does not come back into use without the maintenance  *)
(* marker that keeps mods off until the user has had the files verified,   *)
(* whichever operation finishes the teardown.                              *)
MaintenanceRecorded ==
  pc = "idle" /\ unverified /\ ns.data = Original
    /\ ns.journal = None /\ ns.restoring = None => maint

(* The daemon's operations end: every one of them, and every recovery,     *)
(* returns to idle, however many of its steps failed.                      *)
OperationEnded == pc = "idle"

(***************************************************************************)
(* What the documentation says and the code does not do.                   *)
(***************************************************************************)
(* "It repairs interrupted changes on startup and asks you only when it    *)
(* cannot decide safely" (README), and "confirming calls RestoreFromBackup *)
(* which performs the destructive restore" (gorganizer.proto): a question  *)
(* CleanupStale asks is one RestoreFromBackup can act on.                  *)
CanConfirm ==
  \/ ns.orig # None \/ ns.journal # None \/ ns.retired # None
  \/ ns.restoring # None

PendingCanBeConfirmed ==
  [][op.name = "cleanup" /\ outcome' = "pending" => CanConfirm']_vars

(* "It repairs interrupted changes on startup and asks you only when it    *)
(* cannot decide safely" (README): a recovery that neither asks nor        *)
(* reports an error has put the original back.  Not where LeftAlone holds: *)
(* a Data folder that cannot be listed stays, with nothing said.           *)
RepairsOrAsks ==
  [][op.name = "cleanup" /\ pc' = "idle" /\ outcome' \notin {"pending", "error"} =>
       ns'.data = Original /\ ns'.orig = None]_vars

(* "Gorganizer saves Steam's changed files separately and restores the     *)
(* original game files" (README): what Deactivate saves after Steam has    *)
(* changed the game goes into the preserved batch, not into Overwrite.     *)
SteamOutputPreserved ==
  [][op.name = "deactivate" /\ changed => saved' \ saved \subseteq batch']_vars
=============================================================================
