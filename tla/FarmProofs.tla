------------------------------ MODULE FarmProofs ------------------------------
(***************************************************************************)
(* Proofs about Farm, for every set of directories, layers and files and   *)
(* every number of faults: the types, OriginalTracked and OriginalSafe,    *)
(* then what a recovery reports (CleanRecovery) and that no folder of      *)
(* another program is lost (StrangersSafe).                                *)
(*                                                                         *)
(* The inductive invariant IInv regroups TypeOK /\ OriginalTracked into    *)
(* what a system call may disturb (WorldOK: the disk, the fault counter,   *)
(* where the original is and what the records say) and what a hand-over    *)
(* may disturb (Steered: pc, the locals, the manager, and what each step   *)
(* counts on).  There is one lemma per system call for the first, one per  *)
(* way to end or to go on for the second, and one per group of actions     *)
(* that puts the two together.                                             *)
(*                                                                         *)
(* The other two are properties of steps.  RInv says what the checks at    *)
(* the start of a recovery established and which steps may rely on it;     *)
(* GInv, on top of it, which folders are the daemon's own.  Every lemma    *)
(* about a group of actions shows the invariant kept and the property of   *)
(* the step at once.                                                       *)
(***************************************************************************)
EXTENDS Farm, SequenceTheorems, TLAPS

(* The types of what is on disk.                                           *)
DiskOK ==
  /\ ns \in Namespaces
  /\ dir \in [Dirs -> Content]
  /\ written \subseteq Files /\ saved \subseteq Files /\ batch \subseteq Files
  /\ maint \in BOOLEAN /\ unverified \in BOOLEAN /\ changed \in BOOLEAN
  /\ strangers \subseteq Foreign

(* The part of the invariant that only system calls can disturb.           *)
WorldOK ==
  /\ DiskOK
  /\ faults \in 0..MaxFaults
  /\ Home /\ NeverASibling /\ RecordsTrue

(* The types of the program's own state.                                   *)
ControlOK ==
  /\ mgr \in Managers
  /\ pc \in Labels
  /\ op \in Locals
  /\ outcome \in {"none", "ok", "pending", "error"}

(* A record that may be written: it gives the original its right role.     *)
Truthful(r, v) ==
  \/ v = None
  \/ /\ r = "activating" /\ v \in Activating
     /\ v.original = Original /\ v.farm # Original
  \/ /\ r = "applying" /\ v \in Applying
     /\ Original \notin {v.live, v.staging}
  \/ /\ r = "journal" /\ v \in Journals
     /\ v.backup = Original /\ v.farm # Original
  \/ /\ r = "restoring" /\ v \in Restoring
     /\ v.backup = Original /\ v.farm # Original

Records == {"activating", "applying", "journal", "restoring"}

(* The contents the code gives to a directory are contents.                *)
LEMMA ContentTypes ==
  /\ EmptyDir \in Content /\ PlainDir \in Content
  /\ \A l \in Layers : FarmDir(l) \in Content
  /\ \A c \in Content : Remnants(c) \subseteq Content
  /\ \A c \in Content : [c EXCEPT !.out = {}] \in Content
<1>1. EmptyDir \in Content
  BY DEF EmptyDir, Content
<1>2. PlainDir \in Content
  BY DEF EmptyDir, PlainDir, Content
<1>3. \A l \in Layers : FarmDir(l) \in Content
  BY DEF FarmDir, Content
<1>4. \A c \in Content : Remnants(c) \subseteq Content
  BY DEF Remnants, Content
<1>5. \A c \in Content : [c EXCEPT !.out = {}] \in Content
  BY DEF Content
<1> QED BY <1>1, <1>2, <1>3, <1>4, <1>5

(***************************************************************************)
(* System calls.                                                           *)
(***************************************************************************)
(* A step counts at most one fault, and only below the bound.              *)
LEMMA FaultBounded ==
  ASSUME faults \in 0..MaxFaults, Ok \/ Fault
  PROVE  faults' \in 0..MaxFaults
BY FarmAssumption DEF Ok, Fault

(* A step that changes nothing on disk.                                    *)
LEMMA StayKeeps ==
  ASSUME WorldOK, Stay, Ok \/ Fault
  PROVE  WorldOK' /\ ns' = ns
BY FaultBounded DEF WorldOK, DiskOK, Stay, Keep, output, Home, NeverASibling, RecordsTrue, Intended

(* Writing a truthful record, or removing one, moves no directory.         *)
LEMMA RecordKeeps ==
  ASSUME WorldOK, NEW r \in Records, NEW v, Truthful(r, v),
         ns' = [ns EXCEPT ![r] = v], Keep, Ok \/ Fault
  PROVE  WorldOK' /\ ns'.orig = ns.orig
<1>1. ns' \in Namespaces
  BY DEF WorldOK, DiskOK, Records, Truthful, Namespaces
<1>2. ns'.orig = ns.orig
  BY DEF WorldOK, DiskOK, Records, Namespaces
<1>3. Home' /\ NeverASibling' /\ RecordsTrue'
  BY DEF WorldOK, DiskOK, Records, Truthful, Namespaces, Home, NeverASibling, RecordsTrue, Intended
<1> QED BY <1>1, <1>2, <1>3, FaultBounded DEF WorldOK, DiskOK, Keep, output

(* The same for a call that may fail, before or after the change.          *)
LEMMA RecordCall ==
  ASSUME WorldOK, NEW r \in Records, NEW v, Truthful(r, v),
         RecordOk(r, v) \/ RecordFails(r, v)
  PROVE  WorldOK' /\ ns'.orig = ns.orig
BY RecordKeeps, StayKeeps DEF RecordOk, RecordFails, Stay

(* The renames of the code: Data and Data.orig trade the original, a farm  *)
(* leaves Data while the original is at Data.orig, a stranded farm goes    *)
(* back to an empty Data.                                                  *)
LEMMA MoveKeeps ==
  ASSUME WorldOK, NEW p \in Places, NEW q \in Places,
         \/ p = "data" /\ q = "orig"
         \/ p = "orig" /\ q = "data"
         \/ p = "data" /\ q = "retired" /\ ns.orig = Original
         \/ p \in {"oldfarm", "staging"} /\ q = "data",
         ns[q] = None, ns' = Moved(p, q), Keep, Ok \/ Fault
  PROVE  WorldOK' /\ ns'.journal = ns.journal
<1>1. ns' \in Namespaces /\ ns'.journal = ns.journal
  BY DEF WorldOK, DiskOK, Places, Moved, Namespaces, OptDirs
<1>2. Home' /\ NeverASibling'
  BY IdentityAssumption DEF WorldOK, DiskOK, Places, Moved, Namespaces, Home, NeverASibling
<1>3. RecordsTrue'
  BY DEF WorldOK, DiskOK, Places, Moved, Namespaces, RecordsTrue, Intended
<1> QED BY <1>1, <1>2, <1>3, FaultBounded DEF WorldOK, DiskOK, Keep, output

(* The same for a rename that may fail.                                    *)
LEMMA MoveCall ==
  ASSUME WorldOK, NEW p \in Places, NEW q \in Places,
         \/ p = "data" /\ q = "orig"
         \/ p = "orig" /\ q = "data"
         \/ p = "data" /\ q = "retired" /\ ns.orig = Original,
         MoveOk(p, q) \/ MoveFails(p, q)
  PROVE  WorldOK' /\ ns'.journal = ns.journal
BY MoveKeeps, StayKeeps DEF MoveOk, MoveFails

(* The exchange of Data and the staging folder, with the original away.    *)
LEMMA SwapKeeps ==
  ASSUME WorldOK, ns.orig = Original, ns' = Exchanged, Keep, Ok \/ Fault
  PROVE  WorldOK' /\ ns'.orig = ns.orig
<1>1. ns' \in Namespaces /\ ns'.orig = ns.orig
  BY DEF WorldOK, DiskOK, Exchanged, Namespaces
<1>2. Home' /\ NeverASibling' /\ RecordsTrue'
  BY IdentityAssumption DEF WorldOK, DiskOK, Exchanged, Namespaces, Home, NeverASibling, RecordsTrue, Intended
<1> QED BY <1>1, <1>2, FaultBounded DEF WorldOK, DiskOK, Keep, output

(* A removal, complete or interrupted, of anything but Data.orig, and of   *)
(* Data only while the original is at Data.orig.                           *)
LEMMA EraseKeeps ==
  ASSUME WorldOK, NEW p \in Places \ {"orig"}, p = "data" => ns.orig = Original,
         Erased(p) \/ ErasedPartly(p), Ok \/ Fault
  PROVE  WorldOK' /\ ns'.orig = ns.orig /\ ns'.journal = ns.journal
<1>1. CASE ns[p] = None
  BY <1>1, StayKeeps DEF Erased, ErasedPartly
<1>2. CASE ns[p] # None
  <2>1. ns[p] \in Dirs
    BY <1>2 DEF WorldOK, DiskOK, Places, Namespaces, OptDirs
  <2>2. dir' \in [Dirs -> Content]
    BY <1>2, <2>1, ContentTypes DEF WorldOK, DiskOK, Erased, ErasedPartly
  <2>3. ns' \in Namespaces /\ ns'.orig = ns.orig /\ ns'.journal = ns.journal
    BY <1>2 DEF WorldOK, DiskOK, Erased, ErasedPartly, Places, Namespaces, OptDirs
  <2>4. Home' /\ NeverASibling' /\ RecordsTrue'
    BY <1>2, IdentityAssumption DEF WorldOK, DiskOK, Erased, ErasedPartly, Places, Namespaces,
       Home, NeverASibling, RecordsTrue, Intended
  <2>5. GivenUp(p)
    BY <1>2 DEF Erased, ErasedPartly
  <2>6. /\ written' \subseteq Files /\ saved' \subseteq Files /\ batch' \subseteq Files
        /\ maint' \in BOOLEAN /\ unverified' \in BOOLEAN /\ changed' \in BOOLEAN
        /\ strangers' \subseteq Foreign
    BY <2>5 DEF GivenUp, WorldOK, DiskOK
  <2> QED BY <2>2, <2>3, <2>4, <2>6, FaultBounded DEF WorldOK, DiskOK
<1> QED BY <1>1, <1>2

(* The same for a removal that may fail.                                   *)
LEMMA EraseCall ==
  ASSUME WorldOK, NEW p \in Places \ {"orig"}, p = "data" => ns.orig = Original,
         EraseOk(p) \/ EraseFails(p) \/ EraseAndSyncFails(p)
  PROVE  WorldOK' /\ ns'.orig = ns.orig /\ ns'.journal = ns.journal
BY EraseKeeps, StayKeeps DEF EraseOk, EraseFails, EraseAndSyncFails

(* A capture changes what a folder holds and no name.                      *)
LEMMA CaptureKeeps ==
  ASSUME WorldOK, NEW p \in Places, NEW opts, NEW marker \in BOOLEAN,
         Captured(p, opts, marker), Ok \/ Fault
  PROVE  WorldOK' /\ ns' = ns
<1>1. CASE ns[p] = None \/ dir[ns[p]].meta # "full"
  BY <1>1, StayKeeps DEF Captured, Stay
<1>2. CASE ~(ns[p] = None \/ dir[ns[p]].meta # "full")
  <2>1. ns[p] \in Dirs
    BY <1>2 DEF WorldOK, DiskOK, Places, Namespaces, OptDirs
  <2>2. dir[ns[p]] \in Content /\ dir[ns[p]].out \subseteq Files
    BY <2>1 DEF WorldOK, DiskOK, Content
  <2>3. dir' = [dir EXCEPT ![ns[p]] = [dir[ns[p]] EXCEPT !.out = {}]]
    BY <1>2 DEF Captured
  <2>4. dir' \in [Dirs -> Content]
    BY <2>1, <2>2, <2>3, ContentTypes DEF WorldOK, DiskOK
  <2>5. ns' = ns /\ written' = written /\ changed' = changed /\ strangers' = strangers
    BY <1>2 DEF Captured
  <2>6. /\ saved' \subseteq Files /\ batch' \subseteq Files
        /\ maint' \in BOOLEAN /\ unverified' \in BOOLEAN
    BY <1>2, <2>2 DEF Captured, WorldOK, DiskOK
  <2>7. Home' /\ NeverASibling' /\ RecordsTrue'
    BY <2>5 DEF WorldOK, Home, NeverASibling, RecordsTrue, Intended
  <2> QED BY <2>4, <2>5, <2>6, <2>7, FaultBounded DEF WorldOK, DiskOK
<1> QED BY <1>1, <1>2

(* The same for a capture that fails.                                      *)
LEMMA CaptureFailing ==
  ASSUME WorldOK, NEW p \in Places, NEW opts, CaptureFails(p, opts)
  PROVE  WorldOK' /\ ns'.orig = ns.orig
BY CaptureKeeps, StayKeeps DEF CaptureFails

(* Writing a truthful teardown journal.                                    *)
LEMMA JournalKeeps ==
  ASSUME WorldOK, NEW j \in Journals, j.backup = Original, j.farm # Original,
         NEW fresh, Journalled(j, fresh), Ok \/ Fault
  PROVE  WorldOK' /\ ns'.orig = ns.orig
<1>1. ns' \in Namespaces /\ ns'.orig = ns.orig
  BY DEF WorldOK, DiskOK, Journalled, Namespaces
<1>2. Home' /\ NeverASibling' /\ RecordsTrue'
  BY DEF WorldOK, DiskOK, Journalled, Namespaces, Home, NeverASibling, RecordsTrue, Intended
<1>3. /\ dir' = dir /\ written' \subseteq Files /\ saved' \subseteq Files
      /\ batch' \subseteq Files
      /\ maint' \in BOOLEAN /\ unverified' \in BOOLEAN /\ changed' \in BOOLEAN
      /\ strangers' \subseteq Foreign
  BY DEF WorldOK, DiskOK, Journalled
<1> QED BY <1>1, <1>2, <1>3, FaultBounded DEF WorldOK, DiskOK

(* The same for a write that may fail.                                     *)
LEMMA JournalCall ==
  ASSUME WorldOK, NEW j \in Journals, j.backup = Original, j.farm # Original,
         NEW fresh, (Journalled(j, fresh) /\ Ok) \/ JournalFails(j, fresh)
  PROVE  WorldOK' /\ ns'.orig = ns.orig
BY JournalKeeps, StayKeeps DEF JournalFails

(* A new directory is never the original.                                  *)
LEMMA MakeKeeps ==
  ASSUME WorldOK, NEW p \in {"data", "staging"}, NEW c \in Content, Made(p, c),
         Ok \/ Fault
  PROVE  WorldOK' /\ ns'.orig = ns.orig /\ ns'[p] \in Farms
<1> PICK d \in Fresh : ns' = [ns EXCEPT ![p] = d] /\ dir' = [dir EXCEPT ![d] = c]
  BY DEF Made
<1>1. d \in Farms /\ d \in Dirs /\ d # Original
  BY IdentityAssumption DEF Fresh, Dirs
<1>2. ns' \in Namespaces /\ ns'.orig = ns.orig /\ ns'[p] = d
  BY <1>1 DEF WorldOK, DiskOK, Namespaces, OptDirs
<1>3. dir' \in [Dirs -> Content]
  BY <1>1 DEF WorldOK, DiskOK
<1>4. ns[p] = None
  BY DEF Made
<1>5. Home' /\ NeverASibling' /\ RecordsTrue'
  BY <1>1, <1>4, IdentityAssumption
  DEF WorldOK, DiskOK, Namespaces, Home, NeverASibling, RecordsTrue, Intended
<1> QED BY <1>1, <1>2, <1>3, <1>5, FaultBounded DEF WorldOK, DiskOK, Made, output

(* Building into a directory changes no name.                              *)
LEMMA FillKeeps ==
  ASSUME WorldOK, NEW p \in {"data", "staging"}, NEW c \in Content, Filled(p, c),
         changed' \in BOOLEAN, Ok \/ Fault
  PROVE  WorldOK' /\ ns'.orig = ns.orig
<1>1. dir' \in [Dirs -> Content]
  BY DEF WorldOK, DiskOK, Filled
<1>2. Home' /\ NeverASibling' /\ RecordsTrue'
  BY DEF Filled, WorldOK, Home, NeverASibling, RecordsTrue, Intended
<1> QED BY <1>1, <1>2, FaultBounded DEF WorldOK, DiskOK, Filled, output

(***************************************************************************)
(* Hand-overs.                                                             *)
(***************************************************************************)
(* Every way to end an operation leaves well-typed control, at idle.       *)
LEMMA Ending ==
  ASSUME ControlOK, LeftAlone \/ Fail \/ FailUnclean \/ Pending \/ Restored \/ Committed \/ CommittedUnclean
  PROVE  ControlOK' /\ pc' = "idle"
<1>1. Unmounted \in Managers /\ \A l \in Layers \cup {None} : Mounted(l) \in Managers
  BY DEF Unmounted, Mounted, Managers
<1>2. NoOp \in Locals
  BY <1>1 DEF NoOp, Locals, CaptureOpts, OptDirs
<1>3. pc' = "idle" /\ op' = NoOp
  BY DEF LeftAlone, Fail, FailUnclean, Pending, Restored, Committed, CommittedUnclean, End
<1>4. MgrAfterError \in Managers
  BY <1>1 DEF MgrAfterError, ControlOK, Locals
<1>5. mgr' \in Managers
  BY <1>1, <1>4 DEF ControlOK, LeftAlone, Fail, FailUnclean, Pending, Restored, Committed,
     CommittedUnclean, Locals
<1>6. outcome' \in {"none", "ok", "pending", "error"}
  BY DEF ControlOK, LeftAlone, Fail, FailUnclean, Pending, Restored, Committed, CommittedUnclean
<1> QED BY <1>2, <1>3, <1>5, <1>6 DEF ControlOK, Labels

(* The part of the invariant that hand-overs can disturb.                  *)
Steered == ControlOK /\ DataIsDisposable /\ ActivationKnows /\ TeardownRecorded
IInv == WorldOK /\ Steered

(* An operation may end wherever the disk is in order.                     *)
LEMMA Stopped ==
  ASSUME IInv, WorldOK',
         LeftAlone \/ Fail \/ FailUnclean \/ Pending \/ Restored \/ Committed \/ CommittedUnclean
  PROVE  IInv'
BY Ending DEF IInv, Steered, DataIsDisposable, ActivationKnows, TeardownRecorded, DisposingSteps, ActivationSteps, JournalSteps

(* A step hands over to l when what l counts on holds.                     *)
LEMMA WentOn ==
  ASSUME IInv, WorldOK', NEW l \in Labels, Go(l),
         l \in DisposingSteps => ns'.orig = Original,
         l \in ActivationSteps => op.orig = Original,
         l \in JournalSteps => ns'.journal # None,
         l # "a_record"
  PROVE  IInv'
BY DEF Go, IInv, Steered, ControlOK, DataIsDisposable, ActivationKnows, TeardownRecorded

(***************************************************************************)
(* Every group of actions preserves the invariant.                         *)
(***************************************************************************)
(* Activate: the original goes to Data.orig under a truthful intent.       *)
LEMMA ActivateKeeps ==
  ASSUME IInv, Activate
  PROVE  IInv'
<1> USE DEF Labels, DisposingSteps, ActivationSteps, JournalSteps
<1>0. pc \in ActivationSteps => op.orig = Original
  BY DEF IInv, Steered, ActivationKnows
<1>1. CASE ABegin
  <2>1. ns.data = Original /\ ns.orig = None
    BY <1>1, IdentityAssumption DEF ABegin, CanActivate, IInv, WorldOK, Home
  <2>2. Truthful("activating", ActivatingIntent(ns.data, None))
    BY <2>1, IdentityAssumption
    DEF Truthful, ActivatingIntent, Activating, OptDirs, Dirs
  <2>3. WorldOK'
    BY <1>1, <2>2, RecordCall DEF ABegin, IInv, Records
  <2>4. NoOp \in Locals
    BY DEF NoOp, Locals, CaptureOpts, OptDirs, Unmounted, Managers
  <2>5. Steered'
    BY <1>1, <2>1, <2>4, ZenonT(30)
    DEF ABegin, IInv, Steered, ControlOK, DataIsDisposable, ActivationKnows, TeardownRecorded, control,
        Locals, OptDirs, Dirs
  <2> QED BY <2>3, <2>5 DEF IInv
<1>2. CASE ARename
  <2>1. WorldOK'
    BY <1>2, MoveCall DEF ARename, IInv, Places
  <2> QED BY <1>0, <1>2, <2>1, WentOn DEF ARename
<1>3. CASE AAbort
  <2>1. WorldOK'
    BY <1>3, RecordCall DEF AAbort, IInv, Records, Truthful
  <2> QED BY <1>3, <2>1, Stopped DEF AAbort
<1>4. CASE AMkdir
  <2>1. WorldOK' /\ (pc' = "a_record" => ns'.data \in Farms)
    BY <1>4, MakeKeeps, StayKeeps, ContentTypes DEF AMkdir, MakeOk, Go, IInv
  <2>2. Steered'
    BY <1>4, <2>1, IdentityAssumption
    DEF AMkdir, Go, IInv, Steered, ControlOK, DataIsDisposable, ActivationKnows, TeardownRecorded,
        Locals, OptDirs, Dirs
  <2> QED BY <2>1, <2>2 DEF IInv
<1>5. CASE ARecord
  <2>1. Truthful("activating", ActivatingIntent(op.orig, op.farm))
    BY <1>5 DEF ARecord, IInv, Steered, ControlOK, ActivationKnows, Locals, Truthful,
       ActivatingIntent, Activating
  <2>2. WorldOK'
    BY <1>5, <2>1, RecordCall DEF ARecord, IInv, Records
  <2> QED BY <1>0, <1>5, <2>2, WentOn DEF ARecord
<1>6. CASE ABuild
  <2>1. WorldOK'
    BY <1>6, FillKeeps, StayKeeps, ContentTypes DEF ABuild, IInv, WorldOK, DiskOK
  <2> QED BY <1>0, <1>6, <2>1, WentOn DEF ABuild
<1>7. CASE ASeal
  <2>1. WorldOK'
    <3>1. CASE Filled("data", FarmDir(op.layers)) /\ changed' = FALSE /\ (Ok \/ Fault)
      <4>1. FarmDir(op.layers) \in Content
        BY DEF IInv, Steered, ControlOK, Locals, FarmDir, Content
      <4> QED BY <3>1, <4>1, FillKeeps DEF IInv
    <3>2. CASE Fault /\ Stay
      BY <3>2, StayKeeps DEF IInv
    <3> QED BY <1>7, <3>1, <3>2 DEF ASeal
  <2> QED BY <1>0, <1>7, <2>1, WentOn DEF ASeal
<1>8. CASE AClear
  <2>1. WorldOK'
    BY <1>8, RecordCall DEF AClear, IInv, Records, Truthful
  <2>2. Committed
    BY <1>8 DEF AClear, Committed
  <2> QED BY <2>1, <2>2, Stopped
<1> QED BY <1>1, <1>2, <1>3, <1>4, <1>5, <1>6, <1>7, <1>8 DEF Activate

(* What a new operation starts with.                                       *)
LEMMA Starting ==
  ASSUME IInv, NEW name \in {"apply", "retarget", "deactivate", "cleanup"},
         NEW l \in Layers \cup {None}, NEW opts \in CaptureOpts, NEW label \in Labels,
         Start(name, l, opts, label)
  PROVE  op' \in Locals /\ pc' = label
<1>1. op' = [name |-> name, layers |-> l, opts |-> opts, orig |-> ns.orig, farm |-> None,
             prev |-> mgr, resumed |-> FALSE, todo |-> <<>>]
  BY DEF Start, NoOp
<1>2. ns.orig \in OptDirs /\ mgr \in Managers
  BY DEF IInv, WorldOK, DiskOK, Namespaces, Steered, ControlOK
<1>3. <<>> \in Seq(Places) /\ None \in OptDirs
  BY DEF OptDirs
<1>4. op' \in Locals
  BY <1>1, <1>2, <1>3 DEF Locals
<1> QED BY <1>4 DEF Start

(* rollbackActivation removes Data only after it has seen the original at  *)
(* Data.orig.                                                              *)
LEMMA RollBackKeeps ==
  ASSUME IInv, RollBack
  PROVE  IInv'
<1> USE DEF Labels, DisposingSteps, ActivationSteps, JournalSteps
<1>1. CASE BCheck
  <2>1. WorldOK' /\ ns'.orig = ns.orig
    BY <1>1, StayKeeps DEF BCheck, IInv
  <2>2. op.orig = Original
    BY <1>1 DEF BCheck, IInv, Steered, ActivationKnows
  <2> QED BY <1>1, <2>1, <2>2, Stopped, WentOn DEF BCheck
<1>2. CASE BRemove
  <2>1. WorldOK'
    BY <1>2, EraseCall DEF BRemove, IInv, Steered, DataIsDisposable, Places
  <2> QED BY <1>2, <2>1, Stopped, WentOn DEF BRemove
<1>3. CASE BRename
  <2>1. WorldOK'
    BY <1>3, MoveCall DEF BRename, IInv, Places
  <2> QED BY <1>3, <2>1, Stopped, WentOn DEF BRename
<1>4. CASE BClear
  <2>1. WorldOK'
    BY <1>4, RecordCall DEF BClear, IInv, Records, Truthful
  <2> QED BY <1>4, <2>1, Stopped DEF BClear
<1> QED BY <1>1, <1>2, <1>3, <1>4 DEF RollBack

(* MarkDirty, ReMaterialize and Retarget: both folders of the exchange are *)
(* farms.                                                                  *)
LEMMA ApplyKeeps ==
  ASSUME IInv, MarkDirty \/ Apply
  PROVE  IInv'
<1> USE DEF Labels, DisposingSteps, ActivationSteps, JournalSteps
<1>0. pc \in DisposingSteps => ns.orig = Original
  BY DEF IInv, Steered, DataIsDisposable
<1>1. CASE MarkDirty
  <2>1. WorldOK'
    BY <1>1, StayKeeps DEF MarkDirty, IInv
  <2>2. Steered'
    BY <1>1, ZenonT(30) DEF MarkDirty, IInv, Steered, ControlOK, DataIsDisposable, ActivationKnows, TeardownRecorded, Managers
  <2> QED BY <2>1, <2>2 DEF IInv
<1>2. CASE PBegin
  <2>1. WorldOK' /\ ns'.orig = Original
    BY <1>2, StayKeeps DEF PBegin, CanApply, ValidFarm, IInv, WorldOK, Home
  <2>2. op' \in Locals
    BY <1>2, Starting DEF PBegin, IInv, Steered, ControlOK, Managers, CaptureOpts
  <2>3. mgr' \in Managers
    BY <1>2, ZenonT(30) DEF PBegin, IInv, Steered, ControlOK, Managers
  <2>4. pc' = "p_capture" /\ outcome' = outcome
    BY <1>2 DEF PBegin, Start
  <2>5. Steered'
    BY <2>1, <2>2, <2>3, <2>4 DEF IInv, Steered, ControlOK, DataIsDisposable, ActivationKnows, TeardownRecorded
  <2> QED BY <2>1, <2>5 DEF IInv
<1>3. CASE PCapture
  <2>1. WorldOK' /\ ns'.orig = ns.orig
    BY <1>3, CaptureKeeps, CaptureFailing, StayKeeps DEF PCapture, IInv, Places
  <2> QED BY <1>0, <1>3, <2>1, Stopped, WentOn DEF PCapture
<1>4. CASE PBuild
  <2>1. WorldOK' /\ ns'.orig = ns.orig
    BY <1>4, MakeKeeps, StayKeeps, ContentTypes DEF PBuild, MakeOk, IInv
  <2> QED BY <1>0, <1>4, <2>1, WentOn DEF PBuild
<1>5. CASE PSeal
  <2>1. FarmDir(op.layers) \in Content
    BY DEF IInv, Steered, ControlOK, Locals, FarmDir, Content
  <2>2. changed \in BOOLEAN
    BY DEF IInv, WorldOK, DiskOK
  <2>3. WorldOK' /\ ns'.orig = ns.orig
    BY <1>5, <2>1, <2>2, FillKeeps, StayKeeps DEF PSeal, IInv
  <2> QED BY <1>0, <1>5, <2>3, WentOn DEF PSeal
<1>6. CASE PIntent
  <2>1. Truthful("applying", ApplyingIntent(ns.data, ns.staging))
    BY <1>0, <1>6, IdentityAssumption
    DEF PIntent, IInv, WorldOK, DiskOK, Namespaces, Home, NeverASibling, Truthful,
        ApplyingIntent, Applying
  <2>2. WorldOK' /\ ns'.orig = ns.orig
    BY <1>6, <2>1, RecordCall DEF PIntent, IInv, Records
  <2> QED BY <1>0, <1>6, <2>2, WentOn DEF PIntent
<1>7. CASE PUnstage
  <2>1. WorldOK'
    BY <1>7, EraseCall DEF PUnstage, IInv, Places
  <2> QED BY <1>7, <2>1, Stopped DEF PUnstage
<1>8. CASE PSwap
  <2>1. WorldOK' /\ ns'.orig = ns.orig
    BY <1>0, <1>8, SwapKeeps, StayKeeps DEF PSwap, IInv
  <2> QED BY <1>0, <1>8, <2>1, Stopped, WentOn DEF PSwap
<1>9. CASE PBack
  <2>1. WorldOK'
    BY <1>0, <1>9, SwapKeeps, StayKeeps DEF PBack, IInv
  <2>2. CASE pc' = "p_unswap" /\ outcome' = "pending" /\ UNCHANGED <<op, mgr>>
    BY <2>1, <2>2 DEF IInv, Steered, ControlOK, DataIsDisposable, ActivationKnows, TeardownRecorded
  <2> QED BY <1>9, <2>1, <2>2, Stopped, WentOn DEF PBack
<1>10. CASE PUnswap
  <2>1. WorldOK'
    BY <1>10, EraseCall DEF PUnswap, IInv, Places
  <2> QED BY <1>10, <2>1, Stopped, WentOn DEF PUnswap
<1>11. CASE PUnintent
  <2>1. WorldOK'
    BY <1>11, RecordCall DEF PUnintent, IInv, Records, Truthful
  <2> QED BY <1>11, <2>1, Stopped DEF PUnintent
<1>12. CASE PRemove
  <2>1. WorldOK'
    BY <1>12, EraseCall DEF PRemove, IInv, Places
  <2> QED BY <1>12, <2>1, Stopped, WentOn DEF PRemove
<1>13. CASE PClear
  <2>1. WorldOK'
    BY <1>13, RecordCall DEF PClear, IInv, Records, Truthful
  <2> QED BY <1>13, <2>1, Stopped DEF PClear
<1> QED
  BY <1>1, <1>2, <1>3, <1>4, <1>5, <1>6, <1>7, <1>8, <1>9, <1>10, <1>11, <1>12, <1>13
  DEF Apply

(* Deactivate and resumeFarmRetirement: the journal says which directory   *)
(* is the farm.                                                            *)
LEMMA TeardownKeeps ==
  ASSUME IInv, Teardown
  PROVE  IInv'
<1> USE DEF Labels, DisposingSteps, ActivationSteps, JournalSteps
<1>0. /\ pc \in DisposingSteps => ns.orig = Original
      /\ pc \in JournalSteps => ns.journal # None
      /\ ns.journal # None => ns.journal \in Journals /\ ns.journal.backup = Original
                                /\ ns.journal.farm # Original
  BY DEF IInv, Steered, DataIsDisposable, TeardownRecorded, WorldOK, DiskOK, Namespaces,
     RecordsTrue
<1>1. CASE DBegin
  <2>1. WorldOK'
    BY <1>1, StayKeeps DEF DBegin, IInv
  <2>2. op' \in Locals
    <3>1. CASE ns.journal # None
      <4>1. op' = [name |-> "deactivate", layers |-> None, opts |-> "overwrite",
                   orig |-> ns.journal.backup, farm |-> None, prev |-> Unmounted,
                   resumed |-> FALSE, todo |-> <<>>]
        BY <1>1, <3>1 DEF DBegin, NoOp
      <4>2. ns.journal.backup \in OptDirs
        BY <1>0, <3>1 DEF OptDirs, Dirs
      <4>3. op'.todo \in Seq(Places)
        BY <4>1
      <4> QED BY <4>1, <4>2, <4>3 DEF Locals, OptDirs, CaptureOpts, Unmounted, Managers
    <3>2. CASE ns.journal = None
      BY <1>1, <3>2, Starting DEF DBegin, Decision, CaptureOpts
    <3> QED BY <3>1, <3>2
  <2>3. pc' \in {"r_loop", "r_capture", "r_begin"} /\ mgr' = mgr /\ outcome' = outcome
    BY <1>1 DEF DBegin, Start
  <2>4. pc' = "r_loop" => ns'.journal # None
    BY <1>1 DEF DBegin, Start, Stay
  <2>5. Steered'
    BY <2>2, <2>3, <2>4 DEF IInv, Steered, ControlOK, DataIsDisposable, ActivationKnows, TeardownRecorded
  <2> QED BY <2>1, <2>5 DEF IInv
<1>2. CASE RCapture
  <2>1. WorldOK'
    BY <1>2, CaptureKeeps, CaptureFailing, StayKeeps DEF RCapture, IInv, Places
  <2> QED BY <1>2, <2>1, Stopped, WentOn, ZenonT(30) DEF RCapture
<1>3. CASE RBegin
  <2>1. CASE ns.journal # None \/ ns.retired # None \/ ns.data = None \/ ns.orig = None
    BY <1>3, <2>1, StayKeeps, Stopped DEF RBegin, IInv
  <2>2. CASE ~(ns.journal # None \/ ns.retired # None \/ ns.data = None \/ ns.orig = None)
    <3> DEFINE j == NewJournal(ns.data, ns.orig, op.opts)
    <3>1. j \in Journals /\ j.backup = Original /\ j.farm # Original
      BY <2>2, IdentityAssumption
      DEF NewJournal, Journals, IInv, WorldOK, DiskOK, Namespaces, OptDirs, Home, Steered,
          ControlOK, Locals
    <3>2. WorldOK'
      BY <1>3, <2>2, <3>1, JournalCall DEF RBegin, IInv
    <3>3. Journalled(j, TRUE) => ns'.journal # None
      BY <3>1, RecordAssumption DEF Journalled, IInv, WorldOK, DiskOK, Namespaces
    <3> QED BY <1>3, <2>2, <3>2, <3>3, Stopped, WentOn DEF RBegin
  <2> QED BY <2>1, <2>2
<1>4. ASSUME NEW p \in {"data", "retired"}, NEW captured, NEW mark \in Labels, NEW next \in Labels,
             RecordedCapture(p, captured, mark, next),
             pc \in JournalSteps, mark \in DisposingSteps => ns.orig = Original,
             next \in DisposingSteps => ns.orig = Original,
             mark \notin ActivationSteps, next \notin ActivationSteps
      PROVE  IInv'
  <2> DEFINE opts == ns.journal.capture
  <2>1. CASE Captured(p, opts, TRUE) /\ Ok /\ Go(IF captured THEN next ELSE mark)
    <3>1. WorldOK' /\ ns' = ns
      BY <2>1, CaptureKeeps DEF IInv, Places
    <3> QED BY <1>0, <1>4, <2>1, <3>1, WentOn
  <2>2. CASE ((Stay /\ Ok) \/ CaptureFails(p, opts)) /\ CaptureRefused
    <3>1. WorldOK'
      BY <2>2, CaptureFailing, StayKeeps DEF IInv, Places
    <3> QED BY <2>2, <3>1, Stopped DEF CaptureRefused
  <2> QED BY <1>4, <2>1, <2>2 DEF RecordedCapture
<1>5. CASE RLive
  <2>1. ns.orig = Original
    BY <1>0, <1>5 DEF RLive, FarmIsLive
  <2> QED BY <1>4, <1>5, <2>1, SMTT(30) DEF RLive
<1>6. CASE RRestore
  <2>1. WorldOK' /\ ns'.journal = ns.journal
    BY <1>6, MoveCall DEF RRestore, IInv, Places
  <2> QED BY <1>0, <1>6, <2>1, Stopped, WentOn DEF RRestore
<1>7. CASE RRetired
  <2> DEFINE captured == ns.journal.retiredCaptured
  <2>1. RecordedCapture("retired", captured, "r_mark_retired", "r_drop") /\ pc \in JournalSteps
    BY <1>7 DEF RRetired
  <2>2. /\ {"r_mark_retired", "r_drop"} \subseteq Labels \ (DisposingSteps \cup ActivationSteps)
        /\ "retired" \in {"data", "retired"}
    OBVIOUS
  <2> HIDE DEF captured, Labels, DisposingSteps, ActivationSteps, JournalSteps
  <2> QED BY <1>4, <2>1, <2>2
<1>8. CASE RFinish
  <2>1. WorldOK'
    BY <1>8, RecordCall DEF RFinish, IInv, Records, Truthful
  <2> QED BY <1>8, <2>1, Stopped DEF RFinish
<1>9. CASE RMismatch
  <2>1. WorldOK'
    BY <1>9, StayKeeps DEF RMismatch, IInv
  <2> QED BY <1>9, <2>1, Stopped DEF RMismatch
<1>10. ASSUME NEW label, NEW field \in {"dataCaptured", "retiredCaptured"},
              NEW next \in Labels, RMark(label, field, next), label \in JournalSteps,
              next \in DisposingSteps => ns.orig = Original,
              next \notin ActivationSteps
       PROVE  IInv'
  <2> DEFINE j == [ns.journal EXCEPT ![field] = TRUE]
  <2>1. j \in Journals /\ j.backup = Original /\ j.farm # Original
    BY <1>0, <1>10 DEF RMark, Journals
  <2>2. WorldOK' /\ ns'.orig = ns.orig
    BY <1>10, <2>1, JournalCall DEF RMark, IInv
  <2>3. Journalled(j, FALSE) => ns'.journal # None
    BY <2>1, RecordAssumption DEF Journalled, IInv, WorldOK, DiskOK, Namespaces
  <2> QED BY <1>10, <2>2, <2>3, Stopped, WentOn DEF RMark
<1>11. CASE RMarkData
  BY <1>0, <1>10, <1>11 DEF RMarkData, RMark
<1>12. CASE RMarkRetired
  BY <1>10, <1>12 DEF RMarkRetired
<1>13. CASE RRetire
  <2>1. WorldOK' /\ ns'.journal = ns.journal
    BY <1>0, <1>13, MoveCall DEF RRetire, IInv, Places
  <2> QED BY <1>0, <1>13, <2>1, Stopped, WentOn DEF RRetire
<1>14. CASE RDrop
  <2>1. WorldOK' /\ ns'.journal = ns.journal
    BY <1>14, EraseCall DEF RDrop, IInv, Places
  <2> QED BY <1>0, <1>14, <2>1, Stopped, WentOn DEF RDrop
<1> QED
  BY <1>1, <1>2, <1>3, <1>5, <1>6, <1>7, <1>8, <1>9, <1>11, <1>12, <1>13, <1>14
  DEF Teardown, RLoop

(* CleanupStale, which may start in any state a crash left.                *)
LEMMA CleanupKeeps ==
  ASSUME IInv, Cleanup
  PROVE  IInv'
<1> USE DEF Labels, DisposingSteps, ActivationSteps, JournalSteps
<1>0. /\ ns.journal # None => ns.journal \in Journals /\ ns.journal.backup = Original
                                /\ ns.journal.farm # Original
      /\ op \in Locals
      /\ ns.data # Original <=> ns.orig = Original
      /\ ns.orig # None => ns.orig = Original
  BY IdentityAssumption
  DEF IInv, Steered, ControlOK, WorldOK, DiskOK, Namespaces, RecordsTrue, Home
<1>1. CASE CBegin
  <2>1. WorldOK' /\ ns' = ns
    BY <1>1, StayKeeps DEF CBegin, IInv
  <2>2. NoOp \in Locals
    BY DEF NoOp, Locals, CaptureOpts, OptDirs, Unmounted, Managers
  <2>3. op' \in Locals /\ pc' \in {"idle", "c_start"}
    BY <1>1, <2>2, Starting DEF CBegin, Decision, CaptureOpts
  <2>4. mgr' = mgr /\ outcome' \in {outcome, "pending"}
    BY <1>1 DEF CBegin
  <2>5. Steered'
    BY <2>3, <2>4 DEF IInv, Steered, ControlOK, DataIsDisposable, ActivationKnows, TeardownRecorded
  <2> QED BY <2>1, <2>5 DEF IInv
<1>2. CASE CRestoring
  <2>1. WorldOK'
    BY <1>2, StayKeeps DEF CRestoring, IInv
  <2> QED BY <1>2, <2>1, Stopped, WentOn DEF CRestoring
<1>3. CASE CJournal
  <2> DEFINE j == NewJournal(ns.journal.farm, ns.journal.backup, op.opts)
             resume == /\ pc' = "r_loop" /\ op' = [op EXCEPT !.resumed = TRUE]
                       /\ UNCHANGED <<mgr, outcome>>
  <2>1. ns.journal # None
    BY <1>3 DEF CJournal
  <2>2. j \in Journals /\ j.backup = Original /\ j.farm # Original
    BY <1>0, <2>1 DEF NewJournal, Journals, Locals
  <2>3. WorldOK'
    BY <1>3, <2>2, JournalCall, StayKeeps DEF CJournal, IInv
  <2>4. resume => ns'.journal # None
    <3>1. CASE Stay
      BY <2>1, <3>1 DEF Stay
    <3>2. CASE Journalled(j, TRUE)
      BY <2>2, <3>2, RecordAssumption DEF Journalled, IInv, WorldOK, DiskOK, Namespaces
    <3> QED BY <1>3, <3>1, <3>2 DEF CJournal, JournalFails
  <2>5. resume => op' \in Locals
    BY <1>0 DEF Locals
  <2>6. CASE resume
    <3>1. Steered'
      BY <2>4, <2>5, <2>6 DEF IInv, Steered, ControlOK, DataIsDisposable, ActivationKnows, TeardownRecorded
    <3> QED BY <2>3, <3>1 DEF IInv
  <2>7. CASE Fail \/ Pending
    BY <2>3, <2>7, Stopped
  <2> QED BY <1>3, <2>6, <2>7 DEF CJournal
<1>4. CASE CRetired
  <2>1. WorldOK'
    BY <1>4, StayKeeps DEF CRetired, IInv
  <2> QED BY <1>4, <2>1, Stopped DEF CRetired
<1>5. CASE CStranded
  <2>1. ASSUME NEW p \in {"oldfarm", "staging"}, ns' = Moved(p, "data"), Keep, Ok
        PROVE  WorldOK'
    BY <1>5, <2>1, MoveKeeps DEF CStranded, IInv, Places
  <2>2. WorldOK'
    BY <1>5, <2>1, StayKeeps DEF CStranded, IInv
  <2> QED BY <1>5, <2>2, Stopped, WentOn DEF CStranded
<1>6. CASE CNotStranded
  <2>1. WorldOK'
    BY <1>6, StayKeeps DEF CNotStranded, IInv
  <2> QED BY <1>6, <2>1, WentOn DEF CNotStranded
<1>7. CASE CIntent
  <2>1. Truthful("activating", None)
    BY DEF Truthful
  <2>2. ASSUME Intended, CRollBack
        PROVE  IInv'
    <3>1. WorldOK'
      BY <2>1, <2>2, RecordCall, StayKeeps DEF CRollBack, IInv, Records
    <3>2. ns.activating.original = Original /\ ns.activating.farm \in OptDirs
      BY <2>2 DEF IInv, WorldOK, DiskOK, Namespaces, RecordsTrue, Intended, Activating
    <3>3. CASE /\ pc' = "b_check"
               /\ op' = [op EXCEPT !.orig = ns.activating.original,
                                   !.farm = ns.activating.farm]
               /\ UNCHANGED <<mgr, outcome>>
      <4>1. op' \in Locals /\ op'.orig = Original
        BY <1>0, <3>2, <3>3 DEF Locals, OptDirs, Dirs
      <4>2. Steered'
        BY <3>3, <4>1 DEF IInv, Steered, ControlOK, DataIsDisposable, ActivationKnows, TeardownRecorded
      <4> QED BY <3>1, <4>2 DEF IInv
    <3> QED BY <2>2, <3>1, <3>3, Stopped DEF CRollBack
  <2>3. ASSUME CRollBackSchema1
        PROVE  IInv'
    <3>1. WorldOK' /\ (ns.orig # None => ns'.orig = ns.orig)
      BY <2>1, <2>3, RecordCall, StayKeeps DEF CRollBackSchema1, IInv, Records
    <3> QED BY <1>0, <2>3, <3>1, Stopped, WentOn DEF CRollBackSchema1
  <2>4. ASSUME Stay, Ok, Go("c_apply")
        PROVE  IInv'
    BY <2>4, StayKeeps, WentOn DEF IInv
  <2>5. ASSUME \/ RecordOk("activating", None) /\ Go("c_apply")
               \/ RecordFails("activating", None) /\ Fail
        PROVE  IInv'
    <3>1. WorldOK'
      BY <2>1, <2>5, RecordCall DEF IInv, Records
    <3> QED BY <2>5, <3>1, Stopped, WentOn
  <2> QED BY <1>7, <2>2, <2>3, <2>4, <2>5 DEF CIntent
<1>8. CASE CApply
  <2>1. WorldOK'
    BY <1>8, StayKeeps DEF CApply, IInv
  <2> QED BY <1>8, <2>1, Stopped, WentOn DEF CApply
<1>9. CASE CUnstage
  <2>1. WorldOK'
    BY <1>9, EraseCall DEF CUnstage, IInv, Places
  <2> QED BY <1>9, <2>1, Stopped, WentOn DEF CUnstage
<1>10. CASE CUnapply
  <2>1. WorldOK'
    BY <1>10, RecordCall DEF CUnapply, IInv, Records, Truthful
  <2> QED BY <1>10, <2>1, Stopped, WentOn DEF CUnapply
<1>11. CASE CTidy
  <2>1. WorldOK'
    BY <1>11, StayKeeps DEF CTidy, IInv
  <2> QED BY <1>11, <2>1, Stopped, WentOn DEF CTidy
<1>12. CASE CTidyStaging
  <2>1. WorldOK'
    BY <1>12, EraseCall DEF CTidyStaging, CTidyAway, IInv, Places
  <2> QED BY <1>12, <2>1, Stopped, WentOn DEF CTidyStaging, CTidyAway
<1>13. CASE CTidyOldFarm
  <2>1. WorldOK'
    BY <1>13, EraseCall DEF CTidyOldFarm, CTidyAway, IInv, Places
  <2> QED BY <1>13, <2>1, Stopped, WentOn DEF CTidyOldFarm, CTidyAway
<1>14. CASE CTidyIntent
  <2>1. WorldOK'
    BY <1>14, RecordCall DEF CTidyIntent, IInv, Records, Truthful
  <2> QED BY <1>14, <2>1, Stopped, WentOn DEF CTidyIntent
<1>15. CASE CData
  <2>1. EraseOk("data") /\ ns.orig # None => WorldOK'
    BY <1>0, EraseCall DEF IInv, Places
  <2>2. WorldOK'
    BY <1>15, <2>1, StayKeeps DEF CData, IInv
  <2> QED BY <1>15, <2>2, Stopped, WentOn DEF CData
<1>16. CASE CRestore
  <2>1. WorldOK'
    BY <1>16, MoveKeeps, StayKeeps DEF CRestore, IInv, Places
  <2> QED BY <1>16, <2>1, Stopped DEF CRestore
<1> QED
  BY <1>1, <1>2, <1>3, <1>4, <1>5, <1>6, <1>7, <1>8, <1>9, <1>10, <1>11, <1>12, <1>13,
     <1>14, <1>15, <1>16
  DEF Cleanup

(* RestoreFromBackup and finishRestoreCleanup.                             *)
LEMMA RestoreKeeps ==
  ASSUME IInv, Restore
  PROVE  IInv'
<1> USE DEF Labels, DisposingSteps, ActivationSteps, JournalSteps
<1>0. /\ pc \in DisposingSteps => ns.orig = Original
      /\ op \in Locals /\ op.todo \in Seq(Places)
      /\ ns.orig # None => ns.orig = Original /\ ns.data # Original
  BY IdentityAssumption
  DEF IInv, Steered, ControlOK, DataIsDisposable, Locals, WorldOK, Home
<1>1. CASE XBegin
  <2> DEFINE siblings == <<"retired", "staging", "oldfarm">>
  <2>1. ns' = ns /\ WorldOK'
    BY <1>1, FaultBounded DEF XBegin, disk, IInv, WorldOK, DiskOK, Home, NeverASibling, RecordsTrue, Intended
  <2>2. <<>> \in Seq(Places) /\ <<"data">> \in Seq(Places) /\ siblings \in Seq(Places)
    BY DEF Places
  <2>3. <<"data">> \o siblings \in Seq(Places)
    BY <2>2, ConcatProperties
  <2>4. ASSUME NEW opts \in CaptureOpts, NEW label, NEW todo \in Seq(Places),
               XStart(opts, label, todo)
        PROVE  op' \in Locals /\ pc' = label
    <3>1. op' = [name |-> "restore", layers |-> None, opts |-> opts, orig |-> None,
                 farm |-> None, prev |-> mgr, resumed |-> FALSE, todo |-> todo]
      BY <2>4 DEF XStart, NoOp
    <3>2. mgr \in Managers /\ None \in OptDirs
      BY DEF IInv, Steered, ControlOK, OptDirs
    <3>3. op' \in Locals
      BY <3>1, <3>2 DEF Locals
    <3> QED BY <2>4, <3>3 DEF XStart
  <2>5. PICK opts \in CaptureOpts : XResume(opts) \/ XFirst(opts)
    BY <1>1 DEF XBegin, Decision, CaptureOpts
  <2>6. op' \in Locals /\ pc' \in {"f_retired", "x_capture"}
    BY <2>2, <2>3, <2>4, <2>5 DEF XResume, XFirst
  <2>7. mgr' = mgr /\ outcome' = outcome
    BY <1>1 DEF XBegin
  <2>8. Steered'
    BY <2>1, <2>6, <2>7 DEF IInv, Steered, ControlOK, DataIsDisposable, ActivationKnows, TeardownRecorded
  <2> QED BY <2>1, <2>8 DEF IInv
<1>2. CASE XCapture
  <2> DEFINE p == Head(op.todo)
  <2>1. p \in Places /\ Tail(op.todo) \in Seq(Places)
    BY <1>0, <1>2 DEF XCapture
  <2>2. WorldOK'
    BY <1>2, <2>1, CaptureKeeps, CaptureFailing, StayKeeps DEF XCapture, IInv
  <2>3. CASE op' = [op EXCEPT !.todo = Tail(@)] /\ UNCHANGED <<pc, mgr, outcome>>
    <3>1. op' \in Locals
      BY <1>0, <2>1, <2>3 DEF Locals
    <3>2. pc = "x_capture"
      BY <1>2 DEF XCapture
    <3>3. Steered'
      BY <2>3, <3>1, <3>2 DEF IInv, Steered, ControlOK, DataIsDisposable, ActivationKnows, TeardownRecorded
    <3> QED BY <2>2, <3>3 DEF IInv
  <2> QED BY <1>2, <2>2, <2>3, Stopped DEF XCapture
<1>3. CASE XRecord
  <2> DEFINE r == [backup |-> ns.orig, farm |-> ns.data]
  <2>1. CASE ns.orig = None
    BY <1>3, <2>1, StayKeeps, WentOn DEF XRecord, IInv
  <2>2. CASE ns.orig # None
    <3>1. Truthful("restoring", r)
      BY <1>0, <2>2 DEF Truthful, Restoring, IInv, WorldOK, DiskOK, Namespaces, Dirs
    <3>2. WorldOK' /\ ns'.orig = ns.orig
      BY <1>3, <2>2, <3>1, RecordCall, StayKeeps DEF XRecord, IInv, Records
    <3> QED BY <1>0, <1>3, <2>2, <3>2, Stopped, WentOn DEF XRecord
  <2> QED BY <2>1, <2>2
<1>4. CASE XRemove
  <2>1. WorldOK'
    BY <1>0, <1>4, EraseCall, StayKeeps DEF XRemove, IInv, Places
  <2> QED BY <1>4, <2>1, Stopped, WentOn DEF XRemove
<1>5. CASE XRename
  <2>1. WorldOK'
    BY <1>5, MoveCall DEF XRename, IInv, Places
  <2> QED BY <1>5, <2>1, Stopped, WentOn DEF XRename
<1>6. CASE FRetired
  <2>1. WorldOK'
    BY <1>6, EraseCall DEF FRetired, IInv, Places
  <2> QED BY <1>6, <2>1, Stopped, WentOn DEF FRetired
<1>7. ASSUME NEW label, NEW r \in Records, NEW next \in Labels, FRecord(label, r, next),
             next \notin DisposingSteps \cup ActivationSteps \cup JournalSteps
      PROVE  IInv'
  <2>1. WorldOK'
    BY <1>7, RecordCall DEF FRecord, IInv, Truthful
  <2> QED BY <1>7, <2>1, Stopped, WentOn DEF FRecord
<1>8. ASSUME NEW label, NEW p \in {"staging", "oldfarm"}, NEW next \in Labels,
             FSibling(label, p, next),
             next \notin DisposingSteps \cup ActivationSteps \cup JournalSteps
      PROVE  IInv'
  <2>1. WorldOK'
    BY <1>8, EraseCall DEF FSibling, IInv, Places
  <2> QED BY <1>8, <2>1, Stopped, WentOn DEF FSibling
<1>9. CASE FJournal \/ FActivating \/ FApplying
  BY <1>7, <1>9 DEF FJournal, FActivating, FApplying, Records
<1>10. CASE FStaging \/ FOldFarm
  BY <1>8, <1>10 DEF FStaging, FOldFarm
<1>11. CASE FDone
  <2>1. WorldOK'
    BY <1>11, RecordCall DEF FDone, IInv, Records, Truthful
  <2> QED BY <1>11, <2>1, Stopped DEF FDone
<1> QED BY <1>1, <1>2, <1>3, <1>4, <1>5, <1>6, <1>9, <1>10, <1>11 DEF Restore

(* The game, other programs, Steam, the user and a crash at any step.      *)
LEMMA SurroundingsKeep ==
  ASSUME IInv, Surroundings
  PROVE  IInv'
<1> USE DEF Labels, DisposingSteps, ActivationSteps, JournalSteps
<1>0. ASSUME ns' = ns, UNCHANGED control PROVE Steered'
  BY <1>0 DEF control, IInv, Steered, ControlOK, DataIsDisposable, ActivationKnows, TeardownRecorded
<1>1. ASSUME WorldOK', Down PROVE IInv'
  <2>1. NoOp \in Locals /\ Unmounted \in Managers
    BY DEF NoOp, Locals, CaptureOpts, OptDirs, Unmounted, Managers
  <2> QED BY <1>1, <2>1 DEF Down, IInv, Steered, ControlOK, DataIsDisposable, ActivationKnows, TeardownRecorded
<1>2. CASE GameWrites
  <2>1. ns' = ns /\ ns.data \in Dirs
    BY <1>2 DEF GameWrites, IInv, WorldOK, DiskOK, Namespaces, OptDirs
  <2>2. dir[ns.data] \in Content
    BY <2>1 DEF IInv, WorldOK, DiskOK
  <2>3. PICK f \in Files :
          /\ dir' = [dir EXCEPT ![ns.data] = [dir[ns.data] EXCEPT !.out = @ \cup {f}]]
          /\ written' = written \cup {f} /\ saved' = saved \ {f}
    BY <1>2 DEF GameWrites
  <2>4. [dir[ns.data] EXCEPT !.out = @ \cup {f}] \in Content
    BY <2>2 DEF Content
  <2>5. dir' \in [Dirs -> Content]
    BY <2>1, <2>3, <2>4 DEF IInv, WorldOK, DiskOK
  <2>6. Home' /\ NeverASibling' /\ RecordsTrue'
    BY <2>1 DEF IInv, WorldOK, Home, NeverASibling, RecordsTrue, Intended
  <2>7. WorldOK'
    BY <1>2, <2>1, <2>3, <2>5, <2>6 DEF GameWrites, IInv, WorldOK, DiskOK
  <2>8. Steered'
    BY <1>0, <1>2, <2>1 DEF GameWrites
  <2> QED BY <2>7, <2>8 DEF IInv
<1>3. CASE ForeignData
  <2>1. PICK x \in Foreign \ Mentioned(ns), c \in {EmptyDir, PlainDir} :
          /\ ns' = [ns EXCEPT !.data = x]
          /\ dir' = [dir EXCEPT ![x] = c]
          /\ strangers' = IF c = PlainDir THEN strangers \cup {x} ELSE strangers \ {x}
    BY <1>3 DEF ForeignData
  <2>2. x \in Dirs /\ x # Original /\ ns.data = None /\ c \in Content
    BY <1>3, ContentTypes, IdentityAssumption DEF ForeignData, Dirs
  <2>3. ns' \in Namespaces /\ ns'.orig = ns.orig /\ ns'.journal = ns.journal
    BY <2>1, <2>2 DEF IInv, WorldOK, DiskOK, Namespaces, OptDirs
  <2>4. dir' \in [Dirs -> Content]
    BY <2>1, <2>2 DEF IInv, WorldOK, DiskOK
  <2>5. Home' /\ NeverASibling' /\ RecordsTrue'
    BY <2>1, <2>2, IdentityAssumption
    DEF IInv, WorldOK, DiskOK, Namespaces, Home, NeverASibling, RecordsTrue, Intended
  <2>6. WorldOK'
    BY <1>3, <2>1, <2>3, <2>4, <2>5, FaultBounded
    DEF ForeignData, output, IInv, WorldOK, DiskOK
  <2>7. Steered'
    BY <1>3, <2>3 DEF ForeignData, control, IInv, Steered, ControlOK, DataIsDisposable, ActivationKnows, TeardownRecorded
  <2> QED BY <2>6, <2>7 DEF IInv
<1>4. CASE SteamChanges \/ ClearMaintenance
  <2>1. ns' = ns /\ UNCHANGED control
    BY <1>4 DEF SteamChanges, ClearMaintenance, disk
  <2>2. WorldOK'
    BY <1>4, <2>1 DEF SteamChanges, ClearMaintenance, disk, output, IInv, WorldOK, DiskOK,
       Home, NeverASibling, RecordsTrue, Intended
  <2> QED BY <1>0, <2>1, <2>2 DEF IInv
<1>5. CASE Stop
  BY <1>1, <1>5, StayKeeps DEF Stop, IInv
<1>6. CASE Crash
  <2>1. DOMAIN Removing \subseteq Places \ {"orig"}
    BY DEF Removing, Places
  <2>2. ASSUME NEW p \in DOMAIN Removing, pc \in Removing[p], ErasedPartly(p), Fault
        PROVE  WorldOK'
    <3>1. p = "data" => ns.orig = Original
      BY <2>2 DEF Removing, IInv, Steered, DataIsDisposable
    <3> QED BY <2>1, <2>2, <3>1, EraseKeeps DEF IInv
  <2>3. WorldOK'
    BY <1>6, <2>2, StayKeeps DEF Crash, IInv
  <2> QED BY <1>1, <1>6, <2>3 DEF Crash
<1> QED BY <1>2, <1>3, <1>4, <1>5, <1>6 DEF Surroundings

(* The first state, whether pristine or inherited.                         *)
LEMMA InitHolds == Init => IInv
<1> SUFFICES ASSUME Init PROVE IInv
  OBVIOUS
<1>1. ns \in Namespaces /\ Home /\ NeverASibling /\ RecordsTrue
  <2>1. CASE ns = PristineNamespace
    BY <2>1, IdentityAssumption
    DEF PristineNamespace, Namespaces, OptDirs, Dirs, Home, NeverASibling, RecordsTrue, Intended
  <2>2. ASSUME NEW f \in Farms, NEW g \in Farms, ns \in InheritedStates(f, g)
        PROVE  ns \in Namespaces /\ Home /\ NeverASibling /\ RecordsTrue
    <3> DEFINE
          Good(n) ==
            /\ n \in Namespaces
            /\ (n.data = Original /\ n.orig = None) \/ (n.data # Original /\ n.orig = Original)
            /\ Original \notin {n.staging, n.oldfarm, n.retired}
            /\ n.activating \in {None, Schema1Intent} /\ n.applying \in {None, Schema1Apply}
            /\ n.journal = None /\ n.restoring = None
          P == PristineNamespace
          moved == [P EXCEPT !.orig = Original]
          backed == [moved EXCEPT !.data = None]
    <3>1. /\ Schema1Intent \in Activating /\ Schema1Intent.schema = 1
          /\ Schema1Apply \in Applying
          /\ Original \notin {Schema1Apply.live, Schema1Apply.staging}
      BY IdentityAssumption DEF Schema1Intent, Schema1Apply, Activating, Applying, OptDirs
    <3>2. Original # None /\ {f, g} \subseteq OptDirs /\ Original \notin {f, g}
          /\ {None, Original} \subseteq OptDirs
      BY IdentityAssumption DEF OptDirs, Dirs
    <3>3. Good(P)
      BY <3>2 DEF PristineNamespace, Namespaces, OptDirs, Dirs
    <3>4. Good(backed) /\ backed.orig = Original
      <4>1. moved \in Namespaces
        BY <3>2, <3>3 DEF Namespaces
      <4> QED BY <3>2, <3>3, <4>1 DEF Namespaces
    <3>5. ASSUME NEW n, Good(n), NEW d \in {f, g}
          PROVE  /\ n.orig = Original =>
                      Good([n EXCEPT !.data = d]) /\ [n EXCEPT !.data = d].orig = Original
                 /\ Good([n EXCEPT !.staging = d]) /\ [n EXCEPT !.staging = d].orig = n.orig
                 /\ Good([n EXCEPT !.oldfarm = d]) /\ [n EXCEPT !.oldfarm = d].orig = n.orig
                 /\ Good([n EXCEPT !.retired = d])
      BY <3>2, <3>5 DEF Namespaces
    <3>6. ASSUME NEW n, Good(n)
          PROVE  /\ Good([n EXCEPT !.activating = Schema1Intent])
                 /\ [n EXCEPT !.activating = Schema1Intent].orig = n.orig
                 /\ Good([n EXCEPT !.applying = Schema1Apply])
                 /\ [n EXCEPT !.applying = Schema1Apply].orig = n.orig
      BY <3>1, <3>6 DEF Namespaces
    <3> DEFINE activating == [backed EXCEPT !.activating = Schema1Intent]
               applying == [backed EXCEPT !.applying = Schema1Apply]
    <3>7. ns \in {[P EXCEPT !.activating = Schema1Intent], activating,
                  [activating EXCEPT !.data = f],
                  [[applying EXCEPT !.data = f] EXCEPT !.staging = g],
                  [[applying EXCEPT !.oldfarm = f] EXCEPT !.staging = g],
                  [[applying EXCEPT !.oldfarm = f] EXCEPT !.data = g],
                  backed, [backed EXCEPT !.data = f], [backed EXCEPT !.retired = f],
                  [P EXCEPT !.retired = f]}
      BY <2>2 DEF InheritedStates
    <3> HIDE DEF Good, P, backed, activating, applying
    <3>8. Good(activating) /\ activating.orig = Original
          /\ Good(applying) /\ applying.orig = Original
      BY <3>4, <3>6 DEF activating, applying
    <3>9. Good(ns)
      BY <3>3, <3>4, <3>5, <3>6, <3>7, <3>8
    <3> QED BY <3>1, <3>9, IdentityAssumption DEF Good, Home, NeverASibling, RecordsTrue, Intended
  <2> QED BY <2>1, <2>2 DEF Init, InitDisk
<1>2. dir \in [Dirs -> Content]
  BY ContentTypes, ZenonT(30) DEF Init, InitDisk, Farmed, Dirs
<1>3. WorldOK
  <2>1. faults \in 0..MaxFaults
    BY FarmAssumption DEF Init
  <2> QED BY <1>1, <1>2, <2>1 DEF Init, WorldOK, DiskOK
<1>4. NoOp \in Locals /\ Unmounted \in Managers
  BY DEF NoOp, Locals, CaptureOpts, OptDirs, Unmounted, Managers
<1>5. Steered
  BY <1>4 DEF Init, Steered, ControlOK, DataIsDisposable, ActivationKnows, TeardownRecorded,
     Labels, DisposingSteps, ActivationSteps, JournalSteps
<1> QED BY <1>3, <1>5 DEF IInv

(* The invariant is inductive.                                             *)
LEMMA NextKeeps == IInv /\ [Next]_vars => IInv'
<1> SUFFICES ASSUME IInv, [Next]_vars PROVE IInv'
  OBVIOUS
<1>1. CASE UNCHANGED vars
  BY <1>1 DEF vars, IInv, Steered, ControlOK, DataIsDisposable, ActivationKnows, TeardownRecorded, WorldOK, DiskOK, Home, NeverASibling, RecordsTrue, Intended
<1>2. CASE Next
  BY <1>2, ActivateKeeps, RollBackKeeps, ApplyKeeps, TeardownKeeps, CleanupKeeps,
     RestoreKeeps, SurroundingsKeep
  DEF Next
<1> QED BY <1>1, <1>2

(***************************************************************************)
(* The theorems.                                                           *)
(***************************************************************************)
(* The inductive invariant holds in every reachable state.                 *)
THEOREM Invariance == Spec => []IInv
BY InitHolds, NextKeeps, PTL DEF Spec

(* Every variable keeps its type, whatever crashes or fails.               *)
THEOREM TypeCorrect == Spec => []TypeOK
<1>1. IInv => TypeOK
  BY DEF IInv, WorldOK, DiskOK, Steered, ControlOK, TypeOK
<1> QED BY <1>1, Invariance, PTL

(* No record on disk ever takes the game's own Data directory for a farm,  *)
(* and no step that removes or renames Data is due while it is there.      *)
THEOREM OriginalIsTracked == Spec => []OriginalTracked
<1>1. IInv => OriginalTracked
  BY DEF IInv, WorldOK, Steered, OriginalTracked
<1> QED BY <1>1, Invariance, PTL

(* The game's own Data directory is never lost: it is at Data or at        *)
(* Data.orig after any number of crashes, I/O errors, foreign folders and  *)
(* restarts, from a pristine install or one an older version left.         *)
THEOREM OriginalIsSafe == Spec => []OriginalSafe
<1>1. IInv => OriginalSafe
  BY IdentityAssumption DEF IInv, WorldOK, Home, NeverASibling, OriginalSafe
<1> QED BY <1>1, Invariance, PTL

-----------------------------------------------------------------------------
(* Recovery, and the folders of other programs.                            *)

(* The phases of the operations, by the prefix of their labels: an         *)
(* activation, the removal of the folder it made, the startup recovery,    *)
(* and the last part of a restore.                                         *)
ActivateSteps == {"a_rename", "a_abort", "a_mkdir", "a_record", "a_build", "a_seal", "a_clear"}
RollBackSteps == {"b_check", "b_remove", "b_rename", "b_clear"}
ReconcileSteps == {"c_apply", "c_unstage", "c_unapply", "c_tidy", "c_tidy_staging",
                   "c_tidy_oldfarm", "c_tidy_intent", "c_data", "c_restore"}
RecoverySteps == {"c_intent"} \cup ReconcileSteps
FinishSteps == {"f_retired", "f_journal", "f_staging", "f_oldfarm", "f_activating",
                "f_applying", "f_done"}

(* No restore and no removal was left unfinished.                          *)
NothingPending == ns.journal = None /\ ns.restoring = None /\ ns.retired = None

(* What recovery looked at before a step stays true until the step: it     *)
(* goes on to reconcile, to roll back or to take a farm down only where    *)
(* nothing is pending, and a journal it resumes has no restore record      *)
(* beside it.                                                              *)
ChecksPassed ==
  /\ pc \in ActivateSteps => op.name = "activate"
  /\ pc \in RecoverySteps => NothingPending
  /\ pc \in RollBackSteps \cup {"r_capture", "r_begin"} /\ op.name = "cleanup"
       => NothingPending
  /\ pc \in JournalSteps /\ op.name = "cleanup" => ns.restoring = None

(* An activation is over, and a restore takes its records away, only once  *)
(* Data is the original.                                                   *)
OriginalInUse == pc \in FinishSteps \cup {"b_clear"} => ns.data = Original

(* A restore takes its siblings and records away in this order.            *)
FinishedSoFar ==
  /\ pc \in FinishSteps \ {"f_retired"} => ns.retired = None
  /\ pc \in FinishSteps \ {"f_retired", "f_journal"} => ns.journal = None

(* The invariant of recovery, on top of IInv.                              *)
RInv == ChecksPassed /\ OriginalInUse /\ FinishedSoFar

(***************************************************************************)
(* One lemma per group of actions: each keeps RInv, and none reports a     *)
(* clean recovery it has not earned.                                       *)
(***************************************************************************)
(* An activation reports nothing to recovery.                              *)
LEMMA RecActivate ==
  ASSUME IInv, RInv, Activate
  PROVE  RInv' /\ RecoversCleanly
<1> USE DEF RInv, ChecksPassed, OriginalInUse, FinishedSoFar, NothingPending,
        ActivateSteps, RecoverySteps, ReconcileSteps, RollBackSteps, FinishSteps,
        JournalSteps
<1> USE DEF RecoversCleanly, Go, Fail, End, control
<1>0. Original # None /\ ns \in Namespaces /\ op \in Locals
  BY IdentityAssumption DEF IInv, WorldOK, DiskOK, Steered, ControlOK
<1>1. CASE ABegin
  BY <1>0, <1>1 DEF ABegin, NoOp, RecordOk, RecordFails, Stay, Keep, Namespaces
<1>2. CASE ARename
  BY <1>0, <1>2 DEF ARename, MoveOk, MoveFails, Stay, Keep, Moved, Namespaces
<1>3. CASE AAbort
  BY <1>0, <1>3 DEF AAbort, RecordOk, RecordFails, Stay, Keep, Namespaces
<1>4. CASE AMkdir
  BY <1>0, <1>4 DEF AMkdir, MakeOk, Made, Stay, Keep, Namespaces, Locals
<1>5. CASE ARecord
  BY <1>0, <1>5 DEF ARecord, RecordOk, RecordFails, Stay, Keep, Namespaces
<1>6. CASE ABuild
  BY <1>0, <1>6 DEF ABuild, Filled, Stay, Keep
<1>7. CASE ASeal
  BY <1>0, <1>7 DEF ASeal, Filled, Stay, Keep
<1>8. CASE AClear
  BY <1>0, <1>8 DEF AClear, RecordOk, RecordFails, Stay, Keep, Namespaces
<1> QED BY <1>1, <1>2, <1>3, <1>4, <1>5, <1>6, <1>7, <1>8 DEF Activate

(* The roll-back of an activation is where most recoveries end.            *)
LEMMA RecRollBack ==
  ASSUME IInv, RInv, RollBack
  PROVE  RInv' /\ RecoversCleanly
<1> USE DEF RInv, ChecksPassed, OriginalInUse, FinishedSoFar, NothingPending,
        ActivateSteps, RecoverySteps, ReconcileSteps, RollBackSteps, FinishSteps,
        JournalSteps
<1> USE DEF RecoversCleanly, Go, Fail, End, control
<1>0. Original # None /\ ns \in Namespaces /\ op \in Locals /\ Home
  BY IdentityAssumption DEF IInv, WorldOK, DiskOK, Steered, ControlOK
<1>1. CASE BCheck
  BY <1>0, <1>1 DEF BCheck, Stay
<1>2. CASE BRemove
  BY <1>0, <1>2 DEF BRemove, EraseOk, EraseFails, Erased, ErasedPartly, Stay, Namespaces
<1>3. CASE BRename
  BY <1>0, <1>3 DEF BRename, MoveOk, MoveFails, Stay, Moved, Namespaces, Home
<1>4. CASE BClear
  BY <1>0, <1>4 DEF BClear, RecordOk, RecordFails, Stay, Namespaces, Restored, Home
<1> QED BY <1>1, <1>2, <1>3, <1>4 DEF RollBack

(* An apply or a profile switch: recovery never runs under it.             *)
LEMMA RecApply ==
  ASSUME IInv, RInv, MarkDirty \/ Apply
  PROVE  RInv' /\ RecoversCleanly
<1> USE DEF RInv, ChecksPassed, OriginalInUse, FinishedSoFar, NothingPending,
        ActivateSteps, RecoverySteps, ReconcileSteps, RollBackSteps, FinishSteps,
        JournalSteps
<1> USE DEF RecoversCleanly, Go, Fail, End, control
<1>0. Original # None /\ ns \in Namespaces /\ op \in Locals /\ Home
  BY IdentityAssumption DEF IInv, WorldOK, DiskOK, Steered, ControlOK
<1>1. CASE MarkDirty
  BY <1>0, <1>1 DEF MarkDirty, Stay
<1>2. CASE PBegin
  BY <1>0, <1>2 DEF PBegin, Start, Stay
<1>3. CASE PCapture
  BY <1>0, <1>3 DEF PCapture, Captured, CaptureFails, Stay
<1>4. CASE PBuild
  BY <1>0, <1>4 DEF PBuild, MakeOk, Made, Stay, Namespaces
<1>5. CASE PSeal
  BY <1>0, <1>5 DEF PSeal, Filled, Stay
<1>6. CASE PIntent
  BY <1>0, <1>6 DEF PIntent, RecordOk, RecordFails, Stay, Namespaces
<1>7. CASE PUnstage
  BY <1>0, <1>7 DEF PUnstage, FailUnclean, EraseOk, EraseFails, EraseAndSyncFails,
     Erased, ErasedPartly, Stay, Namespaces
<1>8. CASE PSwap
  BY <1>0, <1>8 DEF PSwap, Exchanged, Stay, Namespaces
<1>9. CASE PBack
  BY <1>0, <1>9 DEF PBack, CommittedUnclean, Exchanged, Stay, Namespaces
<1>10. CASE PUnswap
  BY <1>0, <1>10 DEF PUnswap, FailUnclean, EraseOk, EraseFails, EraseAndSyncFails,
     Erased, ErasedPartly, Stay, Namespaces
<1>11. CASE PUnintent
  BY <1>0, <1>11 DEF PUnintent, FailUnclean, RecordOk, RecordFails, Stay, Namespaces
<1>12. CASE PRemove
  BY <1>0, <1>12 DEF PRemove, CommittedUnclean, EraseOk, EraseFails, EraseAndSyncFails,
     Erased, ErasedPartly, Stay, Namespaces
<1>13. CASE PClear
  BY <1>0, <1>13 DEF PClear, Committed, RecordOk, RecordFails, Stay, Namespaces
<1> QED BY <1>1, <1>2, <1>3, <1>4, <1>5, <1>6, <1>7, <1>8, <1>9, <1>10, <1>11, <1>12,
     <1>13 DEF Apply

(* A teardown, of a deactivation or of a recovery.                         *)
LEMMA RecTeardown ==
  ASSUME IInv, RInv, Teardown
  PROVE  RInv' /\ RecoversCleanly
<1> USE DEF RInv, ChecksPassed, OriginalInUse, FinishedSoFar, NothingPending,
        ActivateSteps, RecoverySteps, ReconcileSteps, RollBackSteps, FinishSteps,
        JournalSteps
<1> USE DEF RecoversCleanly, Go, Fail, End, control
<1>0. Original # None /\ ns \in Namespaces /\ op \in Locals /\ Home
  BY IdentityAssumption DEF IInv, WorldOK, DiskOK, Steered, ControlOK
<1>1. CASE DBegin
  BY <1>0, <1>1 DEF DBegin, Start, Stay, NoOp
<1>2. CASE RCapture
  BY <1>0, <1>2 DEF RCapture, Pending, Captured, CaptureFails, Stay
<1>3. CASE RBegin
  BY <1>0, <1>3 DEF RBegin, Journalled, JournalFails, Stay, Namespaces
<1>4. CASE RLive
  BY <1>0, <1>4 DEF RLive, RecordedCapture, CaptureRefused, Pending, Captured,
     CaptureFails, Stay
<1>5. CASE RRestore
  BY <1>0, <1>5 DEF RRestore, MoveOk, MoveFails, Stay, Moved, Namespaces, Home
<1>6. CASE RRetired
  BY <1>0, <1>6 DEF RRetired, RecordedCapture, CaptureRefused, Pending, Captured,
     CaptureFails, Stay
<1>7. CASE RFinish
  <2>1. ns.journal # None /\ ns.journal.backup = Original
    BY <1>7 DEF RFinish, IInv, Steered, TeardownRecorded, WorldOK, RecordsTrue
  <2> QED BY <1>0, <1>7, <2>1 DEF RFinish, FarmIsGone, Restored, RecordOk, RecordFails,
       Stay, Namespaces
<1>8. CASE RMismatch
  BY <1>0, <1>8 DEF RMismatch, Pending, Stay
<1>9. CASE RMarkData
  BY <1>0, <1>9 DEF RMarkData, RMark, Journalled, JournalFails, Stay, Namespaces
<1>10. CASE RMarkRetired
  BY <1>0, <1>10 DEF RMarkRetired, RMark, Journalled, JournalFails, Stay, Namespaces
<1>11. CASE RRetire
  BY <1>0, <1>11 DEF RRetire, MoveOk, MoveFails, Stay, Moved, Namespaces, Home
<1>12. CASE RDrop
  BY <1>0, <1>12 DEF RDrop, EraseOk, EraseFails, EraseAndSyncFails, Erased,
     ErasedPartly, Stay, Namespaces
<1> QED BY <1>1, <1>2, <1>3, <1>4, <1>5, <1>6, <1>7, <1>8, <1>9, <1>10, <1>11, <1>12
     DEF Teardown, RLoop

(* The startup recovery itself.                                            *)
LEMMA RecCleanup ==
  ASSUME IInv, RInv, Cleanup
  PROVE  RInv' /\ RecoversCleanly
<1> USE DEF RInv, ChecksPassed, OriginalInUse, FinishedSoFar, NothingPending,
        ActivateSteps, RecoverySteps, ReconcileSteps, RollBackSteps, FinishSteps,
        JournalSteps
<1> USE DEF RecoversCleanly, Go, Fail, End, control
<1>0. Original # None /\ ns \in Namespaces /\ op \in Locals /\ Home
  BY IdentityAssumption DEF IInv, WorldOK, DiskOK, Steered, ControlOK
<1>1. CASE CBegin
  BY <1>0, <1>1 DEF CBegin, Start, Stay, NoOp
<1>2. CASE CRestoring
  BY <1>0, <1>2 DEF CRestoring, Pending, Home, Stay
<1>3. CASE CJournal
  BY <1>0, <1>3 DEF CJournal, Pending, Journalled, JournalFails, Stay, Namespaces
<1>4. CASE CRetired
  BY <1>0, <1>4 DEF CRetired, Pending, Stay
<1>5. CASE CStranded
  BY <1>0, <1>5 DEF CStranded, Pending, NoTeardown, Moved, Stay, Namespaces
<1>6. CASE CNotStranded
  BY <1>0, <1>6 DEF CNotStranded, NoTeardown, Stay
<1>7. CASE CIntent
  BY <1>0, <1>7 DEF CIntent, CRollBack, CRollBackSchema1, Pending, Restored, Home,
     Locals, RecordOk, RecordFails, Stay, Namespaces
<1>8. CASE CApply
  BY <1>0, <1>8 DEF CApply, Pending, Stay
<1>9. CASE CUnstage
  BY <1>0, <1>9 DEF CUnstage, EraseOk, EraseFails, EraseAndSyncFails, Erased,
     ErasedPartly, Stay, Namespaces
<1>10. CASE CUnapply
  BY <1>0, <1>10 DEF CUnapply, RecordOk, RecordFails, Stay, Namespaces
<1>11. CASE CTidy
  BY <1>0, <1>11 DEF CTidy, Pending, Stay
<1>12. CASE CTidyStaging
  BY <1>0, <1>12 DEF CTidyStaging, CTidyAway, EraseOk, EraseFails, EraseAndSyncFails,
     Erased, ErasedPartly, Stay, Namespaces
<1>13. CASE CTidyOldFarm
  BY <1>0, <1>13 DEF CTidyOldFarm, CTidyAway, EraseOk, EraseFails, EraseAndSyncFails,
     Erased, ErasedPartly, Stay, Namespaces
<1>14. CASE CTidyIntent
  BY <1>0, <1>14 DEF CTidyIntent, RecordOk, RecordFails, Stay, Namespaces
<1>15. CASE CData
  BY <1>0, <1>15 DEF CData, LeftAlone, Pending, Restored, Home, EraseOk, EraseFails,
     EraseAndSyncFails, Erased, ErasedPartly, Stay, Namespaces
<1>16. CASE CRestore
  BY <1>0, <1>16 DEF CRestore, Restored, Moved, Stay, Namespaces, Home
<1> QED BY <1>1, <1>2, <1>3, <1>4, <1>5, <1>6, <1>7, <1>8, <1>9, <1>10, <1>11, <1>12,
     <1>13, <1>14, <1>15, <1>16 DEF Cleanup

(* The restore the user confirmed.                                         *)
LEMMA RecRestore ==
  ASSUME IInv, RInv, Restore
  PROVE  RInv' /\ RecoversCleanly
<1> USE DEF RInv, ChecksPassed, OriginalInUse, FinishedSoFar, NothingPending,
        ActivateSteps, RecoverySteps, ReconcileSteps, RollBackSteps, FinishSteps,
        JournalSteps
<1> USE DEF RecoversCleanly, Go, Fail, End, control
<1>0. Original # None /\ ns \in Namespaces /\ op \in Locals /\ Home
  BY IdentityAssumption DEF IInv, WorldOK, DiskOK, Steered, ControlOK
<1>1. CASE XBegin
  BY <1>0, <1>1 DEF XBegin, XResume, XFirst, XStart, NoOp, disk, Home
<1>2. CASE XCapture
  BY <1>0, <1>2 DEF XCapture, Locals, Captured, CaptureFails, Stay
<1>3. CASE XRecord
  BY <1>0, <1>3 DEF XRecord, Home, RecordOk, RecordFails, Stay, Namespaces
<1>4. CASE XRemove
  BY <1>0, <1>4 DEF XRemove, EraseOk, EraseFails, EraseAndSyncFails, Erased,
     ErasedPartly, Stay, Namespaces
<1>5. CASE XRename
  BY <1>0, <1>5 DEF XRename, MoveOk, MoveFails, Stay, Moved, Namespaces, Home
<1>6. CASE FRetired
  BY <1>0, <1>6 DEF FRetired, EraseOk, EraseFails, EraseAndSyncFails, Erased,
     ErasedPartly, Stay, Namespaces
<1>7. CASE FJournal
  BY <1>0, <1>7 DEF FJournal, FRecord, RecordOk, RecordFails, Stay, Namespaces
<1>8. CASE FStaging
  BY <1>0, <1>8 DEF FStaging, FSibling, EraseOk, EraseFails, EraseAndSyncFails, Erased,
     ErasedPartly, Stay, Namespaces
<1>9. CASE FOldFarm
  BY <1>0, <1>9 DEF FOldFarm, FSibling, EraseOk, EraseFails, EraseAndSyncFails, Erased,
     ErasedPartly, Stay, Namespaces
<1>10. CASE FActivating
  BY <1>0, <1>10 DEF FActivating, FRecord, RecordOk, RecordFails, Stay, Namespaces
<1>11. CASE FApplying
  BY <1>0, <1>11 DEF FApplying, FRecord, RecordOk, RecordFails, Stay, Namespaces
<1>12. CASE FDone
  BY <1>0, <1>12 DEF FDone, Restored, Home, RecordOk, RecordFails, Stay, Namespaces
<1> QED BY <1>1, <1>2, <1>3, <1>4, <1>5, <1>6, <1>7, <1>8, <1>9, <1>10, <1>11, <1>12
     DEF Restore

(* The game, Steam, other programs, a stop and a crash.                    *)
LEMMA RecSurroundings ==
  ASSUME IInv, RInv, Surroundings
  PROVE  RInv' /\ RecoversCleanly
<1> USE DEF RInv, ChecksPassed, OriginalInUse, FinishedSoFar, NothingPending,
        ActivateSteps, RecoverySteps, ReconcileSteps, RollBackSteps, FinishSteps,
        JournalSteps
<1> USE DEF RecoversCleanly, Go, Fail, End, control
<1>0. Original # None /\ ns \in Namespaces /\ op \in Locals /\ Home
  BY IdentityAssumption DEF IInv, WorldOK, DiskOK, Steered, ControlOK
<1>1. CASE GameWrites
  BY <1>0, <1>1 DEF GameWrites, disk
<1>2. CASE ForeignData
  BY <1>0, <1>2 DEF ForeignData, Namespaces
<1>3. CASE SteamChanges
  BY <1>0, <1>3 DEF SteamChanges, disk
<1>4. CASE ClearMaintenance
  BY <1>0, <1>4 DEF ClearMaintenance, disk
<1>5. CASE Stop
  BY <1>0, <1>5 DEF Stop, Down, Stay
<1>6. CASE Crash
  BY <1>0, <1>6 DEF Crash, Down, Stay, ErasedPartly
<1> QED BY <1>1, <1>2, <1>3, <1>4, <1>5, <1>6 DEF Surroundings

(* The daemon starts in no operation.                                      *)
LEMMA RecInit == Init => RInv
BY DEF Init, RInv, ChecksPassed, OriginalInUse, FinishedSoFar, NothingPending,
   ActivateSteps, RecoverySteps, ReconcileSteps, RollBackSteps, FinishSteps, JournalSteps

(* The invariant is inductive, and every step of it is clean.              *)
LEMMA RecNext == IInv /\ RInv /\ [Next]_vars => RInv' /\ RecoversCleanly
<1> SUFFICES ASSUME IInv, RInv, [Next]_vars PROVE RInv' /\ RecoversCleanly
  OBVIOUS
<1>1. CASE UNCHANGED vars
  BY <1>1 DEF vars, RInv, ChecksPassed, OriginalInUse, FinishedSoFar, NothingPending,
     RecoversCleanly
<1>2. CASE Next
  BY <1>2, RecActivate, RecRollBack, RecApply, RecTeardown, RecCleanup, RecRestore,
     RecSurroundings DEF Next
<1> QED BY <1>1, <1>2

(* What recovery counts on when it acts holds in every reachable state.    *)
THEOREM RecoveryChecked == Spec => []RInv
BY InitHolds, NextKeeps, RecInit, RecNext, PTL DEF Spec

(* A recovery that reports neither a pending item nor an error leaves the  *)
(* original in use and nothing of a removal behind, whatever crashed,      *)
(* failed or was left over when it started: CleanRecovery holds of every   *)
(* behaviour.                                                              *)
THEOREM RecoveryIsClean == Spec => CleanRecovery
<1>1. IInv /\ RInv /\ [Next]_vars => [RecoversCleanly]_vars
  BY RecNext
<1> QED BY <1>1, Invariance, RecoveryChecked, PTL DEF Spec, CleanRecovery

(***************************************************************************)
(* Folders of other programs.                                              *)
(*                                                                         *)
(* Another program may create a Data folder while the daemon is down.  An  *)
(* activation that never finished is rolled back by removing Data: what    *)
(* keeps a folder of somebody else is that every record the daemon writes  *)
(* names the folder it made, and every removal looks at that name.  The    *)
(* invariant says that no record and no sibling name is ever a foreign     *)
(* folder's, that a foreign folder at Data always has content (an empty    *)
(* one may be removed), and that a removal of Data is due only where its   *)
(* folder is the daemon's. The exception is the intent of an older         *)
(* version, which names no folder.                                         *)
(***************************************************************************)
(* The intent of an older version: it does not name the folder it made.    *)
SchemaOne == ns.activating # None /\ ns.activating.schema = 1

(* No farm is ever built in a folder of another program.                   *)
ForeignBare == \A x \in Foreign : dir[x].meta = "none"

(* The siblings and the folders that records name are the daemon's own.    *)
OursNotForeign ==
  /\ {ns.staging, ns.oldfarm, ns.retired} \cap Foreign = {}
  /\ Intended => ns.activating.farm \notin Foreign
  /\ ns.journal # None => ns.journal.farm \notin Foreign

(* A foreign folder with files in it, at Data, is one that isForeign sees. *)
StrangersFull == ns.data \in strangers => dir[ns.data].bulk \/ SchemaOne

(* Steps with the daemon's own folder at Data, and with one at staging.    *)
ExchangeSteps == {"p_capture", "p_build", "p_seal", "p_intent", "p_swap", "p_back"}
OwnDataSteps == {"a_record", "a_build", "a_seal", "r_capture", "r_begin", "r_mark_data",
                 "r_retire"} \cup ExchangeSteps
StagedSteps == {"p_seal", "p_intent", "p_swap", "p_back"}

(* Where a step is about to write in Data, exchange it or remove it, the   *)
(* folder there is the daemon's, as the check before it found.             *)
DataIsOurs ==
  /\ pc \in OwnDataSteps => ns.data \notin Foreign \cup {None}
  /\ pc \in StagedSteps => ns.staging # None
  /\ pc = "b_remove" => ns.data # None /\ (ns.data \notin Foreign \/ SchemaOne)

(* An activation's intent is written before its folder, names that folder, *)
(* and is gone when recovery reconciles the farm.                          *)
IntentTold ==
  /\ pc \in ActivationSteps => op.farm \notin Foreign
  /\ pc \in ActivateSteps => Intended
  /\ pc \in ReconcileSteps => ns.activating = None

(* Only the restore the user asked for empties folders it did not make.    *)
Confirmed == pc \in {"x_capture", "x_remove"} => op.name = "restore"

(* The invariant about folders of other programs.                          *)
GInv == Confirmed /\ ForeignBare /\ OursNotForeign /\ StrangersFull /\ DataIsOurs /\ IntentTold

(* A step leaves a foreign folder at Data there, outside that exception.   *)
GuestKept == ns.data \in strangers' => ns'.data = ns.data \/ Unidentified

(* A foreign folder is only ever at Data, so to keep it there is to keep   *)
(* it.                                                                     *)
LEMMA GuestsAtData ==
  ASSUME IInv, IInv', GInv, GuestKept
  PROVE  KeepsStrangers
<1>1. SUFFICES ASSUME NEW x \in strangers' \cap Held(ns), ~Unidentified
               PROVE  x \in Held(ns')
  BY DEF KeepsStrangers
<1>2. x \in Foreign /\ x # None
  BY <1>1, IdentityAssumption DEF IInv, WorldOK, DiskOK
<1>3. PICK p \in Places : x = ns[p]
  BY <1>1 DEF Held
<1>4. ns.orig \notin Foreign
  BY IdentityAssumption DEF IInv, WorldOK, Home
<1>5. p = "data"
  BY <1>2, <1>3, <1>4 DEF GInv, OursNotForeign, Places
<1>6. ns'.data = x
  BY <1>1, <1>3, <1>5 DEF GuestKept
<1> QED BY <1>2, <1>6 DEF Held, Places

(* A capture empties a folder of output, and changes nothing else of it.   *)
LEMMA CaptureEffect ==
  ASSUME WorldOK, NEW p \in Places, NEW opts, NEW marker,
         Captured(p, opts, marker) \/ CaptureFails(p, opts)
  PROVE  /\ ns' = ns /\ strangers' = strangers /\ changed' = changed /\ written' = written
         /\ \A d \in Dirs : /\ dir'[d].meta = dir[d].meta /\ dir'[d].bulk = dir[d].bulk
                            /\ dir'[d].layers = dir[d].layers
<1>1. ASSUME NEW m, Captured(p, opts, m)
      PROVE  /\ ns' = ns /\ strangers' = strangers /\ changed' = changed /\ written' = written
             /\ \A d \in Dirs : /\ dir'[d].meta = dir[d].meta /\ dir'[d].bulk = dir[d].bulk
                                /\ dir'[d].layers = dir[d].layers
  <2>1. CASE Stay
    BY <2>1 DEF Stay, Keep, output
  <2>2. CASE ~(ns[p] = None \/ dir[ns[p]].meta # "full")
    BY <1>1, <2>2 DEF Captured, WorldOK, DiskOK, Content
  <2> QED BY <1>1, <2>1, <2>2 DEF Captured
<1>2. CASE Stay
  BY <1>2 DEF Stay, Keep, output
<1> QED BY <1>1, <1>2 DEF CaptureFails

(* The names and folders a removal changes.                                *)
LEMMA EraseEffect ==
  ASSUME WorldOK, NEW p \in Places,
         EraseOk(p) \/ EraseFails(p) \/ EraseAndSyncFails(p) \/ ErasedPartly(p)
  PROVE  /\ ns' = ns \/ ns' = [ns EXCEPT ![p] = None]
         /\ strangers' \subseteq strangers /\ changed' = changed
         /\ EraseOk(p) => ns'[p] = None
         /\ \A d \in Dirs : d # ns[p] => dir'[d] = dir[d]
         /\ dir' \in [Dirs -> Content]
<1>1. CASE Stay
  BY <1>1 DEF Stay, Keep, WorldOK, DiskOK, EraseOk, Erased, Places, Namespaces
<1>2. CASE ns[p] # None /\ Erased(p)
  BY <1>2, ContentTypes DEF Erased, GivenUp, WorldOK, DiskOK, Places, Namespaces,
     OptDirs
<1>3. CASE ErasedPartly(p)
  BY <1>3, ContentTypes DEF ErasedPartly, GivenUp, WorldOK, DiskOK, Places, Namespaces,
     OptDirs, EraseOk, Erased
<1> QED BY <1>1, <1>2, <1>3 DEF EraseOk, EraseFails, EraseAndSyncFails, Erased

(* The part of the invariant that only system calls disturb.               *)
GuestWorld == ForeignBare /\ OursNotForeign /\ StrangersFull

(* A removal keeps the invariant where Data is not a stranger's, where the *)
(* user confirmed it or where an old intent hides whose it is.             *)
LEMMA GuestErase ==
  ASSUME IInv, GuestWorld, NEW p \in Places \ {"orig"},
         EraseOk(p) \/ EraseFails(p) \/ EraseAndSyncFails(p) \/ ErasedPartly(p),
         p = "data" => ns.data \notin strangers \/ Consented \/ Unidentified
  PROVE  GuestWorld' /\ GuestKept
<1>0. WorldOK /\ ns \in Namespaces /\ dir \in [Dirs -> Content] /\ strangers \subseteq Foreign
      /\ Foreign \subseteq Dirs /\ None \notin Foreign /\ None \notin Dirs
  BY IdentityAssumption DEF IInv, WorldOK, DiskOK, Dirs
<1>1. OursNotForeign'
  <2>1. ns' = ns \/ ns' = [ns EXCEPT ![p] = None]
    BY <1>0, EraseEffect
  <2> QED BY <1>0, <2>1 DEF GuestWorld, OursNotForeign, Intended, Places, Namespaces
<1>2. ForeignBare'
  <2> SUFFICES ASSUME NEW x \in Foreign PROVE dir'[x].meta = "none"
    BY DEF ForeignBare
  <2>1. dir[x].meta = "none" /\ x \in Dirs
    BY <1>0 DEF GuestWorld, ForeignBare
  <2>2. CASE x # ns[p]
    BY <1>0, <2>1, <2>2, EraseEffect
  <2>3. CASE x = ns[p] /\ Stay
    BY <2>1, <2>3 DEF Stay, Keep
  <2>4. CASE x = ns[p] /\ Erased(p) /\ ns[p] # None
    BY <1>0, <2>1, <2>4 DEF Erased, EmptyDir
  <2>5. CASE x = ns[p] /\ ErasedPartly(p)
    <3> PICK r \in Remnants(dir[x]) : dir' = [dir EXCEPT ![x] = r]
      BY <2>5 DEF ErasedPartly
    <3> QED BY <1>0, <2>1 DEF Remnants
  <2> QED BY <2>2, <2>3, <2>4, <2>5 DEF EraseOk, EraseFails, EraseAndSyncFails, Erased
<1>3. CASE p # "data"
  <2>1. ns'.data = ns.data /\ ns'.activating = ns.activating /\ strangers' \subseteq strangers
    BY <1>0, <1>3, EraseEffect DEF Places, Namespaces
  <2>2. ns.data \in strangers => ns.data # ns[p] /\ dir'[ns.data] = dir[ns.data]
    <3>1. ns.data \in strangers => ns.data # ns[p]
      BY <1>0, <1>3 DEF GuestWorld, OursNotForeign, Places
    <3> QED BY <1>0, <3>1, EraseEffect
  <2> QED BY <1>1, <1>2, <2>1, <2>2 DEF GuestWorld, StrangersFull, SchemaOne, GuestKept
<1>4. CASE p = "data"
  <2>1. ns.data \in strangers' => Stay \/ Unidentified
    BY <1>0, <1>4 DEF EraseOk, EraseFails, EraseAndSyncFails, Erased, ErasedPartly,
       GivenUp
  <2>2. CASE Stay
    BY <1>1, <1>2, <2>2 DEF Stay, Keep, GuestWorld, StrangersFull, SchemaOne, GuestKept
  <2>3. CASE ns.data \notin strangers'
    <3>1. ns'.data \in {ns.data, None}
      BY <1>0, <1>4, EraseEffect DEF Places, Namespaces
    <3>2. strangers' \subseteq Foreign
      BY <1>0, EraseEffect
    <3> QED BY <1>0, <1>1, <1>2, <2>3, <3>1, <3>2 DEF GuestWorld, StrangersFull,
         GuestKept
  <2>4. CASE Unidentified
    <3>1. ns'.activating = ns.activating
      BY <1>0, <1>4, EraseEffect DEF Places, Namespaces
    <3> QED BY <1>1, <1>2, <2>4, <3>1 DEF Unidentified, GuestWorld, StrangersFull,
         SchemaOne, GuestKept
  <2> QED BY <2>1, <2>2, <2>3, <2>4
<1> QED BY <1>3, <1>4

(* A call that fails without effect changes nothing.                       *)
LEMMA GuestStay ==
  ASSUME GuestWorld, Stay
  PROVE  GuestWorld' /\ GuestKept /\ ns' = ns
BY DEF Stay, Keep, GuestWorld, ForeignBare, OursNotForeign, StrangersFull, Intended,
   SchemaOne,
   GuestKept

(* No operation, no folder.                                                *)
LEMMA NoOpOurs == NoOp.farm \notin Foreign
BY IdentityAssumption DEF NoOp

(* A capture moves output and nothing else.                                *)
LEMMA GuestCapture ==
  ASSUME IInv, GuestWorld, NEW p \in Places, NEW opts, NEW marker,
         Captured(p, opts, marker) \/ CaptureFails(p, opts)
  PROVE  GuestWorld' /\ GuestKept /\ ns' = ns
<1>1. WorldOK /\ strangers \subseteq Dirs
  BY DEF IInv, WorldOK, DiskOK, Dirs
<1>2. ns' = ns /\ strangers' = strangers
      /\ \A d \in Dirs : dir'[d].meta = dir[d].meta /\ dir'[d].bulk = dir[d].bulk
  BY <1>1, CaptureEffect
<1> QED BY <1>1, <1>2 DEF GuestWorld, ForeignBare, OursNotForeign, StrangersFull,
     Intended, SchemaOne,
   GuestKept, Dirs

(* An activation builds in a folder it has just made.                      *)
LEMMA GuestsActivate ==
  ASSUME IInv, RInv, GInv, Activate
  PROVE  GInv' /\ GuestKept
<1> USE DEF GInv, Confirmed, DataIsOurs, IntentTold, Intended, SchemaOne, OwnDataSteps,
     StagedSteps,
        ExchangeSteps, ActivationSteps, ActivateSteps, ReconcileSteps
<1> USE DEF Go, Fail, End, control
<1>0. /\ Original \notin Foreign \cup {None} /\ Foreign \subseteq Dirs /\ None \notin Dirs
      /\ Farms \cap Foreign = {} /\ None \notin Farms \cup Foreign
      /\ ns \in Namespaces /\ op \in Locals /\ Home /\ dir \in [Dirs -> Content]
      /\ strangers \subseteq Foreign /\ WorldOK /\ GuestWorld
  BY IdentityAssumption DEF IInv, WorldOK, DiskOK, Steered, ControlOK, Dirs, GuestWorld
<1>1. CASE ABegin
  <2>1. ns.data = Original
    BY <1>0, <1>1 DEF ABegin, CanActivate, Home
  <2>2. ActivatingIntent(ns.data, None) # None
    BY <2>1, RecordAssumption DEF ActivatingIntent, Activating, OptDirs, Dirs
  <2>3. GuestWorld' /\ GuestKept
    BY <1>0, <1>1, <2>1, <2>2 DEF ABegin, ActivatingIntent, RecordOk, RecordFails,
       Keep, Namespaces, GuestWorld, ForeignBare, OursNotForeign, StrangersFull,
       GuestKept
  <2>4. \/ pc' = "idle"
        \/ /\ pc' = "a_rename" /\ op'.farm = None
           /\ ns'.activating = ActivatingIntent(ns.data, None)
    BY <1>0, <1>1 DEF ABegin, RecordOk, NoOp, Namespaces
  <2>5. DataIsOurs' /\ IntentTold' /\ Confirmed'
    BY <1>0, <2>2, <2>4 DEF ActivatingIntent
  <2> QED BY <2>3, <2>5 DEF GuestWorld
<1>2. CASE ARename
  BY <1>0, <1>2 DEF ARename, MoveOk, MoveFails, Stay, Keep, Moved, Namespaces, Home,
     GuestWorld, ForeignBare, OursNotForeign, StrangersFull, GuestKept, Content
<1>3. CASE AAbort
  BY <1>0, <1>3 DEF AAbort, RecordOk, RecordFails, Stay, Keep, Namespaces, GuestWorld,
     ForeignBare, OursNotForeign, StrangersFull, GuestKept, Content
<1>4. CASE AMkdir
  <2>1. CASE Made("data", EmptyDir)
    <3>1. PICK d \in Fresh :
            ns' = [ns EXCEPT !.data = d] /\ dir' = [dir EXCEPT ![d] = EmptyDir]
      BY <2>1 DEF Made
    <3>2. d \in Farms /\ d \notin Foreign \cup {None} /\ strangers' = strangers /\ ns.data = None
      BY <1>0, <2>1 DEF Fresh, Made, output
    <3>3. GuestWorld' /\ GuestKept
      BY <1>0, <3>1, <3>2 DEF Namespaces, GuestWorld, ForeignBare, OursNotForeign,
         StrangersFull, GuestKept, EmptyDir, Content
    <3>4. \/ pc' = "a_record" /\ op'.farm = d /\ ns'.data = d
          \/ pc' = "b_check" /\ op' = op
      BY <1>0, <1>4, <2>1, <3>1 DEF AMkdir, MakeOk, Stay, Keep, Namespaces, Locals
    <3>5. DataIsOurs' /\ IntentTold' /\ Confirmed'
      BY <1>0, <1>4, <3>1, <3>2, <3>4 DEF AMkdir, Namespaces
    <3> QED BY <3>3, <3>5 DEF GuestWorld
  <2>2. CASE Stay /\ Go("b_check")
    BY <1>0, <1>4, <2>2 DEF AMkdir, Stay, Keep, Namespaces, GuestWorld, ForeignBare,
       OursNotForeign, StrangersFull, GuestKept
  <2> QED BY <1>4, <2>1, <2>2 DEF AMkdir, MakeOk
<1>5. CASE ARecord
  <2>1. ActivatingIntent(op.orig, op.farm) # None
    BY <1>0, RecordAssumption DEF ActivatingIntent, Activating, Locals
  <2>2. GuestWorld' /\ GuestKept
    BY <1>0, <1>5, <2>1 DEF ARecord, ActivatingIntent, RecordOk, RecordFails, Keep,
       Namespaces, GuestWorld, ForeignBare, OursNotForeign, StrangersFull, GuestKept
  <2>3. DataIsOurs' /\ IntentTold' /\ Confirmed'
    BY <1>0, <1>5, <2>1 DEF ARecord, ActivatingIntent, RecordOk, RecordFails, Keep,
       Namespaces
  <2> QED BY <2>2, <2>3 DEF GuestWorld
<1>6. CASE ABuild
  BY <1>0, <1>6 DEF ABuild, Filled, Stay, Keep, OptDirs, Namespaces, EmptyDir,
     PlainDir, FarmDir, GuestWorld, ForeignBare, OursNotForeign, StrangersFull,
     GuestKept, Content
<1>7. CASE ASeal
  BY <1>0, <1>7 DEF ASeal, Filled, Stay, Keep, OptDirs, Namespaces, EmptyDir, PlainDir,
     FarmDir, GuestWorld, ForeignBare, OursNotForeign, StrangersFull, GuestKept,
     Content
<1>8. CASE AClear
  BY <1>0, <1>8 DEF AClear, RecordOk, RecordFails, Stay, Keep, Namespaces, GuestWorld,
     ForeignBare, OursNotForeign, StrangersFull, GuestKept, Content
<1> QED BY <1>1, <1>2, <1>3, <1>4, <1>5, <1>6, <1>7, <1>8 DEF Activate

(* Its roll-back removes only that folder, unless the intent is an old     *)
(* one.                                                                    *)
LEMMA GuestsRollBack ==
  ASSUME IInv, RInv, GInv, RollBack
  PROVE  GInv' /\ GuestKept
<1> USE DEF GInv, Confirmed, DataIsOurs, IntentTold, Intended, SchemaOne, OwnDataSteps,
     StagedSteps,
        ExchangeSteps, ActivationSteps, ActivateSteps, ReconcileSteps
<1> USE DEF Go, Fail, End, control
<1>0. /\ Original \notin Foreign \cup {None} /\ Foreign \subseteq Dirs /\ None \notin Dirs
      /\ Farms \cap Foreign = {} /\ None \notin Farms \cup Foreign
      /\ ns \in Namespaces /\ op \in Locals /\ Home /\ dir \in [Dirs -> Content]
      /\ strangers \subseteq Foreign /\ WorldOK /\ GuestWorld
  BY IdentityAssumption DEF IInv, WorldOK, DiskOK, Steered, ControlOK, Dirs, GuestWorld
<1>1. CASE BCheck
  BY <1>0, <1>1 DEF BCheck, Stay, Keep, GuestWorld, ForeignBare, OursNotForeign,
     StrangersFull, GuestKept, Content
<1>2. CASE BRemove
  <2>1. GuestWorld' /\ GuestKept
    BY <1>0, <1>2, GuestErase DEF BRemove, Unidentified, Places
  <2>2. DataIsOurs' /\ IntentTold' /\ Confirmed'
    BY <1>0, <1>2, EraseEffect DEF BRemove, Places, Namespaces
  <2> QED BY <2>1, <2>2 DEF GuestWorld
<1>3. CASE BRename
  BY <1>0, <1>3 DEF BRename, MoveOk, MoveFails, Stay, Keep, Moved, Namespaces, Home,
     GuestWorld, ForeignBare, OursNotForeign, StrangersFull, GuestKept, Content
<1>4. CASE BClear
  BY <1>0, <1>4 DEF BClear, Restored, RInv, OriginalInUse, RecordOk, RecordFails, Stay,
     Keep, Namespaces, GuestWorld, ForeignBare, OursNotForeign, StrangersFull,
     GuestKept, Content
<1> QED BY <1>1, <1>2, <1>3, <1>4 DEF RollBack

(* An apply exchanges two folders of the daemon.                           *)
LEMMA GuestsApply ==
  ASSUME IInv, RInv, GInv, MarkDirty \/ Apply
  PROVE  GInv' /\ GuestKept
<1> USE DEF GInv, Confirmed, DataIsOurs, IntentTold, Intended, SchemaOne, OwnDataSteps,
     StagedSteps,
        ExchangeSteps, ActivationSteps, ActivateSteps, ReconcileSteps
<1> USE DEF Go, Fail, End, control
<1>0. /\ Original \notin Foreign \cup {None} /\ Foreign \subseteq Dirs /\ None \notin Dirs
      /\ Farms \cap Foreign = {} /\ None \notin Farms \cup Foreign
      /\ ns \in Namespaces /\ op \in Locals /\ Home /\ dir \in [Dirs -> Content]
      /\ strangers \subseteq Foreign /\ WorldOK /\ GuestWorld
  BY IdentityAssumption DEF IInv, WorldOK, DiskOK, Steered, ControlOK, Dirs, GuestWorld
<1>1. CASE MarkDirty
  BY <1>0, <1>1 DEF MarkDirty, Stay, Keep, GuestWorld, ForeignBare, OursNotForeign,
     StrangersFull, GuestKept, Content
<1>2. CASE PBegin
  BY <1>0, <1>2 DEF PBegin, CanApply, ValidFarm, HasSentinel, Start, Stay, Keep,
     GuestWorld, ForeignBare, OursNotForeign, StrangersFull, GuestKept, Content
<1>3. CASE PCapture
  BY <1>0, <1>3 DEF PCapture, Captured, CaptureFails, Stay, Keep, Namespaces, OptDirs,
     GuestWorld, ForeignBare, OursNotForeign, StrangersFull, GuestKept, Content
<1>4. CASE PBuild
  BY <1>0, <1>4 DEF PBuild, MakeOk, Made, Fresh, Stay, Keep, Namespaces, EmptyDir, PlainDir,
     FarmDir, GuestWorld, ForeignBare, OursNotForeign, StrangersFull, GuestKept,
     Content
<1>5. CASE PSeal
  BY <1>0, <1>5 DEF PSeal, Filled, Stay, Keep, OptDirs, Namespaces, EmptyDir, PlainDir,
     FarmDir, GuestWorld, ForeignBare, OursNotForeign, StrangersFull, GuestKept,
     Content
<1>6. CASE PIntent
  BY <1>0, <1>6 DEF PIntent, RecordOk, RecordFails, Stay, Keep, Namespaces, GuestWorld,
     ForeignBare, OursNotForeign, StrangersFull, GuestKept, Content
<1>7. CASE PUnstage
  <2>1. GuestWorld' /\ GuestKept
    BY <1>0, <1>7, GuestErase DEF PUnstage, Places
  <2>2. DataIsOurs' /\ IntentTold' /\ Confirmed'
    BY <1>0, <1>7, EraseEffect DEF PUnstage, FailUnclean, Places, Namespaces
  <2> QED BY <2>1, <2>2 DEF GuestWorld
<1>8. CASE PSwap
  <2>1. Exchanged.data = ns.staging /\ Exchanged.staging = ns.data
        /\ Exchanged.oldfarm = ns.oldfarm /\ Exchanged.retired = ns.retired
        /\ Exchanged.activating = ns.activating /\ Exchanged.journal = ns.journal
    BY <1>0 DEF Exchanged, Namespaces
  <2>2. (ns' = Exchanged /\ Keep) \/ Stay
    BY <1>8 DEF PSwap
  <2>3. GuestWorld' /\ GuestKept
    BY <1>0, <1>8, <2>1, <2>2, GuestStay DEF PSwap, Keep, GuestWorld, ForeignBare,
       OursNotForeign, StrangersFull, GuestKept
  <2>4. /\ pc' \in {"p_remove", "p_unswap", "p_back", "idle"}
        /\ pc' = "p_back" => ns' = Exchanged
    BY <1>8 DEF PSwap
  <2>5. DataIsOurs' /\ IntentTold' /\ Confirmed'
    BY <1>0, <1>8, <2>1, <2>4 DEF PSwap, OursNotForeign
  <2> QED BY <2>3, <2>5 DEF GuestWorld
<1>9. CASE PBack
  <2>1. Exchanged.data = ns.staging /\ Exchanged.staging = ns.data
        /\ Exchanged.oldfarm = ns.oldfarm /\ Exchanged.retired = ns.retired
        /\ Exchanged.activating = ns.activating /\ Exchanged.journal = ns.journal
    BY <1>0 DEF Exchanged, Namespaces
  <2>2. (ns' = Exchanged /\ Keep) \/ Stay
    BY <1>9 DEF PBack
  <2>3. GuestWorld' /\ GuestKept
    BY <1>0, <1>9, <2>1, <2>2, GuestStay DEF PBack, Keep, GuestWorld, ForeignBare,
       OursNotForeign, StrangersFull, GuestKept
  <2>4. DataIsOurs' /\ IntentTold' /\ Confirmed'
    BY <1>0, <1>9, <2>1, <2>2 DEF PBack, Stay, CommittedUnclean
  <2> QED BY <2>3, <2>4 DEF GuestWorld
<1>10. CASE PUnswap
  <2>1. GuestWorld' /\ GuestKept
    BY <1>0, <1>10, GuestErase DEF PUnswap, Places
  <2>2. DataIsOurs' /\ IntentTold' /\ Confirmed'
    BY <1>0, <1>10, EraseEffect DEF PUnswap, FailUnclean, Places, Namespaces
  <2> QED BY <2>1, <2>2 DEF GuestWorld
<1>11. CASE PUnintent
  BY <1>0, <1>11 DEF PUnintent, FailUnclean, RecordOk, RecordFails, Stay, Keep,
     Namespaces, GuestWorld, ForeignBare, OursNotForeign, StrangersFull, GuestKept,
     Content
<1>12. CASE PRemove
  <2>1. GuestWorld' /\ GuestKept
    BY <1>0, <1>12, GuestErase DEF PRemove, Places
  <2>2. DataIsOurs' /\ IntentTold' /\ Confirmed'
    BY <1>0, <1>12, EraseEffect DEF PRemove, CommittedUnclean, Places, Namespaces
  <2> QED BY <2>1, <2>2 DEF GuestWorld
<1>13. CASE PClear
  BY <1>0, <1>13 DEF PClear, Committed, RecordOk, RecordFails, Stay, Keep, Namespaces,
     GuestWorld, ForeignBare, OursNotForeign, StrangersFull, GuestKept, Content
<1> QED BY <1>1, <1>2, <1>3, <1>4, <1>5, <1>6, <1>7, <1>8, <1>9, <1>10, <1>11, <1>12,
     <1>13 DEF Apply

(* A teardown retires the farm its journal names.                          *)
LEMMA GuestsTeardown ==
  ASSUME IInv, RInv, GInv, Teardown
  PROVE  GInv' /\ GuestKept
<1> USE DEF GInv, Confirmed, DataIsOurs, IntentTold, Intended, SchemaOne, OwnDataSteps,
     StagedSteps,
        ExchangeSteps, ActivationSteps, ActivateSteps, ReconcileSteps
<1> USE DEF Go, Fail, End, control
<1>0. /\ Original \notin Foreign \cup {None} /\ Foreign \subseteq Dirs /\ None \notin Dirs
      /\ Farms \cap Foreign = {} /\ None \notin Farms \cup Foreign
      /\ ns \in Namespaces /\ op \in Locals /\ Home /\ dir \in [Dirs -> Content]
      /\ strangers \subseteq Foreign /\ WorldOK /\ GuestWorld
  BY IdentityAssumption DEF IInv, WorldOK, DiskOK, Steered, ControlOK, Dirs, GuestWorld
<1>1. CASE DBegin
  BY <1>0, <1>1 DEF DBegin, ValidFarm, HasSentinel, Start, Stay, Keep, NoOp,
     GuestWorld, ForeignBare, OursNotForeign, StrangersFull, GuestKept, Content
<1>2. CASE RCapture
  BY <1>0, <1>2 DEF RCapture, Pending, Captured, CaptureFails, Stay, Keep, Namespaces,
     OptDirs, GuestWorld, ForeignBare, OursNotForeign, StrangersFull, GuestKept,
     Content
<1>3. CASE RBegin
  BY <1>0, <1>3 DEF RBegin, NewJournal, Journalled, JournalFails, Stay, Keep,
     Namespaces, GuestWorld, ForeignBare, OursNotForeign, StrangersFull, GuestKept,
     Content
<1>4. CASE RLive
  <2>1. ns.journal # None /\ ns.journal \in Journals
    BY <1>0, <1>4 DEF RLive, IInv, Steered, TeardownRecorded, JournalSteps, Namespaces
  <2>2. ns.data \notin Foreign \cup {None}
    BY <1>0, <1>4, <2>1 DEF RLive, FarmIsLive, GuestWorld, OursNotForeign, Journals
  <2>3. GuestWorld' /\ GuestKept /\ ns' = ns
    BY <1>0, <1>4, GuestCapture, GuestStay DEF RLive, RecordedCapture, Places
  <2>4. DataIsOurs' /\ IntentTold' /\ Confirmed'
    BY <1>0, <1>4, <2>2, <2>3 DEF RLive, RecordedCapture, CaptureRefused, Pending
  <2> QED BY <2>3, <2>4 DEF GuestWorld
<1>5. CASE RRestore
  BY <1>0, <1>5 DEF RRestore, MoveOk, MoveFails, Stay, Keep, Moved, Namespaces, Home,
     GuestWorld, ForeignBare, OursNotForeign, StrangersFull, GuestKept, Content
<1>6. CASE RRetired
  BY <1>0, <1>6 DEF RRetired, RecordedCapture, CaptureRefused, Pending, Captured,
     CaptureFails, Stay, Keep, Namespaces, OptDirs, GuestWorld, ForeignBare,
     OursNotForeign, StrangersFull, GuestKept, Content
<1>7. CASE RFinish
  BY <1>0, <1>7 DEF RFinish, Restored, RecordOk, RecordFails, Stay, Keep, Namespaces,
     GuestWorld, ForeignBare, OursNotForeign, StrangersFull, GuestKept, Content
<1>8. CASE RMismatch
  BY <1>0, <1>8 DEF RMismatch, Pending, Stay, Keep, GuestWorld, ForeignBare,
     OursNotForeign, StrangersFull, GuestKept, Content
<1>9. CASE RMarkData
  <2> DEFINE j == [ns.journal EXCEPT !["dataCaptured"] = TRUE]
  <2>1. ns.journal # None /\ ns.journal \in Journals
    BY <1>0, <1>9 DEF RMarkData, RMark, IInv, Steered, TeardownRecorded, JournalSteps,
       Namespaces
  <2>2. j.farm = ns.journal.farm
    BY <2>1 DEF Journals
  <2>3. Stay \/ Journalled(j, FALSE)
    BY <1>9 DEF RMarkData, RMark, JournalFails
  <2>4. (ns' = ns \/ ns' = [ns EXCEPT !.journal = j]) /\ dir' = dir /\ strangers' = strangers
    BY <2>3 DEF Stay, Keep, Journalled
  <2>5. GuestWorld' /\ GuestKept
    BY <1>0, <2>1, <2>2, <2>4 DEF Namespaces, GuestWorld, ForeignBare, OursNotForeign,
       StrangersFull, GuestKept
  <2>6. DataIsOurs' /\ IntentTold' /\ Confirmed'
    BY <1>0, <1>9, <2>4 DEF RMarkData, RMark, Namespaces
  <2> QED BY <2>5, <2>6 DEF GuestWorld
<1>10. CASE RMarkRetired
  <2> DEFINE j == [ns.journal EXCEPT !["retiredCaptured"] = TRUE]
  <2>1. ns.journal # None /\ ns.journal \in Journals
    BY <1>0, <1>10 DEF RMarkRetired, RMark, IInv, Steered, TeardownRecorded,
       JournalSteps, Namespaces
  <2>2. j.farm = ns.journal.farm
    BY <2>1 DEF Journals
  <2>3. Stay \/ Journalled(j, FALSE)
    BY <1>10 DEF RMarkRetired, RMark, JournalFails
  <2>4. (ns' = ns \/ ns' = [ns EXCEPT !.journal = j]) /\ dir' = dir /\ strangers' = strangers
    BY <2>3 DEF Stay, Keep, Journalled
  <2>5. GuestWorld' /\ GuestKept
    BY <1>0, <2>1, <2>2, <2>4 DEF Namespaces, GuestWorld, ForeignBare, OursNotForeign,
       StrangersFull, GuestKept
  <2>6. DataIsOurs' /\ IntentTold' /\ Confirmed'
    BY <1>0, <1>10, <2>4 DEF RMarkRetired, RMark, Namespaces
  <2> QED BY <2>5, <2>6 DEF GuestWorld
<1>11. CASE RRetire
  BY <1>0, <1>11 DEF RRetire, MoveOk, MoveFails, Stay, Keep, Moved, Namespaces, Home,
     GuestWorld, ForeignBare, OursNotForeign, StrangersFull, GuestKept, Content
<1>12. CASE RDrop
  <2>1. GuestWorld' /\ GuestKept
    BY <1>0, <1>12, GuestErase DEF RDrop, Places
  <2>2. DataIsOurs' /\ IntentTold' /\ Confirmed'
    BY <1>0, <1>12, EraseEffect DEF RDrop, Places, Namespaces
  <2> QED BY <2>1, <2>2 DEF GuestWorld
<1> QED BY <1>1, <1>2, <1>3, <1>4, <1>5, <1>6, <1>7, <1>8, <1>9, <1>10, <1>11, <1>12
     DEF Teardown, RLoop

(* Recovery keeps a foreign folder and reports it.                         *)
LEMMA GuestsCleanup ==
  ASSUME IInv, RInv, GInv, Cleanup
  PROVE  GInv' /\ GuestKept
<1> USE DEF GInv, Confirmed, DataIsOurs, IntentTold, Intended, SchemaOne, OwnDataSteps,
     StagedSteps,
        ExchangeSteps, ActivationSteps, ActivateSteps, ReconcileSteps
<1> USE DEF Go, Fail, End, control
<1>0. /\ Original \notin Foreign \cup {None} /\ Foreign \subseteq Dirs /\ None \notin Dirs
      /\ Farms \cap Foreign = {} /\ None \notin Farms \cup Foreign
      /\ ns \in Namespaces /\ op \in Locals /\ Home /\ dir \in [Dirs -> Content]
      /\ strangers \subseteq Foreign /\ WorldOK /\ GuestWorld
  BY IdentityAssumption DEF IInv, WorldOK, DiskOK, Steered, ControlOK, Dirs, GuestWorld
<1>1. CASE CBegin
  BY <1>0, <1>1 DEF CBegin, Start, Stay, Keep, NoOp, GuestWorld, ForeignBare,
     OursNotForeign, StrangersFull, GuestKept, Content
<1>2. CASE CRestoring
  BY <1>0, <1>2 DEF CRestoring, Pending, Stay, Keep, GuestWorld, ForeignBare,
     OursNotForeign, StrangersFull, GuestKept, Content
<1>3. CASE CJournal
  BY <1>0, <1>3 DEF CJournal, NewJournal, Pending, Journalled, JournalFails, Stay,
     Keep, Namespaces, GuestWorld, ForeignBare, OursNotForeign, StrangersFull,
     GuestKept, Content
<1>4. CASE CRetired
  BY <1>0, <1>4 DEF CRetired, Pending, Stay, Keep, GuestWorld, ForeignBare,
     OursNotForeign, StrangersFull, GuestKept, Content
<1>5. CASE CStranded
  BY <1>0, <1>5 DEF CStranded, Pending, ValidFarm, HasSentinel, Moved, Stay, Keep,
     Namespaces, GuestWorld, ForeignBare, OursNotForeign, StrangersFull, GuestKept,
     Content
<1>6. CASE CNotStranded
  BY <1>0, <1>6 DEF CNotStranded, Stay, Keep, GuestWorld, ForeignBare, OursNotForeign,
     StrangersFull, GuestKept, Content
<1>7. CASE CIntent
  <2>1. /\ ns.activating # None => SchemaOne \/ Intended
        /\ DataIsFarm => ns.data \notin Foreign \cup {None}
        /\ ns.orig = None => ns.data = Original
    BY <1>0 DEF DataIsFarm, ValidFarm, HasSentinel, GuestWorld, ForeignBare, Home,
       Namespaces,
       Activating
  <2>2. ASSUME RecordOk("activating", None) \/ RecordFails("activating", None),
               pc' \in {"idle", "c_apply"}, pc' = "c_apply" => RecordOk("activating", None),
               ns.data \notin Foreign \/ ~SchemaOne
        PROVE  GInv' /\ GuestKept
    <3>1. dir' = dir /\ strangers' = strangers
      BY <2>2 DEF RecordOk, RecordFails, Keep
    <3>2. /\ ns'.data = ns.data /\ ns'.staging = ns.staging /\ ns'.oldfarm = ns.oldfarm
          /\ ns'.retired = ns.retired /\ ns'.journal = ns.journal
          /\ ns'.activating = None \/ (ns' = ns /\ pc' = "idle")
      BY <1>0, <2>2 DEF RecordOk, RecordFails, Namespaces
    <3>3. GuestWorld' /\ GuestKept
      BY <1>0, <2>2, <3>1, <3>2 DEF GuestWorld, ForeignBare, OursNotForeign,
         StrangersFull, GuestKept
    <3>4. DataIsOurs' /\ IntentTold' /\ Confirmed'
      BY <2>2, <3>2
    <3> QED BY <3>3, <3>4 DEF GuestWorld
  <2>3. ASSUME Stay, op' = op \/ op'.farm \notin Foreign,
               \/ pc' \in {"idle", "b_rename", "b_check"}
               \/ pc' = "c_apply" /\ ns.activating = None
               \/ pc' = "b_remove" /\ ns.data # None /\ SchemaOne,
               pc' = "b_check" => op'.farm \notin Foreign
        PROVE  GInv' /\ GuestKept
    <3>1. GuestWorld' /\ GuestKept /\ ns' = ns
      BY <1>0, <2>3, GuestStay
    <3>2. DataIsOurs' /\ IntentTold' /\ Confirmed'
      BY <2>3, <3>1
    <3> QED BY <3>1, <3>2 DEF GuestWorld
  <2> HIDE DEF GInv, DataIsOurs, IntentTold, Confirmed
  <2>4. CASE ns.activating = None
    BY <1>7, <2>3, <2>4 DEF CIntent
  <2>5. CASE ns.activating # None /\ DataIsFarm
    BY <1>7, <2>1, <2>2, <2>5 DEF CIntent
  <2>6. CASE Intended /\ ~DataIsFarm
    <3>1. CRollBack
      BY <1>7, <2>6 DEF CIntent
    <3>2. ns.activating.farm \notin Foreign
      BY <1>0, <2>6 DEF GuestWorld, OursNotForeign
    <3>3. CASE \/ RecordOk("activating", None) /\ Restored
               \/ RecordFails("activating", None) /\ Fail
      BY <2>2, <2>6, <3>3 DEF Restored
    <3>4. CASE Stay /\ Ok /\ Pending
      BY <2>3, <3>4, NoOpOurs DEF Pending
    <3>5. CASE /\ Stay /\ Ok
               /\ pc' = "b_check"
               /\ op' = [op EXCEPT !.orig = ns.activating.original,
                                   !.farm = ns.activating.farm]
               /\ UNCHANGED <<mgr, outcome>>
      <4>1. op'.farm = ns.activating.farm
        BY <1>0, <3>5 DEF Locals
      <4> QED BY <2>3, <3>2, <3>5, <4>1
    <3> QED BY <3>1, <3>3, <3>4, <3>5 DEF CRollBack
  <2>7. CASE SchemaOne /\ ~DataIsFarm
    <3>1. CRollBackSchema1
      BY <1>7, <2>7 DEF CIntent
    <3>2. CASE \/ RecordOk("activating", None) /\ Restored
               \/ RecordFails("activating", None) /\ Fail
      BY <1>0, <2>1, <2>2, <3>1, <3>2 DEF CRollBackSchema1, Restored
    <3>3. CASE Stay /\ Ok /\ Go(IF ns.data = None THEN "b_rename" ELSE "b_remove")
      BY <2>3, <2>7, <3>3
    <3> QED BY <3>1, <3>2, <3>3 DEF CRollBackSchema1
  <2> QED BY <2>1, <2>4, <2>5, <2>6, <2>7
<1>8. CASE CApply
  BY <1>0, <1>8 DEF CApply, Pending, Stay, Keep, GuestWorld, ForeignBare,
     OursNotForeign, StrangersFull, GuestKept, Content
<1>9. CASE CUnstage
  <2>1. GuestWorld' /\ GuestKept
    BY <1>0, <1>9, GuestErase DEF CUnstage, Places
  <2>2. DataIsOurs' /\ IntentTold' /\ Confirmed'
    BY <1>0, <1>9, EraseEffect DEF CUnstage, Places, Namespaces
  <2> QED BY <2>1, <2>2 DEF GuestWorld
<1>10. CASE CUnapply
  BY <1>0, <1>10 DEF CUnapply, RecordOk, RecordFails, Stay, Keep, Namespaces,
     GuestWorld, ForeignBare, OursNotForeign, StrangersFull, GuestKept, Content
<1>11. CASE CTidy
  BY <1>0, <1>11 DEF CTidy, Pending, Stay, Keep, GuestWorld, ForeignBare,
     OursNotForeign, StrangersFull, GuestKept, Content
<1>12. CASE CTidyStaging
  <2>1. GuestWorld' /\ GuestKept
    BY <1>0, <1>12, GuestErase DEF CTidyStaging, CTidyAway, Places
  <2>2. DataIsOurs' /\ IntentTold' /\ Confirmed'
    BY <1>0, <1>12, EraseEffect DEF CTidyStaging, CTidyAway, Places, Namespaces
  <2> QED BY <2>1, <2>2 DEF GuestWorld
<1>13. CASE CTidyOldFarm
  <2>1. GuestWorld' /\ GuestKept
    BY <1>0, <1>13, GuestErase DEF CTidyOldFarm, CTidyAway, Places
  <2>2. DataIsOurs' /\ IntentTold' /\ Confirmed'
    BY <1>0, <1>13, EraseEffect DEF CTidyOldFarm, CTidyAway, Places, Namespaces
  <2> QED BY <2>1, <2>2 DEF GuestWorld
<1>14. CASE CTidyIntent
  BY <1>0, <1>14 DEF CTidyIntent, RecordOk, RecordFails, Stay, Keep, Namespaces,
     GuestWorld, ForeignBare, OursNotForeign, StrangersFull, GuestKept, Content
<1>15. CASE CData
  BY <1>0, <1>15 DEF CData, LeftAlone, Pending, Restored, Home, DataIsFarm, ValidFarm,
     HasSentinel, IsEmptyDir, EraseOk, EraseFails, EraseAndSyncFails, Erased,
     ErasedPartly, Stay, Keep, Namespaces, OptDirs, GivenUp, Consented, EmptyDir,
     Remnants, Unidentified, GuestWorld, ForeignBare, OursNotForeign, StrangersFull,
     GuestKept, Content
<1>16. CASE CRestore
  BY <1>0, <1>16 DEF CRestore, Restored, Moved, Stay, Keep, Namespaces, Home,
     GuestWorld, ForeignBare, OursNotForeign, StrangersFull, GuestKept, Content
<1> QED BY <1>1, <1>2, <1>3, <1>4, <1>5, <1>6, <1>7, <1>8, <1>9, <1>10, <1>11, <1>12,
     <1>13, <1>14, <1>15, <1>16 DEF Cleanup

(* A restore removes one only in the steps the user confirmed.             *)
LEMMA GuestsRestore ==
  ASSUME IInv, RInv, GInv, Restore
  PROVE  GInv' /\ GuestKept
<1> USE DEF GInv, Confirmed, DataIsOurs, IntentTold, Intended, SchemaOne, OwnDataSteps,
     StagedSteps,
        ExchangeSteps, ActivationSteps, ActivateSteps, ReconcileSteps
<1> USE DEF Go, Fail, End, control
<1>0. /\ Original \notin Foreign \cup {None} /\ Foreign \subseteq Dirs /\ None \notin Dirs
      /\ Farms \cap Foreign = {} /\ None \notin Farms \cup Foreign
      /\ ns \in Namespaces /\ op \in Locals /\ Home /\ dir \in [Dirs -> Content]
      /\ strangers \subseteq Foreign /\ WorldOK /\ GuestWorld
  BY IdentityAssumption DEF IInv, WorldOK, DiskOK, Steered, ControlOK, Dirs, GuestWorld
<1>1. CASE XBegin
  BY <1>0, <1>1 DEF XBegin, XResume, XFirst, XStart, NoOp, disk, GuestWorld,
     ForeignBare, OursNotForeign, StrangersFull, GuestKept, Content
<1>2. CASE XCapture
  <2>1. Head(op.todo) \in Places
    BY <1>0, <1>2 DEF XCapture, Locals
  <2>2. GuestWorld' /\ GuestKept /\ ns' = ns
    BY <1>0, <1>2, <2>1, GuestCapture, GuestStay DEF XCapture
  <2>3. DataIsOurs' /\ IntentTold' /\ Confirmed'
    BY <1>0, <1>2, <2>2 DEF XCapture, Locals
  <2> QED BY <2>2, <2>3 DEF GuestWorld
<1>3. CASE XRecord
  BY <1>0, <1>3 DEF XRecord, RecordOk, RecordFails, Stay, Keep, Namespaces, GuestWorld,
     ForeignBare, OursNotForeign, StrangersFull, GuestKept, Content
<1>4. CASE XRemove
  <2>1. Consented
    BY <1>4 DEF XRemove, Consented
  <2>2. GuestWorld' /\ GuestKept
    BY <1>0, <1>4, <2>1, GuestErase, GuestStay DEF XRemove, Places
  <2>3. DataIsOurs' /\ IntentTold' /\ Confirmed'
    BY <1>0, <1>4 DEF XRemove
  <2> QED BY <2>2, <2>3 DEF GuestWorld
<1>5. CASE XRename
  BY <1>0, <1>5 DEF XRename, MoveOk, MoveFails, Stay, Keep, Moved, Namespaces, Home,
     GuestWorld, ForeignBare, OursNotForeign, StrangersFull, GuestKept, Content
<1>6. CASE FRetired
  <2>1. GuestWorld' /\ GuestKept
    BY <1>0, <1>6, GuestErase DEF FRetired, Places
  <2>2. DataIsOurs' /\ IntentTold' /\ Confirmed'
    BY <1>0, <1>6, EraseEffect DEF FRetired, Places, Namespaces
  <2> QED BY <2>1, <2>2 DEF GuestWorld
<1>7. CASE FJournal
  BY <1>0, <1>7 DEF FJournal, FRecord, RecordOk, RecordFails, Stay, Keep, Namespaces,
     GuestWorld, ForeignBare, OursNotForeign, StrangersFull, GuestKept, Content
<1>8. CASE FStaging
  <2>1. GuestWorld' /\ GuestKept
    BY <1>0, <1>8, GuestErase DEF FStaging, FSibling, Places
  <2>2. DataIsOurs' /\ IntentTold' /\ Confirmed'
    BY <1>0, <1>8, EraseEffect DEF FStaging, FSibling, Places, Namespaces
  <2> QED BY <2>1, <2>2 DEF GuestWorld
<1>9. CASE FOldFarm
  <2>1. GuestWorld' /\ GuestKept
    BY <1>0, <1>9, GuestErase DEF FOldFarm, FSibling, Places
  <2>2. DataIsOurs' /\ IntentTold' /\ Confirmed'
    BY <1>0, <1>9, EraseEffect DEF FOldFarm, FSibling, Places, Namespaces
  <2> QED BY <2>1, <2>2 DEF GuestWorld
<1>10. CASE FActivating
  BY <1>0, <1>10 DEF FActivating, RInv, OriginalInUse, FinishSteps, FRecord, RecordOk,
     RecordFails, Stay, Keep, Namespaces, GuestWorld, ForeignBare, OursNotForeign,
     StrangersFull, GuestKept, Content
<1>11. CASE FApplying
  BY <1>0, <1>11 DEF FApplying, FRecord, RecordOk, RecordFails, Stay, Keep, Namespaces,
     GuestWorld, ForeignBare, OursNotForeign, StrangersFull, GuestKept, Content
<1>12. CASE FDone
  BY <1>0, <1>12 DEF FDone, Restored, RecordOk, RecordFails, Stay, Keep, Namespaces,
     GuestWorld, ForeignBare, OursNotForeign, StrangersFull, GuestKept, Content
<1> QED BY <1>1, <1>2, <1>3, <1>4, <1>5, <1>6, <1>7, <1>8, <1>9, <1>10, <1>11, <1>12
     DEF Restore

(* Another program fills a folder no record mentions.                      *)
LEMMA GuestsSurroundings ==
  ASSUME IInv, RInv, GInv, Surroundings
  PROVE  GInv' /\ GuestKept
<1> USE DEF GInv, Confirmed, DataIsOurs, IntentTold, Intended, SchemaOne, OwnDataSteps,
     StagedSteps,
        ExchangeSteps, ActivationSteps, ActivateSteps, ReconcileSteps
<1> USE DEF Go, Fail, End, control
<1>0. /\ Original \notin Foreign \cup {None} /\ Foreign \subseteq Dirs /\ None \notin Dirs
      /\ Farms \cap Foreign = {} /\ None \notin Farms \cup Foreign
      /\ ns \in Namespaces /\ op \in Locals /\ Home /\ dir \in [Dirs -> Content]
      /\ strangers \subseteq Foreign /\ WorldOK /\ GuestWorld
  BY IdentityAssumption DEF IInv, WorldOK, DiskOK, Steered, ControlOK, Dirs, GuestWorld
<1>1. CASE GameWrites
  BY <1>0, <1>1 DEF GameWrites, disk, Namespaces, OptDirs, GuestWorld, ForeignBare,
     OursNotForeign, StrangersFull, GuestKept, Content
<1>2. CASE ForeignData
  BY <1>0, <1>2 DEF ForeignData, EmptyDir, PlainDir, Mentioned, Namespaces, GuestWorld,
     ForeignBare, OursNotForeign, StrangersFull, GuestKept, Content
<1>3. CASE SteamChanges
  BY <1>0, <1>3 DEF SteamChanges, disk, GuestWorld, ForeignBare, OursNotForeign,
     StrangersFull, GuestKept, Content
<1>4. CASE ClearMaintenance
  BY <1>0, <1>4 DEF ClearMaintenance, disk, GuestWorld, ForeignBare, OursNotForeign,
     StrangersFull, GuestKept, Content
<1>5. CASE Stop
  BY <1>0, <1>5 DEF Stop, Down, Stay, Keep, GuestWorld, ForeignBare, OursNotForeign,
     StrangersFull, GuestKept, Content
<1>6. CASE Crash
  <2>1. ASSUME NEW p \in DOMAIN Removing, pc \in Removing[p], ErasedPartly(p)
        PROVE  GuestWorld' /\ GuestKept
    <3>1. p \in Places \ {"orig"}
      BY DEF Removing, Places
    <3>2. p = "data" => ns.data \notin strangers \/ Consented \/ Unidentified
      BY <1>0, <2>1 DEF Removing, Consented, Unidentified
    <3> QED BY <1>0, <2>1, <3>1, <3>2, GuestErase
  <2>2. GuestWorld' /\ GuestKept
    BY <1>0, <1>6, <2>1, GuestStay DEF Crash
  <2>3. DataIsOurs' /\ IntentTold' /\ Confirmed'
    BY <1>6 DEF Crash, Down
  <2> QED BY <2>2, <2>3 DEF GuestWorld
<1> QED BY <1>1, <1>2, <1>3, <1>4, <1>5, <1>6 DEF Surroundings

(* Neither a pristine install nor one of an older version has one yet.     *)
LEMMA GuestsInit == Init => GInv
<1> SUFFICES ASSUME Init PROVE GInv
  OBVIOUS
<1>1. ForeignBare
  <2> SUFFICES ASSUME NEW x \in Foreign PROVE dir[x].meta = "none"
    BY DEF ForeignBare
  <2>1. x \in Dirs /\ x # Original /\ x \notin Farms
    BY IdentityAssumption DEF Dirs
  <2>2. ASSUME NEW S \in SUBSET Farms, NEW l PROVE Farmed(S, l)[x] = EmptyDir
    BY <2>1 DEF Farmed
  <2>3. dir[x] = EmptyDir
    <3>1. CASE dir = [d \in Dirs |-> IF d = Original THEN PlainDir ELSE EmptyDir]
      BY <2>1, <3>1
    <3>2. ASSUME NEW f \in Farms, NEW g \in Farms, NEW l,
                 dir \in {Farmed({f, g}, l), Farmed({f}, l), Farmed({}, l),
                          [Farmed({}, l) EXCEPT ![f] = PlainDir]}
          PROVE  dir[x] = EmptyDir
      <4>1. x # f /\ {f, g} \in SUBSET Farms /\ {f} \in SUBSET Farms /\ {} \in SUBSET Farms
        BY <2>1
      <4>2. Farmed({}, l) = [d \in Dirs |-> Farmed({}, l)[d]]
        BY DEF Farmed
      <4> QED BY <2>1, <2>2, <3>2, <4>1, <4>2
    <3>3. CASE /\ ns = PristineNamespace
               /\ dir = [d \in Dirs |-> IF d = Original THEN PlainDir ELSE EmptyDir]
      BY <3>1, <3>3
    <3>4. CASE ~ /\ ns = PristineNamespace
                 /\ dir = [d \in Dirs |-> IF d = Original THEN PlainDir ELSE EmptyDir]
      <4>1. PICK f \in Farms, g \in Farms, l \in Layers :
              dir \in IF ns.applying # None THEN {Farmed({f, g}, l)}
                      ELSE IF ns.activating # None
                      THEN {Farmed({f, g}, l), [Farmed({}, l) EXCEPT ![f] = PlainDir]}
                      ELSE IF ns.retired # None THEN {Farmed({f}, l)}
                      ELSE {Farmed({}, l)}
        BY <3>4, ZenonT(30) DEF Init, InitDisk
      <4>2. dir \in {Farmed({f, g}, l), Farmed({f}, l), Farmed({}, l),
                     [Farmed({}, l) EXCEPT ![f] = PlainDir]}
        BY <4>1
      <4> QED BY <3>2, <4>2
    <3> QED BY <3>3, <3>4
  <2> QED BY <2>3 DEF EmptyDir
<1> DEFINE Fine(n) == /\ {n.staging, n.oldfarm, n.retired} \cap Foreign = {}
                      /\ n.activating \in {None, Schema1Intent} /\ n.journal = None
<1>2. Fine(ns)
  <2>1. CASE ns = PristineNamespace
    BY <2>1, IdentityAssumption DEF PristineNamespace
  <2>2. ASSUME NEW f \in Farms, NEW g \in Farms, ns \in InheritedStates(f, g)
        PROVE  Fine(ns)
    <3> DEFINE P == PristineNamespace
               backed == [P EXCEPT !.orig = Original, !.data = None]
               activating == [backed EXCEPT !.activating = Schema1Intent]
               applying == [backed EXCEPT !.applying = Schema1Apply]
    <3>1. Fine(P)
      BY IdentityAssumption DEF PristineNamespace
    <3>2. Fine(backed)
      BY IdentityAssumption DEF PristineNamespace
    <3>3. ASSUME NEW n, Fine(n), NEW d \in {f, g}
          PROVE  /\ Fine([n EXCEPT !.data = d]) /\ Fine([n EXCEPT !.staging = d])
                 /\ Fine([n EXCEPT !.oldfarm = d]) /\ Fine([n EXCEPT !.retired = d])
                 /\ Fine([n EXCEPT !.activating = Schema1Intent])
                 /\ Fine([n EXCEPT !.applying = Schema1Apply])
      BY <3>3, IdentityAssumption
    <3>4. ns \in {[P EXCEPT !.activating = Schema1Intent], activating,
                  [activating EXCEPT !.data = f],
                  [[applying EXCEPT !.data = f] EXCEPT !.staging = g],
                  [[applying EXCEPT !.oldfarm = f] EXCEPT !.staging = g],
                  [[applying EXCEPT !.oldfarm = f] EXCEPT !.data = g],
                  backed, [backed EXCEPT !.data = f], [backed EXCEPT !.retired = f],
                  [P EXCEPT !.retired = f]}
      BY <2>2 DEF InheritedStates
    <3> HIDE DEF Fine, P, backed
    <3>5. Fine(activating) /\ Fine(applying)
      BY <3>2, <3>3
    <3> HIDE DEF activating, applying
    <3> QED BY <3>1, <3>2, <3>3, <3>4, <3>5
  <2>3. CASE ns # PristineNamespace
    <3>1. PICK f \in Farms, g \in Farms : ns \in InheritedStates(f, g)
      BY <2>3 DEF Init, InitDisk
    <3> QED BY <2>2, <3>1
  <2> QED BY <2>1, <2>3
<1>3. OursNotForeign /\ StrangersFull
  BY <1>2 DEF Init, OursNotForeign, StrangersFull, Intended, Schema1Intent
<1>4. DataIsOurs /\ IntentTold /\ Confirmed
  BY DEF Init, DataIsOurs, IntentTold, Confirmed, OwnDataSteps, StagedSteps,
     ExchangeSteps,
     ActivationSteps, ActivateSteps, ReconcileSteps
<1> QED BY <1>1, <1>3, <1>4 DEF GInv

(* The invariant is inductive, and every step keeps the folder at Data.    *)
LEMMA GuestsNext == IInv /\ RInv /\ GInv /\ [Next]_vars => GInv' /\ GuestKept
<1> SUFFICES ASSUME IInv, RInv, GInv, [Next]_vars PROVE GInv' /\ GuestKept
  OBVIOUS
<1>1. CASE UNCHANGED vars
  BY <1>1 DEF vars, GInv, ForeignBare, OursNotForeign, StrangersFull, DataIsOurs,
     IntentTold,
     Confirmed, Intended, SchemaOne, GuestKept
<1>2. CASE Next
  BY <1>2, GuestsActivate, GuestsRollBack, GuestsApply, GuestsTeardown, GuestsCleanup,
     GuestsRestore, GuestsSurroundings DEF Next
<1> QED BY <1>1, <1>2

(* No record, sibling or disposal ever names a foreign folder, in any      *)
(* reachable state.                                                        *)
THEOREM GuestsKnown == Spec => []GInv
BY InitHolds, NextKeeps, RecInit, RecNext, GuestsInit, GuestsNext, PTL DEF Spec

(* A Data folder that another program filled is never removed but by a     *)
(* restore the user confirmed, or by the roll-back of an activation an     *)
(* older version began: StrangersSafe holds of every behaviour.            *)
THEOREM StrangersAreSafe == Spec => StrangersSafe
<1>1. IInv /\ RInv /\ GInv /\ [Next]_vars /\ IInv' => [KeepsStrangers]_vars
  BY GuestsNext, GuestsAtData
<1> QED BY <1>1, Invariance, RecoveryChecked, GuestsKnown, PTL DEF Spec, StrangersSafe
===============================================================================
