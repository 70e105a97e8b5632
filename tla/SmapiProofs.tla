----------------------------- MODULE SmapiProofs -----------------------------
(***************************************************************************)
(* Proofs about SmapiTxn, for every set of paths, versions and files and   *)
(* any number of operations, failures and changes by others.               *)
(*                                                                         *)
(* The invariant ties each step to its side of the commit point (StepsFit) *)
(* and says where a target may be while an intent is on disk (TargetsFit): *)
(* as the operation found it, moved away, or placed - and, unless somebody *)
(* interfered, the identities in the intent tell which.  So a roll-back    *)
(* finds everything, and the change is atomic (AtomicChange).              *)
(***************************************************************************)
EXTENDS SmapiTxn, TLAPS

Targets == Named(intent.place) \cup intent.remove
Committed == intent # None /\ intentCommitted
Forward == {"save", "backup", "place"}
Back == {"restore", "unsave"}

\* Each step has its phase of the intent, and its side of the commit point.
StepsFit ==
  /\ intent = None => op.step \in {"idle", "plan", "cleanup", "undone"}
  /\ intent # None => op.step \in {"idle", "commit", "drop"} \cup Forward \cup Back
  /\ op.step = "plan" => op.memory # None /\ ops < MaxOps
  /\ intent # None /\ intent.kind = "install" /\ op.step \in Forward => op.memory # None
  /\ op.step \in {"save", "backup"} => intent.phase = "backing_up"
  /\ op.step = "place" => intent.phase = "placing"
  /\ op.step = "commit" => intent.phase = "committing"
  /\ op.step \in Back \/ (op.step = "commit" /\ intent.kind = "install") => ~intentCommitted
  /\ op.step = "drop" => intentCommitted /\ (intent.kind = "uninstall" => record = None)

\* What an operation works on is named by its intent.
TodoFits ==
  /\ op.step \in {"backup", "restore"} => op.todo \subseteq Targets
  /\ op.step = "place" => op.todo \subseteq Named(intent.place)
  /\ op.step = "unsave" => op.todo \subseteq Named(intent.new)

\* The intent knows its targets as they were, and the record is the intent's or older.
IntentFits ==
  intent # None =>
    /\ intent.id <= ops /\ intent.remove \cap Named(intent.place) = {}
    /\ (intent.kind = "install") = (intent.version # None)
    /\ \A p \in Paths : intent.existing[p] # None => p \in Targets /\ intent.existing[p].id < intent.id
    /\ \A p \in Targets : FileOf(intent.existing[p]) = before.files[p]
    /\ record # None /\ record.id = intent.id =>
         /\ intent.phase = "committing" /\ intent.kind = "install"
         /\ record.version = intent.version
    /\ ~intentCommitted => VersionOf(record) = before.version

\* No entry and no record is of an operation to come.
PastOnly ==
  /\ \A p \in Paths : (at[p] # None => at[p].id <= ops) /\ (backup[p] # None => backup[p].id <= ops)
  /\ record # None => record.id <= ops

\* A saved original that the intent added is as it was added.
SavedFits ==
  intent # None /\ ~intentCommitted =>
    \A p \in Paths : intent.new[p] # None => saved[p] \in {None, intent.new[p]}

\* Where a target may be: as the operation found it, moved away, or placed.
Same(e, x) == e # None /\ e.id = x.id /\ e.file = x.file
Unmoved(p) == IF intent.existing[p] = None THEN at[p] = None ELSE Same(at[p], intent.existing[p])
BackedUp(p) == intent.existing[p] # None => Same(backup[p], intent.existing[p])
Emptied(p) == at[p] = None /\ BackedUp(p)
Placed(p) ==
  /\ intent.place[p] # None /\ BackedUp(p)
  /\ at[p] # None /\ at[p].id = intent.id /\ at[p].file = intent.place[p]
Final(p) == FileOf(at[p]) = intent.place[p]

\* Where the targets are, at each step, if nobody interferes.
TargetsFit ==
  /\ \A p \in Paths \ Targets : FileOf(at[p]) = before.files[p]
  /\ ~intentCommitted => \A p \in Targets : Unmoved(p) \/ Emptied(p) \/ Placed(p)
  /\ op.step \in {"save", "unsave"} => \A p \in Targets : Unmoved(p)
  /\ op.step = "backup" => \A p \in Targets : IF p \in op.todo THEN Unmoved(p) ELSE Emptied(p)
  /\ op.step = "place" => \A p \in Targets : IF p \in op.todo THEN Emptied(p) ELSE Final(p)
  /\ op.step = "restore" /\ op.failed = "no" => \A p \in Targets \ op.todo : Unmoved(p)
  /\ op.step = "commit" \/ intentCommitted => \A p \in Targets : Final(p)

Undisturbed == intent # None /\ ~disturbed => TargetsFit

\* Recovery gives up only where somebody interfered, which is a change.
Reported ==
  /\ op.failed = "blocked" \/ outcome = "blocked" => disturbed
  /\ changes = 0 => ~disturbed

SmapiInv == TypeOK /\ StepsFit /\ TodoFits /\ IntentFits /\ PastOnly /\ SavedFits /\ Undisturbed /\ Reported

-----------------------------------------------------------------------------
(* How steps move the operation.                                            *)

Operations == [step : Steps, todo : SUBSET Paths, failed : {"no", "error", "blocked"},
               memory : Memories \cup {None}]

LEMMA GoFacts ==
  ASSUME TypeOK, NEW step \in Steps, NEW todo \in SUBSET Paths, Go(step, todo)
  PROVE  /\ op' \in Operations /\ op'.step = step /\ op'.todo = todo
         /\ op'.failed = op.failed /\ op'.memory = op.memory /\ outcome' = outcome
BY DEF Go, TypeOK, Operations

LEMMA EndsFacts ==
  ASSUME SmapiAssumption, NEW result, Ends(result)
  PROVE  /\ op' \in Operations /\ op'.step = "idle" /\ op'.todo = {}
         /\ op'.failed = "no" /\ op'.memory = None /\ outcome' = result
BY DEF Ends, Resting, Operations, Steps

\* The intent's parts have their types.
LEMMA IntentFacts ==
  ASSUME SmapiAssumption, TypeOK, intent # None
  PROVE  /\ intent \in Intents /\ intent.id \in Nat /\ intent.kind \in {"install", "uninstall"}
         /\ intent.version \in Versions \cup {None}
         /\ intent.phase \in {"backing_up", "placing", "committing"}
         /\ intent.place \in Manifests /\ intent.remove \in SUBSET Paths
         /\ intent.existing \in [Paths -> Entry \cup {None}]
         /\ intent.new \in Manifests /\ intent.drop \in Manifests /\ intent.originals \in Manifests
         /\ Targets \in SUBSET Paths /\ Named(intent.place) \in SUBSET Paths
         /\ Named(intent.new) \in SUBSET Paths /\ Named(intent.drop) \in SUBSET Paths
         /\ Named(intent.existing) \in SUBSET Paths
BY DEF TypeOK, Intents, Manifests, Targets, Named

-----------------------------------------------------------------------------
(* Steps that move no entry and write neither record nor intent.            *)

Still ==
  /\ UNCHANGED <<at, backup, record, intent, before, disturbed, ops, changes>>
  /\ own' \in Manifests /\ config' \in Configs \cup {None} /\ unseen' \in BOOLEAN
  /\ faults' \in 0..MaxFaults /\ saved' \in Manifests

LEMMA StillTyped ==
  ASSUME SmapiInv, Still, op' \in Operations,
         outcome' \in {"none", "refused", "ok", "rolled_back", "blocked", "error", "crashed"}
  PROVE  TypeOK' /\ IntentFits' /\ PastOnly'
<1> USE DEF SmapiInv, Still
<1>1. TypeOK'
  BY DEF TypeOK, Operations
<1>2. IntentFits'
  BY DEF IntentFits, Targets, intentCommitted
<1>3. PastOnly'
  BY DEF PastOnly
<1> QED BY <1>1, <1>2, <1>3

LEMMA InitSmapi == SmapiAssumption /\ Init => SmapiInv
<1> SUFFICES ASSUME SmapiAssumption, Init PROVE SmapiInv
  OBVIOUS
<1>1. at \in [Paths -> Entry \cup {None}] /\ \A p \in Paths : at[p] # None => at[p].id = 0
  <2>1. PICK vanilla \in Vanillas, manual \in Versions \cup {None}, c \in Configs \cup {None},
              mine \in [Extras -> Own \cup {None}] :
          LET E(f, k) == IF f = None THEN None ELSE [file |-> f, id |-> 0, config |-> k]
          IN /\ at = [p \in Paths |->
                        IF p \in Extras THEN E(mine[p], None)
                        ELSE IF p = Launcher THEN E(IF manual = None THEN vanilla ELSE manual, None)
                        ELSE IF p = LauncherOld THEN E(IF manual = None THEN None ELSE vanilla, None)
                        ELSE E(manual, c)]
             /\ (manual = None => c = None) /\ config = c
             /\ own = [p \in Paths |-> IF p \in Extras THEN mine[p]
                                       ELSE IF p = Launcher THEN vanilla ELSE None]
    BY DEF Init
  <2>2. ASSUME NEW p \in Paths PROVE at[p] \in Entry \cup {None} /\ (at[p] # None => at[p].id = 0)
    BY <2>1 DEF Files, Entry
  <2> QED BY <2>1, <2>2
<1>2. own \in Manifests /\ config \in Configs \cup {None}
  BY DEF Init, Paths, Files, Manifests
<1>3. op \in Operations /\ op.step = "idle" /\ op.todo = {} /\ op.failed = "no"
  BY DEF Init, Resting, Operations, Steps
<1>4. before \in Outcomes
  BY <1>1 DEF Init, Present, VersionOf, FileOf, Outcomes, Manifests, Entry
<1>5. TypeOK
  <2>1. backup \in [Paths -> Entry \cup {None}] /\ saved \in Manifests
    BY DEF Init, Nothing, Manifests
  <2>2. ops \in 0..MaxOps /\ faults \in 0..MaxFaults /\ changes \in 0..MaxChanges
    BY DEF Init, SmapiAssumption
  <2>3. record \in Installs \cup {None} /\ intent \in Intents \cup {None} /\ outcome = "none"
        /\ disturbed \in BOOLEAN /\ unseen \in BOOLEAN
    BY DEF Init
  <2> QED BY <1>1, <1>2, <1>3, <1>4, <2>1, <2>2, <2>3 DEF TypeOK, Operations
<1>6. StepsFit /\ TodoFits /\ IntentFits /\ SavedFits /\ Undisturbed /\ Reported
  BY <1>3 DEF Init, StepsFit, TodoFits, IntentFits, SavedFits, Undisturbed, Reported, Forward, Back
<1>7. PastOnly
  BY <1>1 DEF Init, PastOnly, Nothing
<1> QED BY <1>5, <1>6, <1>7 DEF SmapiInv

-----------------------------------------------------------------------------
(* A step that moves no entry keeps what its new place in the operation     *)
(* asks for.                                                                *)

Results == {"none", "refused", "ok", "rolled_back", "blocked", "error", "crashed"}

LEMMA StillKeeps ==
  ASSUME SmapiInv, Still, op' \in Operations, outcome' \in Results,
         StepsFit', TodoFits', SavedFits', intent # None /\ ~disturbed => TargetsFit', Reported'
  PROVE  SmapiInv'
<1>1. Undisturbed'
  BY DEF Undisturbed, Still
<1> QED BY <1>1, StillTyped DEF SmapiInv, Results

\* Before the commit point an operation may turn back at any step.
LEMMA RollsBackKeeps ==
  ASSUME SmapiAssumption, SmapiInv, intent # None, ~intentCommitted, RollsBack,
         Still, saved' = saved
  PROVE  SmapiInv'
<1> USE DEF SmapiInv
<1>1. Targets \in SUBSET Paths
  BY IntentFacts
<1>2. op' \in Operations /\ op'.step = "restore" /\ op'.todo = Targets /\ outcome' = outcome
      /\ op'.failed = op.failed
  BY <1>1, GoFacts DEF RollsBack, Targets, Steps
<1>3. StepsFit' /\ TodoFits'
  BY <1>2 DEF Still, StepsFit, TodoFits, Targets, intentCommitted, Forward, Back
<1>4. SavedFits'
  BY DEF Still, SavedFits, intentCommitted
<1>5. ~disturbed => TargetsFit'
  BY <1>2 DEF Still, Undisturbed, TargetsFit, Targets, Unmoved, Emptied, Placed, BackedUp,
     Final, intentCommitted
<1>6. Reported'
  BY <1>2 DEF Still, Reported
<1> QED BY <1>2, <1>3, <1>4, <1>5, <1>6, StillKeeps DEF TypeOK, Results

\* So it may end anywhere, with the intent on disk or before it was there.
LEMMA EndsKeeps ==
  ASSUME SmapiAssumption, SmapiInv, NEW result \in Results, Ends(result), Still, saved' = saved,
         result = "blocked" => disturbed
  PROVE  SmapiInv'
<1> USE DEF SmapiInv
<1>2. op' \in Operations /\ op'.step = "idle" /\ op'.todo = {} /\ outcome' = result
      /\ op'.failed = "no"
  BY EndsFacts
<1>3. StepsFit' /\ TodoFits'
  BY <1>2 DEF Still, StepsFit, TodoFits, Forward, Back
<1>4. SavedFits'
  BY DEF Still, SavedFits, intentCommitted
<1>5. intent # None /\ ~disturbed => TargetsFit'
  BY <1>2 DEF Still, Undisturbed, TargetsFit, Targets, Unmoved, Emptied, Placed, BackedUp,
     Final, intentCommitted
<1>6. Reported'
  BY <1>2 DEF Still, Reported
<1> QED BY <1>2, <1>3, <1>4, <1>5, <1>6, StillKeeps

LEMMA FailsKeeps ==
  ASSUME SmapiAssumption, SmapiInv, intent # None, ~intentCommitted, Fails, Quiet
  PROVE  SmapiInv'
BY RollsBackKeeps DEF Fails, Quiet, Bounds, history, disk, Records, Still, SmapiInv, TypeOK

LEMMA SaveKeeps ==
  ASSUME SmapiAssumption, SmapiInv, NEW p \in Paths, SaveOriginal(p)
  PROVE  SmapiInv'
<1> USE DEF SmapiInv
<1>1. op.step = "save" /\ intent # None /\ p \in op.todo /\ op.todo \in SUBSET Paths
  BY DEF SaveOriginal, StepsFit, TypeOK
<1> USE <1>1, IntentFacts
<1>2. CASE FileOf(at[p]) = intent.new[p]
  <2>1. Go("save", op.todo \ {p}) /\ saved' = [saved EXCEPT ![p] = intent.new[p]]
        /\ UNCHANGED <<at, backup, record, intent, before, disturbed, ops, changes, own, config, unseen, faults>>
    BY <1>2 DEF SaveOriginal, Records, Quiet, Bounds, history
  <2>2. op' \in Operations /\ op'.step = "save" /\ op'.todo = op.todo \ {p} /\ op'.failed = op.failed
        /\ op'.memory = op.memory /\ outcome' = outcome
    BY <2>1, GoFacts DEF Steps
  <2>3. Still
    BY <2>1 DEF Still, TypeOK, Manifests
  <2>4. StepsFit' /\ TodoFits'
    BY <2>1, <2>2 DEF StepsFit, TodoFits, intentCommitted, Forward, Back
  <2>5. SavedFits'
    BY <2>1 DEF SavedFits, intentCommitted, TypeOK, Manifests
  <2>6. intent # None /\ ~disturbed => TargetsFit'
    BY <2>1, <2>2 DEF Undisturbed, TargetsFit, intentCommitted, Targets, Unmoved, Emptied, Placed, BackedUp, Final
  <2>7. Reported'
    BY <2>1, <2>2 DEF Reported
  <2> QED BY <2>2, <2>3, <2>4, <2>5, <2>6, <2>7, StillKeeps DEF TypeOK, Results
<1>3. CASE FileOf(at[p]) # intent.new[p]
  BY <1>3, FailsKeeps DEF SaveOriginal, Quiet, Bounds, history, StepsFit, intentCommitted
<1> QED BY <1>2, <1>3

LEMMA RestingKeeps ==
  ASSUME SmapiAssumption, SmapiInv,
         (\E v \in Versions : Stage(v)) \/ Recover \/ Saved \/ Restored
         \/ \E p \in Paths : dropOriginal(p)
  PROVE  SmapiInv'
<1> USE DEF SmapiInv
<1>0. intent # None =>
        /\ Targets \in SUBSET Paths /\ Named(intent.new) \in SUBSET Paths
        /\ Named(intent.drop) \in SUBSET Paths /\ Named(intent.existing) \in SUBSET Paths
  BY IntentFacts
<1>1. ASSUME NEW v \in Versions, Stage(v) PROVE SmapiInv'
  <2>1. /\ op' \in Operations /\ op'.step = "plan" /\ op'.todo = {} /\ op'.failed = "no"
        /\ op'.memory # None /\ outcome' = "none"
    <3>1. VanillaSource \in Paths /\ FileOf(at[VanillaSource]) \in Files
      BY <1>1 DEF Stage, VanillaSource, Vanilla, Paths, Files
    <3>2. ConfigOf(at[Internal]) \in Configs \cup {None}
      BY DEF ConfigOf, TypeOK, Entry, Paths
    <3> DEFINE m == [version |-> v, source |-> VanillaSource, launcher |-> FileOf(at[VanillaSource]),
                     config |-> ConfigOf(at[Internal])]
    <3>3. m \in Memories
      BY <3>1, <3>2 DEF Memories
    <3>4. op' = [step |-> "plan", todo |-> {}, failed |-> "no", memory |-> m] /\ outcome' = "none"
      BY <1>1 DEF Stage, Resting
    <3> HIDE DEF m
    <3> QED BY <3>3, <3>4 DEF Operations, Steps, SmapiAssumption
  <2>2. Still /\ intent = None /\ saved' = saved /\ ops < MaxOps
    BY <1>1 DEF Stage, disk, Records, Quiet, Bounds, history, Still, TypeOK
  <2>3. StepsFit' /\ TodoFits' /\ SavedFits' /\ Reported'
    BY <2>1, <2>2 DEF Still, StepsFit, TodoFits, SavedFits, Reported, Forward, Back
  <2> QED BY <2>1, <2>2, <2>3, StillKeeps DEF Results
<1>2. CASE Recover
  <2>1. /\ op' \in Operations /\ op'.failed = "no" /\ outcome' = "none"
        /\ op'.step = IF ~intentCommitted THEN "restore"
                      ELSE IF intent.kind = "uninstall" THEN "commit" ELSE "drop"
        /\ ~intentCommitted => op'.todo = Targets
    BY <1>0, <1>2 DEF Recover, Resting, Operations, Steps, Targets
  <2>2. Still /\ intent # None /\ saved' = saved
    BY <1>2 DEF Recover, disk, Records, Quiet, Bounds, history, Still, TypeOK
  <2>3. StepsFit' /\ TodoFits' /\ SavedFits' /\ Reported'
    BY <2>1, <2>2 DEF Still, StepsFit, TodoFits, SavedFits, Reported, Forward, Back, intentCommitted,
       Targets
  <2>4. ~disturbed => TargetsFit'
    BY <2>1, <2>2 DEF Still, Undisturbed, TargetsFit, Targets, Unmoved, Emptied, Placed,
       BackedUp, Final, intentCommitted
  <2> QED BY <2>1, <2>2, <2>3, <2>4, StillKeeps DEF Results
<1>3. CASE Saved
  <2>1. /\ op' \in Operations /\ op'.step = "backup" /\ op'.todo = Named(intent.existing)
        /\ op'.failed = op.failed /\ op'.memory = op.memory /\ outcome' = outcome
    BY <1>0, <1>3, GoFacts DEF Saved, Steps, StepsFit
  <2>2. Still /\ intent # None /\ saved' = saved /\ op.step = "save"
    BY <1>3 DEF Saved, disk, Records, Quiet, Bounds, history, Still, TypeOK, StepsFit
  <2>3. StepsFit' /\ SavedFits' /\ Reported'
    BY <2>1, <2>2 DEF Still, StepsFit, SavedFits, Reported, Forward, Back, intentCommitted
  <2>4. TodoFits'
    BY <2>1, <2>2, IntentFacts DEF Still, TodoFits, IntentFits, Named, Targets
  <2>5. ~disturbed => TargetsFit'
    BY <2>1, <2>2, IntentFacts DEF Still, Undisturbed, TargetsFit, Targets, Unmoved, Emptied, Placed,
       BackedUp, Final, intentCommitted, Named
  <2> QED BY <2>1, <2>2, <2>3, <2>4, <2>5, StillKeeps DEF Results, TypeOK
<1>4. CASE Restored
  <2>1. Still /\ intent # None /\ saved' = saved /\ op.step = "restore" /\ op.todo = {}
    BY <1>4 DEF Restored, disk, Records, Quiet, Bounds, history, Still, TypeOK, StepsFit
  <2>2. CASE op.failed # "no"
    BY <1>4, <2>1, <2>2, EndsKeeps DEF Restored, Reported, Results, TypeOK
  <2>3. CASE op.failed = "no"
    <3>1. /\ op' \in Operations /\ op'.step = "unsave" /\ op'.todo = Named(intent.new)
          /\ op'.failed = op.failed /\ outcome' = outcome
      BY <1>0, <1>4, <2>1, <2>3, GoFacts DEF Restored, Steps
    <3>2. StepsFit' /\ TodoFits' /\ SavedFits' /\ Reported'
      BY <2>1, <3>1 DEF Still, StepsFit, TodoFits, SavedFits, Reported, Forward, Back, intentCommitted
    <3>3. ~disturbed => TargetsFit'
      BY <2>1, <2>3, <3>1 DEF Still, Undisturbed, TargetsFit, Targets, Unmoved, Emptied, Placed,
         BackedUp, Final, intentCommitted
    <3> QED BY <2>1, <3>1, <3>2, <3>3, StillKeeps DEF Results, TypeOK
  <2> QED BY <2>2, <2>3
<1>5. ASSUME NEW p \in Paths, dropOriginal(p) PROVE SmapiInv'
  <2>1. /\ op' \in Operations /\ op'.step = "drop" /\ op'.todo = op.todo \ {p}
        /\ op'.failed = op.failed /\ outcome' = outcome
    BY <1>5, GoFacts DEF dropOriginal, Steps, TypeOK
  <2>2. Still /\ intent # None /\ op.step = "drop" /\ intentCommitted
    BY <1>5 DEF dropOriginal, Records, Quiet, Bounds, history, Still, TypeOK, StepsFit, Manifests
  <2>3. StepsFit' /\ TodoFits' /\ SavedFits' /\ Reported'
    BY <2>1, <2>2 DEF Still, StepsFit, TodoFits, SavedFits, Reported, Forward, Back, intentCommitted
  <2>4. ~disturbed => TargetsFit'
    BY <2>1, <2>2 DEF Still, Undisturbed, TargetsFit, Targets, Unmoved, Emptied, Placed,
       BackedUp, Final, intentCommitted
  <2> QED BY <2>1, <2>2, <2>3, <2>4, StillKeeps DEF Results, TypeOK
<1> QED BY <1>1, <1>2, <1>3, <1>4, <1>5

LEMMA FailureKeeps ==
  ASSUME SmapiAssumption, SmapiInv, Error \/ Crash \/ \E p \in Paths : RestoreFails(p)
  PROVE  SmapiInv'
<1> USE DEF SmapiInv
<1>1. CASE Error
  <2>1. Still /\ saved' = saved
    BY <1>1 DEF Error, disk, Records, history, Still, TypeOK, SmapiAssumption
  <2>2. CASE op.step \in Unsafe /\ RollsBack
    BY <2>1, <2>2, RollsBackKeeps DEF Unsafe, StepsFit, intentCommitted
  <2>3. CASE op.step = "commit" /\ (IF intent.kind = "install" THEN RollsBack ELSE Ends("error"))
    BY <2>1, <2>3, RollsBackKeeps, EndsKeeps DEF StepsFit, intentCommitted, Results
  <2>4. ASSUME NEW p \in op.todo, op.step = "drop", Go("drop", op.todo \ {p})
        PROVE  SmapiInv'
    <3>1. /\ op' \in Operations /\ op'.step = "drop" /\ op'.failed = op.failed /\ outcome' = outcome
      BY <2>4, GoFacts DEF Steps, TypeOK
    <3>2. intent # None /\ intentCommitted
      BY <2>4 DEF StepsFit
    <3>3. StepsFit' /\ TodoFits' /\ SavedFits' /\ Reported'
      BY <2>1, <2>4, <3>1, <3>2
      DEF Still, StepsFit, TodoFits, SavedFits, Reported, Forward, Back, intentCommitted
    <3>4. ~disturbed => TargetsFit'
      BY <2>1, <3>1, <3>2 DEF Still, Undisturbed, TargetsFit, Targets, Unmoved, Emptied, Placed,
         BackedUp, Final, intentCommitted
    <3> QED BY <2>1, <3>1, <3>2, <3>3, <3>4, StillKeeps DEF Results, TypeOK
  <2>5. CASE \/ Ends("error") \/ Ends("ok") \/ Ends("rolled_back")
    BY <2>1, <2>5, EndsKeeps DEF Results
  <2> QED BY <1>1, <2>2, <2>3, <2>4, <2>5 DEF Error
<1>2. CASE Crash
  <2>1. Still /\ saved' = saved
    BY <1>2 DEF Crash, disk, history, Still, TypeOK, SmapiAssumption
  <2> QED BY <1>2, <2>1, EndsKeeps DEF Crash, Results
<1>3. ASSUME NEW p \in Paths, RestoreFails(p) PROVE SmapiInv'
  <2>1. Still /\ saved' = saved /\ op.step = "restore"
    <3>1. faults < MaxFaults /\ faults' = faults + 1 /\ op.step = "restore"
          /\ UNCHANGED <<at, backup, saved, record, intent, ops, changes, history>>
      BY <1>3 DEF RestoreFails, Fails1, disk, Records
    <3> QED BY <3>1 DEF Still, history, TypeOK, SmapiAssumption
  <2>2. /\ op' \in Operations /\ op'.step = "restore" /\ op'.todo \subseteq op.todo
        /\ op'.failed \in {"blocked", "error"} /\ (op'.failed = "blocked" => op.failed = "blocked")
        /\ op'.memory = op.memory /\ outcome' = outcome
    BY <1>3 DEF RestoreFails, Fails1, TypeOK, Operations
  <2>3. StepsFit' /\ TodoFits' /\ SavedFits' /\ Reported'
    BY <2>1, <2>2
    DEF Still, StepsFit, TodoFits, SavedFits, Reported, Forward, Back, intentCommitted, Targets
  <2>4. intent # None /\ ~disturbed => TargetsFit'
    BY <2>1, <2>2 DEF Still, Undisturbed, TargetsFit, Targets, Unmoved, Emptied, Placed,
       BackedUp, Final, intentCommitted
  <2> QED BY <2>1, <2>2, <2>3, <2>4, StillKeeps DEF Results, TypeOK
<1> QED BY <1>1, <1>2, <1>3

LEMMA UnsaveKeeps ==
  ASSUME SmapiAssumption, SmapiInv, NEW p \in Paths, dropNewOriginal(p)
  PROVE  SmapiInv'
<1> USE DEF SmapiInv
<1>1. op.step = "unsave" /\ p \in op.todo /\ intent # None /\ ~intentCommitted
      /\ saved[p] \in {None, intent.new[p]}
  BY IntentFacts DEF dropNewOriginal, StepsFit, TodoFits, SavedFits, Named, Back, Manifests
<1>2. saved' = [saved EXCEPT ![p] = None] /\ Go("unsave", op.todo \ {p})
  BY <1>1 DEF dropNewOriginal
<1>3. /\ op' \in Operations /\ op'.step = "unsave" /\ op'.todo = op.todo \ {p}
      /\ op'.failed = op.failed /\ outcome' = outcome
  BY <1>2, GoFacts DEF Steps, TypeOK
<1>4. Still
  BY <1>2 DEF dropNewOriginal, Records, Quiet, Bounds, history, Still, TypeOK, Manifests
<1>5. StepsFit' /\ TodoFits' /\ Reported'
  BY <1>1, <1>3, <1>4
  DEF Still, StepsFit, TodoFits, Reported, Forward, Back, intentCommitted
<1>6. SavedFits'
  BY <1>2, <1>4 DEF Still, SavedFits, TypeOK, Manifests, intentCommitted
<1>7. ~disturbed => TargetsFit'
  BY <1>1, <1>3, <1>4 DEF Still, Undisturbed, TargetsFit, Targets, Unmoved, Emptied, Placed,
     BackedUp, Final, intentCommitted
<1> QED BY <1>1, <1>3, <1>4, <1>5, <1>6, <1>7, StillKeeps DEF Results, TypeOK

\* Without an intent nothing is asked of what is where.
LEMMA IntentlessKeeps ==
  ASSUME SmapiAssumption, SmapiInv, intent' = None, op' \in Operations, outcome' \in Results,
         op'.step \in {"idle", "cleanup", "undone"}, op'.failed \in {"no", op.failed},
         outcome' = "blocked" => outcome = "blocked",
         at' = at, backup' \in {backup, Nothing},
         UNCHANGED <<saved, record, ops, faults, changes, history>>
  PROVE  SmapiInv'
<1> USE DEF SmapiInv
<1>1. TypeOK'
  BY DEF TypeOK, Operations, Results, history, Nothing
<1>2. StepsFit' /\ TodoFits' /\ IntentFits' /\ SavedFits' /\ Undisturbed'
  BY DEF StepsFit, TodoFits, IntentFits, SavedFits, Undisturbed, Forward, Back
<1>3. PastOnly'
  BY DEF PastOnly, Nothing
<1>4. Reported'
  BY DEF Reported, history
<1> QED BY <1>1, <1>2, <1>3, <1>4

LEMMA ClosingKeeps ==
  ASSUME SmapiAssumption, SmapiInv, removeIntent \/ cleanupOp \/ Sweep
  PROVE  SmapiInv'
<1> USE DEF SmapiInv
<1>1. CASE removeIntent
  <2>1. /\ op' \in Operations /\ op'.step \in {"cleanup", "undone"} /\ op'.failed = op.failed
        /\ outcome' = outcome
    BY <1>1, GoFacts DEF removeIntent, Steps
  <2> QED BY <1>1, <2>1, IntentlessKeeps DEF removeIntent, disk, Quiet, Bounds, TypeOK, Results
<1>2. CASE cleanupOp
  <2>1. \E result \in {"ok", "rolled_back"} : Ends(result)
    BY <1>2 DEF cleanupOp
  <2>2. /\ op' \in Operations /\ op'.step = "idle" /\ op'.failed = "no"
        /\ outcome' \in {"ok", "rolled_back"}
    BY <2>1, EndsFacts
  <2> QED BY <1>2, <2>2, IntentlessKeeps DEF cleanupOp, Records, Quiet, Bounds, StepsFit, Forward, Back, Results
<1>3. CASE Sweep
  BY <1>3, IntentlessKeeps DEF Sweep, Records, Quiet, Bounds, Idle, TypeOK, Operations, Results
<1> QED BY <1>1, <1>2, <1>3

-----------------------------------------------------------------------------
(* Moving the entries.                                                      *)

LEMMA BackUpKeeps ==
  ASSUME SmapiAssumption, SmapiInv, NEW p \in Paths, BackUp(p)
  PROVE  SmapiInv'
<1> USE DEF SmapiInv
<1>1. op.step = "backup" /\ intent # None /\ p \in op.todo /\ op.todo \in SUBSET Paths
      /\ ~intentCommitted /\ p \in Targets
  BY DEF BackUp, StepsFit, TodoFits, TypeOK, intentCommitted
<1>2. CASE ~(at[p] # None /\ at[p].id = intent.existing[p].id)
  BY <1>1, <1>2, FailsKeeps DEF BackUp
<1>3. CASE at[p] # None /\ at[p].id = intent.existing[p].id
  <2>1. at' = [at EXCEPT ![p] = None] /\ backup' = [backup EXCEPT ![p] = at[p]]
        /\ UNCHANGED <<saved, record, intent, ops, faults, changes, history>>
    BY <1>3 DEF BackUp, Records, Quiet, Bounds
  <2>2. at[p] \in Entry /\ Targets \in SUBSET Paths
    BY <1>3, <1>1, IntentFacts DEF TypeOK
  <2>3. \/ /\ op' \in Operations /\ op'.step = "backup" /\ op'.todo = op.todo \ {p}
           /\ op'.failed = op.failed /\ outcome' = outcome /\ op'.memory = op.memory
        \/ /\ op' \in Operations /\ op'.step = "restore" /\ op'.todo = Targets
           /\ op'.failed = op.failed /\ outcome' = outcome /\ op'.memory = op.memory
    <3>1. Go("backup", op.todo \ {p}) \/ RollsBack
      BY <1>3 DEF BackUp
    <3>2. op.todo \ {p} \in SUBSET Paths
      BY <1>1
    <3> QED BY <3>1, <3>2, <2>2, GoFacts DEF RollsBack, Targets, Steps
  <2>4. TypeOK'
    BY <2>1, <2>2, <2>3 DEF TypeOK, Operations, history
  <2>5. StepsFit' /\ TodoFits' /\ SavedFits' /\ Reported'
    BY <1>1, <2>1, <2>3 DEF StepsFit, TodoFits, SavedFits, Reported, Forward, Back, intentCommitted,
       history, Targets
  <2>6. IntentFits'
    BY <2>1 DEF IntentFits, intentCommitted, history, Targets
  <2>7. PastOnly'
    BY <2>1 DEF PastOnly, TypeOK
  <2>8. ASSUME ~disturbed PROVE TargetsFit'
    <3>1. TargetsFit
      BY <1>1, <2>8 DEF Undisturbed
    <3>2. Unmoved(p)
      BY <3>1, <1>1 DEF TargetsFit
    <3>3. Emptied(p)'
      BY <1>3, <2>1, <3>2 DEF Unmoved, Emptied, BackedUp, Same, TypeOK
    <3>4. \A q \in Paths \ {p} : at'[q] = at[q] /\ backup'[q] = backup[q]
      BY <2>1 DEF TypeOK
    <3> QED BY <1>1, <2>1, <2>3, <3>1, <3>3, <3>4 DEF TargetsFit, Unmoved, Emptied, BackedUp, Placed,
            Final, Targets, intentCommitted, history
  <2>9. Undisturbed'
    BY <2>1, <2>8 DEF Undisturbed, history
  <2> QED BY <2>4, <2>5, <2>6, <2>7, <2>9
<1> QED BY <1>2, <1>3

LEMMA PlaceKeeps ==
  ASSUME SmapiAssumption, SmapiInv, NEW p \in Paths, Place(p)
  PROVE  SmapiInv'
<1> USE DEF SmapiInv
<1>1. op.step = "place" /\ intent # None /\ p \in op.todo /\ op.todo \in SUBSET Paths
      /\ ~intentCommitted /\ p \in Named(intent.place)
  BY DEF Place, StepsFit, TodoFits, TypeOK, intentCommitted
<1>2. CASE at[p] # None
  BY <1>1, <1>2, FailsKeeps DEF Place
<1>3. CASE at[p] = None
  <2>1. at' = [at EXCEPT ![p] = PlacedEntry(p)] /\ Go("place", op.todo \ {p})
        /\ UNCHANGED <<backup, saved, record, intent, ops, faults, changes, history>>
    BY <1>3 DEF Place, Records, Quiet, Bounds
  <2>2. PlacedEntry(p) \in Entry /\ PlacedEntry(p).id = intent.id
        /\ PlacedEntry(p).file = intent.place[p] /\ p \in Targets /\ intent.place[p] # None
    <3>1. intent.place[p] \in Files /\ intent.place[p] # None /\ intent.id \in Nat /\ p \in Targets
      BY <1>1, IntentFacts DEF Named, Manifests, Targets
    <3>2. intent.kind = "install" => op.memory.config \in Configs \cup {None}
      BY <1>1 DEF StepsFit, Forward, TypeOK, Memories
    <3> QED BY <3>1, <3>2 DEF PlacedEntry, Entry
  <2>3. /\ op' \in Operations /\ op'.step = "place" /\ op'.todo = op.todo \ {p}
        /\ op'.failed = op.failed /\ outcome' = outcome /\ op'.memory = op.memory
    BY <1>1, <2>1, GoFacts DEF Steps
  <2>4. TypeOK'
    BY <2>1, <2>2, <2>3 DEF TypeOK, Operations, history
  <2>5. StepsFit' /\ TodoFits' /\ SavedFits' /\ Reported'
    BY <1>1, <2>1, <2>3 DEF StepsFit, TodoFits, SavedFits, Reported, Forward, Back, intentCommitted,
       history, Targets
  <2>6. IntentFits'
    BY <2>1 DEF IntentFits, intentCommitted, history, Targets
  <2>7. PastOnly'
    BY <1>1, <2>1, <2>2, SMT DEF PastOnly, TypeOK, IntentFits
  <2>8. ASSUME ~disturbed PROVE TargetsFit'
    <3>1. TargetsFit
      BY <1>1, <2>8 DEF Undisturbed
    <3>2. Emptied(p)
      BY <3>1, <1>1, <2>2 DEF TargetsFit
    <3>3. Placed(p)' /\ Final(p)'
      <4>1. at'[p] = PlacedEntry(p)
        BY <2>1 DEF TypeOK
      <4>2. PlacedEntry(p) # None
        BY <2>2 DEF SmapiAssumption
      <4> HIDE DEF PlacedEntry
      <4> QED BY <4>1, <4>2, <2>1, <2>2, <3>2 DEF Emptied, Placed, BackedUp, Same, Final, FileOf
    <3>4. \A q \in Paths \ {p} : at'[q] = at[q] /\ backup'[q] = backup[q]
      BY <2>1 DEF TypeOK
    <3> QED BY <1>1, <2>1, <2>2, <2>3, <3>1, <3>3, <3>4 DEF TargetsFit, Unmoved, Emptied, BackedUp, Placed,
            Final, Targets, intentCommitted, history
  <2>9. Undisturbed'
    BY <2>1, <2>8 DEF Undisturbed, history
  <2> QED BY <2>4, <2>5, <2>6, <2>7, <2>9
<1> QED BY <1>2, <1>3

\* A phase ends when its targets are dealt with; the last one is the commit.
LEMMA PhaseKeeps ==
  ASSUME SmapiAssumption, SmapiInv,
         setPhase("backup", "placing", "place", Named(intent.place))
         \/ setPhase("place", "committing", "commit", {})
  PROVE  SmapiInv'
<1> USE DEF SmapiInv
<1> DEFINE phase == IF op.step = "backup" THEN "placing" ELSE "committing"
           to == IF op.step = "backup" THEN "place" ELSE "commit"
           todo == IF op.step = "backup" THEN Named(intent.place) ELSE {}
<1>1. /\ op.step \in {"backup", "place"} /\ op.todo = {} /\ intent # None
      /\ intent' = [intent EXCEPT !.phase = phase] /\ Go(to, todo)
      /\ UNCHANGED <<at, backup, saved, record, ops, faults, changes, history>>
  BY DEF setPhase, disk, Quiet, Bounds, StepsFit
<1>2. /\ intent' \in Intents /\ intent' # None /\ intent'.phase = phase /\ intent'.id = intent.id
      /\ intent'.kind = intent.kind /\ intent'.version = intent.version
      /\ intent'.place = intent.place /\ intent'.remove = intent.remove
      /\ intent'.existing = intent.existing /\ intent'.new = intent.new
  BY <1>1, IntentFacts DEF Intents, SmapiAssumption
<1>3. /\ op' \in Operations /\ op'.step = to /\ op'.todo = todo
      /\ op'.failed = op.failed /\ outcome' = outcome /\ op'.memory = op.memory
  BY <1>1, GoFacts, IntentFacts DEF Steps
<1>4. TypeOK'
  BY <1>1, <1>2, <1>3 DEF TypeOK, Operations, history
<1>5. ~intentCommitted /\ intent.phase # "committing"
      /\ ~(record # None /\ record.id = intent.id)
  BY <1>1 DEF StepsFit, IntentFits, intentCommitted
<1>6. StepsFit'
  BY <1>1, <1>2, <1>3, <1>5 DEF StepsFit, Forward, Back, intentCommitted
<1>7. TodoFits' /\ Reported' /\ SavedFits'
  BY <1>1, <1>2, <1>3, <1>5 DEF TodoFits, Reported, history, SavedFits, intentCommitted, Targets
<1>8. IntentFits'
  BY <1>1, <1>2, <1>5 DEF IntentFits, intentCommitted, Targets, history
<1>9. PastOnly'
  BY <1>1 DEF PastOnly
<1>10. ASSUME ~disturbed PROVE TargetsFit'
  <2>1. TargetsFit /\ UNCHANGED <<at, backup, record, before>> /\ Targets' = Targets
    BY <1>1, <1>2, <1>10 DEF Undisturbed, history, Targets
  <2>2. \A p \in Targets : /\ Unmoved(p)' = Unmoved(p) /\ Emptied(p)' = Emptied(p)
                           /\ Placed(p)' = Placed(p) /\ Final(p)' = Final(p)
    BY <1>2, <2>1 DEF Unmoved, Emptied, Placed, BackedUp, Final
  <2>3. CASE op.step = "backup"
    <3>1. \A p \in Targets : Emptied(p)
      BY <1>1, <2>1, <2>3 DEF TargetsFit
    <3>2. \A p \in Targets \ Named(intent.place) : Final(p)
      BY <3>1, IntentFacts, <1>1 DEF Emptied, Final, FileOf, Named, Manifests
    <3>3. ~intentCommitted'
      BY <1>2, <2>3 DEF intentCommitted
    <3> QED BY <1>2, <1>3, <2>1, <2>2, <2>3, <3>1, <3>2, <3>3 DEF TargetsFit
  <2>4. CASE op.step = "place"
    <3>1. \A p \in Targets : Final(p)
      BY <1>1, <2>1, <2>4 DEF TargetsFit
    <3> QED BY <1>2, <1>3, <1>5, <2>1, <2>2, <2>4, <3>1 DEF TargetsFit
  <2> QED BY <1>1, <2>3, <2>4
<1>11. Undisturbed'
  BY <1>1, <1>10 DEF Undisturbed, history
<1> QED BY <1>4, <1>6, <1>7, <1>8, <1>9, <1>11

LEMMA CommitKeeps ==
  ASSUME SmapiAssumption, SmapiInv, writeRecord \/ removeRecord
  PROVE  SmapiInv'
<1> USE DEF SmapiInv
<1>1. /\ op.step = "commit" /\ intent # None /\ intent.phase = "committing"
      /\ Go("drop", Named(intent.drop))
      /\ UNCHANGED <<at, backup, saved, intent, ops, faults, changes, own, before, disturbed, unseen>>
      /\ config' \in {None, config}
  BY DEF writeRecord, removeRecord, disk, Quiet, Bounds, history, StepsFit
<1>2. /\ op' \in Operations /\ op'.step = "drop" /\ op'.failed = op.failed /\ outcome' = outcome
  BY <1>1, GoFacts, IntentFacts DEF Steps
<1>3. \/ intent.kind = "uninstall" /\ record' = None
      \/ /\ intent.kind = "install" /\ record' \in Installs /\ record'.id = intent.id
         /\ record'.version = intent.version
  <2>1. CASE writeRecord
    <3>1. intent.version \in Versions
      BY <1>1, <2>1, IntentFacts DEF writeRecord, IntentFits
    <3>2. {Launcher, LauncherOld, Internal} \cup Payload[intent.version] \in SUBSET Paths
      BY <3>1 DEF Paths, SmapiAssumption
    <3>3. record' = [id |-> intent.id, version |-> intent.version, originals |-> intent.originals,
                     targets |-> {Launcher, LauncherOld, Internal} \cup Payload[intent.version]]
      BY <2>1 DEF writeRecord
    <3> QED BY <1>1, <2>1, <3>1, <3>2, <3>3, IntentFacts DEF Installs, writeRecord
  <2>2. CASE removeRecord
    BY <2>2 DEF removeRecord
  <2> QED BY <2>1, <2>2
<1>4. record' # None => record'.id = intent.id
  BY <1>3
<1>5. intentCommitted'
  BY <1>1, <1>3 DEF intentCommitted, SmapiAssumption
<1>6. TypeOK'
  BY <1>1, <1>2, <1>3 DEF TypeOK, Operations
<1>7. StepsFit' /\ TodoFits' /\ SavedFits' /\ Reported'
  BY <1>1, <1>2, <1>3, <1>5 DEF StepsFit, TodoFits, SavedFits, Reported, Forward, Back
<1>8. IntentFits'
  BY <1>1, <1>3, <1>4, <1>5 DEF IntentFits, Targets
<1>9. PastOnly'
  BY <1>1, <1>4 DEF PastOnly, IntentFits
<1>10. ~disturbed => TargetsFit'
  BY <1>1, <1>2, <1>5 DEF Undisturbed, TargetsFit, Targets, Final
<1>11. Undisturbed'
  BY <1>1, <1>10 DEF Undisturbed
<1> QED BY <1>6, <1>7, <1>8, <1>9, <1>11

\* A roll-back finds each target where it can go back from, unless somebody
\* interfered.
LEMMA RestoreKeeps ==
  ASSUME SmapiAssumption, SmapiInv, NEW p \in Paths, Restore(p)
  PROVE  SmapiInv'
<1> USE DEF SmapiInv
<1>1. /\ op.step = "restore" /\ intent # None /\ p \in op.todo /\ op.todo \in SUBSET Paths
      /\ ~intentCommitted /\ p \in Targets
      /\ UNCHANGED <<record, intent, ops, faults, changes, history>>
  BY DEF Restore, StepsFit, TodoFits, TypeOK, Back, Records, Quiet, Bounds
<1> DEFINE existed == intent.existing[p] # None
           back == ~existed \/ IsPreimage(backup[p], p)
           Done == Go("restore", op.todo \ {p})
<1>2. \/ existed /\ IsPreimage(at[p], p) /\ Done /\ UNCHANGED disk
      \/ Stuck(p) /\ ~back /\ ~(existed /\ IsPreimage(at[p], p))
      \/ Stuck(p) /\ at[p] # None /\ ~IsPlaced(at[p], p) /\ ~(existed /\ IsPreimage(at[p], p))
      \/ /\ ~(existed /\ IsPreimage(at[p], p)) /\ back /\ at[p] # None /\ IsPlaced(at[p], p)
         /\ at' = [at EXCEPT ![p] = None] /\ UNCHANGED <<backup, saved, op, outcome>>
      \/ /\ ~(existed /\ IsPreimage(at[p], p)) /\ back /\ at[p] = None /\ existed
         /\ at' = [at EXCEPT ![p] = backup[p]] /\ backup' = [backup EXCEPT ![p] = None]
         /\ Done /\ UNCHANGED saved
      \/ ~existed /\ at[p] = None /\ Done /\ UNCHANGED disk
  BY DEF Restore
<1>3. /\ op' \in Operations /\ op'.step = "restore" /\ op'.todo \in {op.todo, op.todo \ {p}}
      /\ op'.failed \in {op.failed, "blocked"} /\ op'.memory = op.memory /\ outcome' = outcome
  <2>1. CASE Done
    BY <1>1, <2>1, GoFacts DEF Steps
  <2>2. CASE Stuck(p)
    BY <1>1, <2>2 DEF Stuck, Fails1, TypeOK, Operations
  <2>3. CASE UNCHANGED <<op, outcome>>
    BY <1>1, <2>3 DEF TypeOK, Operations
  <2> HIDE DEF back, existed, Done
  <2> QED BY <1>2, <2>1, <2>2, <2>3
<1>4. /\ at' \in [Paths -> Entry \cup {None}] /\ backup' \in [Paths -> Entry \cup {None}]
      /\ UNCHANGED saved
      /\ at'[p] \in {at[p], None, backup[p]} /\ backup'[p] \in {backup[p], None}
      /\ \A q \in Paths \ {p} : at'[q] = at[q] /\ backup'[q] = backup[q]
  <2>1. CASE UNCHANGED disk
    BY <2>1 DEF disk, TypeOK
  <2>2. CASE at' = [at EXCEPT ![p] = None] /\ UNCHANGED <<backup, saved>>
    BY <2>2 DEF TypeOK
  <2>3. CASE at' = [at EXCEPT ![p] = backup[p]] /\ backup' = [backup EXCEPT ![p] = None] /\ UNCHANGED saved
    BY <2>3 DEF TypeOK
  <2>4. Stuck(p) => UNCHANGED disk
    BY DEF Stuck, Fails1
  <2> HIDE DEF back, existed, Done
  <2> QED BY <1>2, <2>1, <2>2, <2>3, <2>4
<1>5. TypeOK'
  BY <1>1, <1>3, <1>4 DEF TypeOK, Operations, history
<1>6. StepsFit' /\ TodoFits' /\ SavedFits'
  BY <1>1, <1>3, <1>4 DEF StepsFit, TodoFits, SavedFits, Forward, Back, intentCommitted, Targets
<1>7. IntentFits'
  BY <1>1 DEF IntentFits, intentCommitted, history, Targets
<1>8. PastOnly'
  BY <1>1, <1>4 DEF PastOnly
<1>9. ASSUME ~disturbed PROVE TargetsFit' /\ op'.failed = op.failed
  <2>1. TargetsFit
    BY <1>1, <1>9 DEF Undisturbed
  <2>2. Unmoved(p) \/ Emptied(p) \/ Placed(p)
    BY <1>1, <2>1 DEF TargetsFit
  <2>3. existed => intent.existing[p].id < intent.id /\ intent.existing[p].id \in Int /\ intent.id \in Int
    BY <1>1, IntentFacts DEF IntentFits, Entry
  <2>4. Unmoved(p) => IF existed THEN IsPreimage(at[p], p) ELSE at[p] = None
    BY DEF Unmoved, Same, IsPreimage
  <2>5. Placed(p) => at[p] # None /\ IsPlaced(at[p], p) /\ ~(existed /\ IsPreimage(at[p], p)) /\ back
    BY <2>3 DEF Placed, IsPlaced, IsPreimage, BackedUp, Same
  <2>6. Emptied(p) => at[p] = None /\ back
    BY DEF Emptied, BackedUp, IsPreimage, Same
  <2>7. existed /\ IsPreimage(at[p], p) => Unmoved(p)
    BY <2>2, <2>5, <2>6 DEF IsPreimage
  <2>8. at[p] = None => Emptied(p) \/ Unmoved(p)
    BY <2>2, <2>5
  <2>9. (Unmoved(p)' \/ (Emptied(p)' /\ op' = op)) /\ op'.failed = op.failed
    <3>1. CASE Done /\ UNCHANGED disk /\ Unmoved(p)
      BY <1>1, <3>1, GoFacts DEF Unmoved, Same, disk, Steps
    <3>2. CASE at' = [at EXCEPT ![p] = None] /\ UNCHANGED <<backup, saved, op, outcome>> /\ Placed(p)
      <4>1. at'[p] = None
        BY <3>2 DEF TypeOK
      <4> QED BY <1>1, <3>2, <4>1 DEF Placed, Emptied, BackedUp, Same
    <3>3. CASE /\ at' = [at EXCEPT ![p] = backup[p]] /\ Done
               /\ Emptied(p) /\ existed
      <4>1. at'[p] = backup[p]
        BY <3>3 DEF TypeOK
      <4> QED BY <1>1, <3>3, <4>1, GoFacts DEF Emptied, Unmoved, BackedUp, Same, Steps
    <3>4. Unmoved(p) /\ ~(existed /\ IsPreimage(at[p], p)) => ~existed /\ at[p] = None
      BY <2>4
    <3>5. ~existed => back /\ (Emptied(p) => Unmoved(p))
      BY DEF Emptied, Unmoved
    <3>6. existed /\ at[p] = None => ~IsPreimage(at[p], p) /\ ~Unmoved(p)
      BY DEF IsPreimage, Unmoved, Same
    <3> HIDE DEF existed, back, Done
    <3> QED BY <1>2, <2>2, <2>4, <2>5, <2>6, <2>7, <2>8, <3>1, <3>2, <3>3, <3>4, <3>5, <3>6, Zenon
  <2>10. \A q \in Targets \ {p} :
           /\ Unmoved(q)' = Unmoved(q) /\ Emptied(q)' = Emptied(q) /\ Placed(q)' = Placed(q)
    BY <1>1, <1>4, IntentFacts DEF Unmoved, Emptied, Placed, BackedUp, Same
  <2>11. Targets' = Targets /\ intentCommitted' = intentCommitted /\ before' = before
         /\ op'.step = "restore"
    BY <1>1, <1>3 DEF Targets, intentCommitted, history
  <2>12. \A q \in Targets : Unmoved(q)' \/ Emptied(q)' \/ Placed(q)'
    BY <1>1, <2>1, <2>9, <2>10 DEF TargetsFit
  <2>13. op'.failed = "no" => \A q \in Targets \ op'.todo : Unmoved(q)'
    BY <1>1, <1>3, <2>1, <2>9, <2>10 DEF TargetsFit
  <2>14. \A q \in Paths \ Targets : FileOf(at'[q]) = before.files[q]
    BY <1>1, <1>4, <2>1 DEF TargetsFit
  <2> QED BY <1>1, <2>9, <2>11, <2>12, <2>13, <2>14 DEF TargetsFit
<1>10. Reported' /\ Undisturbed'
  BY <1>1, <1>3, <1>9 DEF Reported, Undisturbed, history
<1> QED BY <1>5, <1>6, <1>7, <1>8, <1>10

-----------------------------------------------------------------------------
(* Beginning a change.                                                      *)

PlanFits(plan) ==
  /\ plan.place \in Manifests /\ plan.remove \in SUBSET Paths
  /\ plan.remove \cap Named(plan.place) = {}
  /\ plan.new \in Manifests /\ plan.drop \in Manifests /\ plan.originals \in Manifests
  /\ \A p \in Paths : plan.new[p] # None => saved[p] = None

LEMMA InstallPlanFits ==
  ASSUME SmapiAssumption, TypeOK, NEW v \in Versions, op.memory \in Memories
  PROVE  PlanFits(InstallPlan(v))
<1> DEFINE plan == InstallPlan(v)
           kept == Payload[v]
           placed == {Launcher, LauncherOld, Internal} \cup kept
           back == Restorable \ kept
           old == IF record = None THEN {} ELSE record.targets
<1>1. Originals \in Manifests
  BY DEF Originals, Nothing, Manifests, TypeOK, Installs
<1>2. kept \in SUBSET Paths /\ back \in SUBSET Paths /\ old \in SUBSET Paths
  BY <1>1 DEF SmapiAssumption, Paths, Restorable, Named, Manifests, TypeOK, Installs
<1>3. plan.place = [p \in Paths |-> IF p = LauncherOld THEN op.memory.launcher
                                    ELSE IF p \in placed THEN v
                                    ELSE IF p \in back THEN saved[p] ELSE None]
  BY DEF InstallPlan
<1>4. plan.place \in Manifests
  BY <1>3 DEF Manifests, Memories, TypeOK, Files
<1>5. plan.remove = {p \in (old \cup {Internal}) \ Named(plan.place) : at[p] # None}
  BY <1>3 DEF InstallPlan
<1>6. plan.remove \in SUBSET Paths /\ plan.remove \cap Named(plan.place) = {}
  BY <1>2, <1>5 DEF Paths
<1>7. plan.new = [p \in Paths |-> IF p \in Preserved(v) /\ saved[p] = None THEN FileOf(at[p]) ELSE None]
  BY DEF InstallPlan
<1>8. plan.new \in Manifests /\ \A p \in Paths : plan.new[p] # None => saved[p] = None
  BY <1>7 DEF Manifests, TypeOK, FileOf, Entry
<1>9. plan.drop = [p \in Paths |-> IF p \in back THEN saved[p] ELSE None]
      /\ plan.originals = [p \in Paths |-> IF p \notin kept THEN None
                                           ELSE IF p \in Preserved(v) THEN FileOf(at[p])
                                           ELSE Originals[p]]
  BY DEF InstallPlan
<1>10. plan.drop \in Manifests /\ plan.originals \in Manifests
  BY <1>1, <1>9 DEF Manifests, TypeOK, FileOf, Entry
<1> QED BY <1>4, <1>6, <1>8, <1>10 DEF PlanFits

LEMMA UninstallPlanFits ==
  ASSUME SmapiAssumption, TypeOK
  PROVE  PlanFits(UninstallPlan)
<1> DEFINE plan == UninstallPlan
           old == IF record = None THEN {} ELSE record.targets
<1>1. Originals \in Manifests
  BY DEF Originals, Nothing, Manifests, TypeOK, Installs
<1>2. old \in SUBSET Paths
  BY DEF TypeOK, Installs
<1>3. plan.place = [p \in Paths |-> IF p = Launcher /\ ~Vanilla(Launcher)
                                    THEN FileOf(at[LauncherOld])
                                    ELSE IF p \in Restorable THEN saved[p] ELSE None]
  BY DEF UninstallPlan
<1>4. plan.place \in Manifests
  BY <1>3 DEF Manifests, TypeOK, FileOf, Entry, Paths
<1>5. plan.remove = {p \in (old \cup {Internal, LauncherOld}) \ (Named(plan.place) \cup {Launcher}) :
                       at[p] # None}
  BY <1>3 DEF UninstallPlan
<1>6. plan.remove \in SUBSET Paths /\ plan.remove \cap Named(plan.place) = {}
  BY <1>2, <1>5 DEF Paths
<1>7. plan.drop = [p \in Paths |-> IF p \in Restorable THEN saved[p] ELSE None]
      /\ plan.new = Nothing /\ plan.originals = Nothing
  BY DEF UninstallPlan
<1>8. plan.new \in Manifests /\ plan.originals \in Manifests /\ plan.drop \in Manifests
      /\ \A p \in Paths : plan.new[p] = None
  BY <1>7 DEF Manifests, Nothing, TypeOK
<1> QED BY <1>4, <1>6, <1>8 DEF PlanFits

LEMMA PresentType ==
  ASSUME TypeOK
  PROVE  Present \in Outcomes
<1>1. \A p \in Paths : FileOf(at[p]) \in Files \cup {None}
  BY DEF TypeOK, FileOf, Entry
<1>2. VersionOf(record) \in Versions \cup {None}
  BY DEF TypeOK, VersionOf, Installs
<1> QED BY <1>1, <1>2 DEF Present, Outcomes, Manifests

LEMMA JournalKeeps ==
  ASSUME SmapiAssumption, SmapiInv, intent = None, ops < MaxOps,
         NEW kind \in {"install", "uninstall"}, NEW version \in Versions \cup {None},
         kind = "install" => version # None /\ op.memory # None,
         kind = "uninstall" => version = None,
         NEW plan, PlanFits(plan), Journal(kind, version, plan)
  PROVE  SmapiInv'
<1> USE DEF SmapiInv
<1> DEFINE targets == Named(plan.place) \cup plan.remove
           existing == [p \in Paths |-> IF p \in targets THEN at[p] ELSE None]
<1>1. /\ intent' = [id |-> ops + 1, kind |-> kind, version |-> version,
                    phase |-> "backing_up", place |-> plan.place, remove |-> plan.remove,
                    existing |-> existing,
                    new |-> plan.new, drop |-> plan.drop, originals |-> plan.originals]
      /\ op' = [op EXCEPT !.step = "save", !.todo = Named(plan.new)]
      /\ before' = Present /\ backup' = Nothing /\ ops' = ops + 1
      /\ UNCHANGED <<at, saved, record, outcome, faults, changes, own, config, disturbed, unseen>>
  BY DEF Journal
<1>2. existing \in [Paths -> Entry \cup {None}] /\ ops + 1 \in Nat /\ ops' \in 0..MaxOps
  BY <1>1 DEF TypeOK, SmapiAssumption
<1> HIDE DEF existing
<1>3. intent' \in Intents /\ intent' # None
  BY <1>1, <1>2 DEF PlanFits, Intents, SmapiAssumption
<1>4. /\ intent'.id = ops + 1 /\ intent'.kind = kind /\ intent'.version = version
      /\ intent'.phase = "backing_up" /\ intent'.place = plan.place
      /\ intent'.remove = plan.remove /\ intent'.existing = existing /\ intent'.new = plan.new
      /\ Targets' = targets
  BY <1>1 DEF Targets
<1>5. /\ op' \in Operations /\ op'.step = "save" /\ op'.failed = op.failed
      /\ op'.memory = op.memory
  BY <1>1 DEF TypeOK, Operations, Steps, PlanFits, Named, Manifests
<1>6. TypeOK'
  <2>1. backup' \in [Paths -> Entry \cup {None}]
    BY <1>1 DEF Nothing
  <2> QED BY <1>1, <1>2, <1>3, <1>5, <2>1, PresentType DEF TypeOK, Operations
<1>7. ~intentCommitted'
  BY <1>4 DEF intentCommitted
<1>8. StepsFit' /\ TodoFits' /\ Reported'
  BY <1>1, <1>3, <1>4, <1>5, <1>7 DEF StepsFit, TodoFits, Reported, Forward, Back
<1>9. SavedFits'
  BY <1>1, <1>4 DEF SavedFits, PlanFits
<1>10. \A p \in Paths : existing[p] = IF p \in targets THEN at[p] ELSE None
  BY DEF existing
<1>11. targets \in SUBSET Paths
  BY DEF PlanFits, Named, Manifests
<1>12. \A p \in Paths : before'.files[p] = FileOf(at[p])
  BY <1>1 DEF Present
<1>13. before'.version = VersionOf(record)
  BY <1>1 DEF Present
<1>14. PastOnly'
  <2>1. \A p \in Paths : at[p] # None => at[p].id \in Int
    BY DEF TypeOK, Entry
  <2>2. record # None => record.id \in Int
    BY DEF TypeOK, Installs
  <2>3. ops \in Int
    BY DEF TypeOK
  <2> QED BY <1>1, <2>1, <2>2, <2>3 DEF PastOnly, Nothing
<1> HIDE DEF targets
<1>15. IntentFits'
  <2>1. intent'.id <= ops' /\ intent'.remove \cap Named(intent'.place) = {}
        /\ (intent'.kind = "install") = (intent'.version # None)
    BY <1>1, <1>2, <1>4 DEF PlanFits
  <2>2. ASSUME NEW p \in Paths, existing[p] # None PROVE p \in targets /\ existing[p].id < ops + 1
    BY <2>2, <1>10 DEF PastOnly, TypeOK, Entry
  <2>3. record # None => record.id # intent'.id
    BY <1>4 DEF PastOnly, TypeOK, Installs
  <2>4. \A p \in targets : FileOf(existing[p]) = before'.files[p]
    BY <1>10, <1>11, <1>12
  <2> QED BY <1>1, <1>4, <1>13, <2>1, <2>2, <2>3, <2>4 DEF IntentFits, VersionOf
<1>16. Undisturbed'
  <2>1. \A p \in targets : Unmoved(p)'
    BY <1>1, <1>4, <1>10, <1>11 DEF Unmoved, Same
  <2>2. \A p \in Paths \ targets : FileOf(at'[p]) = before'.files[p]
    BY <1>1, <1>12
  <2>3. TargetsFit'
    BY <1>4, <1>5, <1>7, <2>1, <2>2 DEF TargetsFit
  <2> QED BY <2>3 DEF Undisturbed
<1> QED BY <1>6, <1>8, <1>9, <1>14, <1>15, <1>16

LEMMA BeginKeeps ==
  ASSUME SmapiAssumption, SmapiInv, PlanInstall \/ Uninstall
  PROVE  SmapiInv'
<1> USE DEF SmapiInv
<1>1. CASE PlanInstall
  <2>1. intent = None /\ op.memory \in Memories /\ ops < MaxOps /\ op.step = "plan"
    BY <1>1 DEF PlanInstall, StepsFit, TypeOK, Forward, Back
  <2> DEFINE v == op.memory.version
  <2>2. v \in Versions /\ v # None
    BY <2>1 DEF Memories, SmapiAssumption, Files
  <2>3. CASE Journal("install", v, InstallPlan(v))
    <3>1. PlanFits(InstallPlan(v))
      BY <2>1, <2>2, InstallPlanFits
    <3> HIDE DEF v
    <3> QED BY <2>1, <2>2, <2>3, <3>1, JournalKeeps DEF SmapiAssumption
  <2>4. CASE Refused
    <3>1. Still /\ saved' = saved
      BY <2>4 DEF Refused, disk, Records, Quiet, Bounds, history, Still, TypeOK
    <3> QED BY <2>4, <3>1, EndsKeeps DEF Refused, Results
  <2> QED BY <1>1, <2>3, <2>4 DEF PlanInstall
<1>2. CASE Uninstall
  BY <1>2, UninstallPlanFits, JournalKeeps DEF Uninstall
<1> QED BY <1>1, <1>2

-----------------------------------------------------------------------------
(* Others.                                                                  *)

LEMMA OthersKeep ==
  ASSUME SmapiAssumption, SmapiInv,
         (\E p \in Paths, f \in Files \cup {None} : Change(p, f)) \/ \E c \in Configs : EditConfig(c)
  PROVE  SmapiInv'
<1> USE DEF SmapiInv
<1>1. ASSUME NEW p \in Paths, NEW f \in Files \cup {None}, Change(p, f) PROVE SmapiInv'
  <2> DEFINE e == IF f = None THEN None ELSE [file |-> f, id |-> -changes', config |-> None]
  <2>1. /\ changes < MaxChanges /\ changes' = changes + 1 /\ at' = [at EXCEPT ![p] = e]
        /\ own' \in {own, [own EXCEPT ![p] = f]} /\ disturbed' = (disturbed \/ intent # None)
        /\ UNCHANGED <<backup, saved, op, outcome, ops, faults, config, before, unseen, record, intent>>
    BY <1>1 DEF Change, Records
  <2>2. changes' \in 0..MaxChanges /\ changes' > 0
    BY <2>1 DEF TypeOK, SmapiAssumption
  <2>3. e \in Entry \cup {None} /\ (e # None => e.id <= ops)
    BY <2>2, SMT DEF Entry, TypeOK
  <2> HIDE DEF e
  <2>4. at' \in [Paths -> Entry \cup {None}] /\ at'[p] = e /\ \A q \in Paths \ {p} : at'[q] = at[q]
    BY <2>1, <2>3 DEF TypeOK
  <2>5. disturbed' \in BOOLEAN
    BY <2>1, Zenon
  <2>6. TypeOK'
    BY <2>1, <2>2, <2>4, <2>5 DEF TypeOK, Manifests
  <2>7. StepsFit' /\ TodoFits' /\ IntentFits' /\ SavedFits'
    BY <2>1 DEF StepsFit, TodoFits, IntentFits, SavedFits, intentCommitted, Targets
  <2>8. PastOnly'
    BY <2>1, <2>3, <2>4 DEF PastOnly
  <2>9. Undisturbed' /\ Reported'
    <3>1. (disturbed => disturbed') /\ (~disturbed' => intent' = None)
      BY <2>1, Zenon
    <3> QED BY <2>1, <2>2, <3>1 DEF Undisturbed, Reported
  <2> QED BY <2>6, <2>7, <2>8, <2>9
<1>2. ASSUME NEW c \in Configs, EditConfig(c) PROVE SmapiInv'
  <2>1. /\ changes < MaxChanges /\ changes' = changes + 1 /\ at' = [at EXCEPT ![Internal].config = c]
        /\ at[Internal] # None /\ config' \in {None, c} /\ Internal \in Paths
        /\ unseen' = (unseen \/ (op.memory # None /\ op.memory.config = None))
        /\ UNCHANGED <<backup, saved, op, outcome, ops, faults, own, before, disturbed, record, intent>>
    BY <1>2 DEF EditConfig, Records, Paths
  <2>2. changes' \in 0..MaxChanges /\ changes' > 0
    BY <2>1 DEF TypeOK, SmapiAssumption
  <2>3. /\ at'[Internal] \in Entry /\ at'[Internal].id = at[Internal].id
        /\ at'[Internal].file = at[Internal].file /\ at'[Internal] # None
        /\ at' \in [Paths -> Entry \cup {None}] /\ \A q \in Paths \ {Internal} : at'[q] = at[q]
    <3>1. at[Internal] \in Entry
      BY <2>1 DEF TypeOK
    <3>2. at' = [at EXCEPT ![Internal] = [at[Internal] EXCEPT !.config = c]]
      BY <2>1
    <3>3. [at[Internal] EXCEPT !.config = c] \in Entry
      BY <3>1 DEF Entry
    <3>4. at'[Internal] = [at[Internal] EXCEPT !.config = c]
      BY <2>1, <3>2 DEF TypeOK
    <3>5. at'[Internal].id = at[Internal].id /\ at'[Internal].file = at[Internal].file
      BY <3>1, <3>4 DEF Entry
    <3> QED BY <2>1, <3>2, <3>3, <3>4, <3>5 DEF TypeOK, SmapiAssumption
  <2>4. unseen' \in BOOLEAN
    BY <2>1, Zenon DEF TypeOK
  <2>5. TypeOK'
    BY <2>1, <2>2, <2>3, <2>4 DEF TypeOK
  <2>6. StepsFit' /\ TodoFits' /\ IntentFits' /\ SavedFits'
    BY <2>1 DEF StepsFit, TodoFits, IntentFits, SavedFits, intentCommitted, Targets
  <2>7. PastOnly' /\ Reported'
    BY <2>1, <2>2, <2>3 DEF PastOnly, Reported
  <2>8. \A q \in Paths : FileOf(at'[q]) = FileOf(at[q]) /\ (at'[q] = None <=> at[q] = None)
                         /\ (at[q] # None => at'[q].id = at[q].id /\ at'[q].file = at[q].file)
    BY <2>1, <2>3 DEF FileOf
  <2>9. intent # None => \A q \in Targets : /\ Unmoved(q) => Unmoved(q)'
                                            /\ Emptied(q) => Emptied(q)'
                                            /\ (Placed(q) => Placed(q)') /\ (Final(q) => Final(q)')
    BY <2>1, <2>8, IntentFacts DEF Unmoved, Emptied, Placed, BackedUp, Same, Final
  <2>10. Undisturbed'
    <3>1. Targets' = Targets /\ intentCommitted' = intentCommitted
      BY <2>1 DEF Targets, intentCommitted
    <3>2. ASSUME intent # None, ~disturbed PROVE TargetsFit'
      <4>1. TargetsFit
        BY <3>2 DEF Undisturbed
      <4>2. \A q \in Paths \ Targets : FileOf(at'[q]) = before.files[q]
        BY <2>8, <4>1 DEF TargetsFit
      <4>3. \A q \in Targets : /\ Unmoved(q) => Unmoved(q)'
                               /\ Emptied(q) => Emptied(q)'
                               /\ (Placed(q) => Placed(q)') /\ (Final(q) => Final(q)')
        BY <2>9, <3>2
      <4>4. op' = op /\ before' = before
        BY <2>1
      <4>5. ~intentCommitted => \A q \in Targets : Unmoved(q)' \/ Emptied(q)' \/ Placed(q)'
        BY <4>1, <4>3 DEF TargetsFit
      <4>6. op.step \in {"save", "unsave"} => \A q \in Targets : Unmoved(q)'
        BY <4>1, <4>3 DEF TargetsFit
      <4>7. op.step = "backup" => \A q \in Targets : IF q \in op.todo THEN Unmoved(q)' ELSE Emptied(q)'
        BY <4>1, <4>3 DEF TargetsFit
      <4>8. op.step = "place" => \A q \in Targets : IF q \in op.todo THEN Emptied(q)' ELSE Final(q)'
        BY <4>1, <4>3 DEF TargetsFit
      <4>9. op.step = "restore" /\ op.failed = "no" => \A q \in Targets \ op.todo : Unmoved(q)'
        BY <4>1, <4>3 DEF TargetsFit
      <4>10. op.step = "commit" \/ intentCommitted => \A q \in Targets : Final(q)'
        BY <4>1, <4>3 DEF TargetsFit
      <4> QED BY <3>1, <4>2, <4>4, <4>5, <4>6, <4>7, <4>8, <4>9, <4>10 DEF TargetsFit
    <3> QED BY <2>1, <3>2 DEF Undisturbed
  <2> QED BY <2>5, <2>6, <2>7, <2>10
<1> QED BY <1>1, <1>2

LEMMA NextSmapi ==
  ASSUME SmapiAssumption, SmapiInv, [Next]_vars
  PROVE  SmapiInv'
<1>1. CASE UNCHANGED vars
  BY <1>1 DEF vars, disk, history, SmapiInv, TypeOK, StepsFit, TodoFits, IntentFits, PastOnly, SavedFits,
     Undisturbed, TargetsFit, Targets, Unmoved, Emptied, Placed, BackedUp, Final, Reported, intentCommitted
<1>2. CASE Executes
  BY <1>2, SaveKeeps, BackUpKeeps, PlaceKeeps, RestingKeeps, PhaseKeeps, CommitKeeps, ClosingKeeps
  DEF Executes
<1>3. CASE RollsBackOrRecovers
  BY <1>3, RestoreKeeps, UnsaveKeeps, FailureKeeps, RestingKeeps, ClosingKeeps DEF RollsBackOrRecovers
<1> QED BY <1>1, <1>2, <1>3, RestingKeeps, BeginKeeps, OthersKeep DEF Next

-----------------------------------------------------------------------------
(* The abstract change.                                                     *)

Atomic == INSTANCE AtomicChange WITH
  Values <- Outcomes, RollsBack <- TRUE, settled <- Settled, intended <- Intended

LEMMA InitAbstract == SmapiAssumption /\ Init => Atomic!Init
<1> SUFFICES ASSUME SmapiAssumption, Init PROVE Settled \in Outcomes /\ Intended = None
  BY DEF Atomic!Init
<1>1. TypeOK /\ intent = None /\ changes = 0
  BY InitSmapi DEF Init, SmapiInv
<1> QED BY <1>1, PresentType DEF Settled, Intended, SmapiAssumption

\* Until somebody changes something, a step begins a change, ends one, or leaves
\* what AtomicChange sees.
LEMMA StepKinds ==
  ASSUME SmapiAssumption, SmapiInv, Next, changes' = 0
  PROVE  \/ UNCHANGED <<at, record, changes>> /\ intent = None /\ intent' = None
         \/ /\ UNCHANGED <<at, changes>> /\ intent = None /\ intent' # None
            /\ before' = Present
         \/ removeIntent /\ UNCHANGED changes
         \/ /\ UNCHANGED <<before, changes>> /\ intent # None /\ intent' # None
            /\ UNCHANGED <<intent.place, intent.remove, intent.version>>
<1> USE DEF SmapiInv
<1>1. CASE (\E v \in Versions : Stage(v)) \/ PlanInstall \/ Uninstall
  <2>1. intent = None
    BY <1>1 DEF Stage, PlanInstall, Uninstall, StepsFit, Forward, Back
  <2>2. CASE UNCHANGED <<at, record, intent, changes>>
    BY <2>1, <2>2
  <2>3. ASSUME NEW kind, NEW version, NEW plan, Journal(kind, version, plan)
        PROVE  UNCHANGED <<at, changes>> /\ before' = Present
    BY <2>3 DEF Journal
  <2>4. (\E kind, version, plan : Journal(kind, version, plan)) \/ UNCHANGED <<at, record, intent, changes>>
    BY <1>1, Zenon DEF Stage, PlanInstall, Uninstall, Refused, Records, disk, Quiet, Bounds
  <2>5. CASE intent' = None
    <3>1. ASSUME NEW kind, NEW version, NEW plan, Journal(kind, version, plan)
          PROVE  UNCHANGED record
      BY <3>1 DEF Journal
    <3> QED BY <2>1, <2>2, <2>3, <2>4, <2>5, <3>1
  <2> QED BY <2>1, <2>2, <2>3, <2>4, <2>5
<1>2. CASE Error \/ Crash \/ cleanupOp \/ Sweep
  <2>1. UNCHANGED <<at, record, intent, before, changes>>
    BY <1>2 DEF Error, Crash, cleanupOp, Sweep, disk, history, Records, Quiet, Bounds
  <2> QED BY <2>1
<1>3. CASE Saved \/ Recover \/ Restored \/ writeRecord \/ removeRecord
  <2>1. intent # None /\ UNCHANGED <<intent, before, changes>>
    BY <1>3 DEF Saved, Recover, Restored, writeRecord, removeRecord, Records, Quiet, Bounds, history,
       StepsFit
  <2> QED BY <2>1
<1>4. ASSUME NEW p \in Paths,
             \/ SaveOriginal(p) \/ BackUp(p) \/ Place(p) \/ dropOriginal(p)
             \/ Restore(p) \/ dropNewOriginal(p) \/ RestoreFails(p)
      PROVE  intent # None /\ UNCHANGED <<intent, before, changes>>
  <2>1. intent # None
    BY <1>4 DEF SaveOriginal, BackUp, Place, dropOriginal, Restore, dropNewOriginal, RestoreFails, StepsFit
  <2>2. CASE SaveOriginal(p) \/ BackUp(p) \/ Place(p)
    BY <2>1, <2>2 DEF SaveOriginal, BackUp, Place, Fails, Records, Quiet, Bounds, history
  <2>3. CASE dropOriginal(p) \/ Restore(p) \/ dropNewOriginal(p) \/ RestoreFails(p)
    BY <2>1, <2>3 DEF dropOriginal, Restore, dropNewOriginal, RestoreFails, Records, Quiet, Bounds, history
  <2> QED BY <1>4, <2>2, <2>3
<1>5. CASE setPhase("backup", "placing", "place", Named(intent.place))
           \/ setPhase("place", "committing", "commit", {})
  <2>1. intent # None /\ UNCHANGED <<before, changes>>
    BY <1>5 DEF setPhase, Quiet, Bounds, history, StepsFit
  <2>2. \E phase \in {"placing", "committing"} : intent' = [intent EXCEPT !.phase = phase]
    BY <1>5 DEF setPhase
  <2>3. intent' # None /\ UNCHANGED <<intent.place, intent.remove, intent.version>>
    BY <2>1, <2>2, IntentFacts DEF Intents, SmapiAssumption
  <2> QED BY <2>1, <2>3
<1>6. CASE removeIntent
  BY <1>6 DEF removeIntent, Quiet, Bounds
<1>7. ASSUME (\E p \in Paths, f \in Files \cup {None} : Change(p, f)) \/ \E c \in Configs : EditConfig(c)
      PROVE  FALSE
  BY <1>7 DEF Change, EditConfig, TypeOK
<1>8. CASE \E p \in Paths :
             \/ SaveOriginal(p) \/ BackUp(p) \/ Place(p) \/ dropOriginal(p)
             \/ Restore(p) \/ dropNewOriginal(p) \/ RestoreFails(p)
  BY <1>4, <1>8
<1> QED BY <1>1, <1>2, <1>3, <1>5, <1>6, <1>7, <1>8 DEF Next, Executes, RollsBackOrRecovers

\* What is intended is a value of AtomicChange.
LEMMA IntendedType ==
  ASSUME SmapiAssumption, NEW i \in Intents, NEW b \in Outcomes
  PROVE  [files |-> [p \in Paths |->
                       IF i.place[p] # None THEN i.place[p]
                       ELSE IF p \in i.remove THEN None ELSE b.files[p]],
          version |-> i.version] \in Outcomes
<1>1. i.place \in [Paths -> Files \cup {None}] /\ i.version \in Versions \cup {None}
      /\ b.files \in [Paths -> Files \cup {None}]
  BY DEF Intents, Outcomes, Manifests
<1> QED BY <1>1 DEF Outcomes, Manifests

\* Ending an intent makes what is there the intended, or what was there before.
LEMMA IntentEnds ==
  ASSUME SmapiAssumption, SmapiInv, removeIntent, changes = 0, UNCHANGED changes
  PROVE  /\ intent # None /\ intent' = None
         /\ Present' = Intended \/ Present' = before
<1> USE DEF SmapiInv
<1>1. /\ intent # None /\ intent' = None /\ op.step \in {"drop", "unsave"}
      /\ UNCHANGED <<at, record>> /\ ~disturbed
  BY DEF removeIntent, StepsFit, Forward, Back, disk, Reported
<1>2. TargetsFit
  BY <1>1 DEF Undisturbed
<1>3. Present' = [files |-> [p \in Paths |-> FileOf(at[p])], version |-> VersionOf(record)]
  BY <1>1 DEF Present
<1>4. CASE op.step = "drop"
  <2>1. VersionOf(record) = intent.version
    BY <1>1, <1>4, IntentFacts DEF StepsFit, intentCommitted, IntentFits, VersionOf
  <2>2. \A p \in Paths : FileOf(at[p]) = IF intent.place[p] # None THEN intent.place[p]
                                         ELSE IF p \in intent.remove THEN None ELSE before.files[p]
    BY <1>1, <1>2, <1>4, IntentFacts DEF StepsFit, TargetsFit, Final, Targets, Named, Manifests
  <2>3. Present' = Intended
    BY <1>1, <1>3, <2>1, <2>2 DEF Intended
  <2> QED BY <1>1, <2>3
<1>5. CASE op.step = "unsave"
  <2>1. VersionOf(record) = before.version
    BY <1>1, <1>5 DEF StepsFit, Back, IntentFits
  <2>2. \A p \in Targets : FileOf(at[p]) = FileOf(intent.existing[p])
    BY <1>2, <1>5 DEF TargetsFit, Unmoved, Same, FileOf
  <2>3. \A p \in Paths : FileOf(at[p]) = before.files[p]
    BY <1>1, <1>2, <2>2 DEF TargetsFit, IntentFits
  <2>4. before = [files |-> before.files, version |-> before.version]
        /\ before.files = [p \in Paths |-> before.files[p]]
    BY DEF TypeOK, Outcomes, Manifests
  <2>5. Present' = before
    BY <1>3, <2>1, <2>3, <2>4
  <2> QED BY <1>1, <2>5
<1> QED BY <1>1, <1>4, <1>5

LEMMA StepAbstract ==
  ASSUME SmapiAssumption, SmapiInv, SmapiInv', [Next]_vars
  PROVE  [Atomic!Next]_<<Settled, Intended>>
<1>1. CASE changes' > 0
  <2>1. Settled' = Unknown /\ Intended' = None
    BY <1>1 DEF Settled, Intended
  <2> QED BY <2>1 DEF Atomic!Next, Atomic!Interfere
<1>2. CASE UNCHANGED vars
  BY <1>2 DEF vars, disk, history, Settled, Intended, Present
<1>3. CASE Next /\ changes' = 0
  <2>1. TypeOK /\ TypeOK' /\ before \in Outcomes
    BY DEF SmapiInv, TypeOK
  <2>2. CASE UNCHANGED <<at, record, changes>> /\ intent = None /\ intent' = None
    BY <1>3, <2>2 DEF Settled, Intended, Present
  <2>3. CASE UNCHANGED <<at, changes>> /\ intent = None /\ intent' # None /\ before' = Present
    <3>1. Settled = Present /\ Settled' = Present /\ Intended = None /\ Settled # Unknown
      BY <1>3, <2>1, <2>3, PresentType DEF Settled, Intended, SmapiAssumption
    <3>2. Intended' \in Outcomes
      <4>1. intent' \in Intents /\ before' \in Outcomes
        BY <2>1, <2>3 DEF TypeOK
      <4>2. Intended' = [files |-> [p \in Paths |->
                                      IF intent'.place[p] # None THEN intent'.place[p]
                                      ELSE IF p \in intent'.remove THEN None ELSE before'.files[p]],
                         version |-> intent'.version]
        BY <1>3, <2>3 DEF Intended
      <4> QED BY <4>1, <4>2, IntendedType
    <3> QED BY <3>1, <3>2 DEF Atomic!Next, Atomic!Intend
  <2>4. CASE removeIntent /\ UNCHANGED changes
    <3>1. intent # None /\ intent' = None /\ (Present' = Intended \/ Present' = before)
      BY <1>3, <2>4, IntentEnds
    <3>2. Intended # None
      BY <1>3, <2>1, <2>4, <3>1, IntendedType DEF Intended, SmapiAssumption, TypeOK
    <3>3. Settled = before /\ Settled' = Present' /\ Intended' = None
      BY <1>3, <2>4, <3>1 DEF Settled, Intended
    <3> QED BY <3>1, <3>2, <3>3 DEF Atomic!Next, Atomic!TakeEffect, Atomic!RollBack
  <2>5. CASE /\ UNCHANGED <<before, changes>> /\ intent # None /\ intent' # None
             /\ UNCHANGED <<intent.place, intent.remove, intent.version>>
    BY <1>3, <2>5 DEF Settled, Intended
  <2> QED BY <1>3, <2>2, <2>3, <2>4, <2>5, StepKinds
<1>4. changes' \in Nat
  BY DEF SmapiInv, TypeOK
<1> QED BY <1>1, <1>2, <1>3, <1>4

-----------------------------------------------------------------------------
(* The theorems.                                                            *)

\* The invariant holds in every reachable state.
THEOREM SmapiInvariance ==
  ASSUME SmapiAssumption
  PROVE  Spec => []SmapiInv
BY InitSmapi, NextSmapi, PTL DEF Spec

\* Every variable keeps its type.
THEOREM SmapiTypeCorrect ==
  ASSUME SmapiAssumption
  PROVE  Spec => []TypeOK
<1>1. SmapiInv => TypeOK
  BY DEF SmapiInv
<1> QED BY <1>1, SmapiInvariance, PTL

\* A crash or a failed call never makes recovery give up, unless somebody else
\* changes the files an unfinished change is about (txn.go, rollback).
THEOREM RollbackGoesOn ==
  ASSUME SmapiAssumption
  PROVE  Spec => []CrashIsRecoverable
<1>1. SmapiInv => CrashIsRecoverable
  BY DEF SmapiInv, Reported, CrashIsRecoverable
<1> QED BY <1>1, SmapiInvariance, PTL

\* Installing, replacing or removing SMAPI takes effect as a whole - files and
\* record - or leaves everything as it was (txn.go:176).
THEOREM InstallsAreAtomic ==
  ASSUME SmapiAssumption
  PROVE  Spec => Atomic!Spec
<1>1. Init => Atomic!Init
  BY InitAbstract
<1>2. SmapiInv /\ SmapiInv' /\ [Next]_vars => [Atomic!Next]_<<Settled, Intended>>
  BY StepAbstract
<1> QED BY <1>1, <1>2, SmapiInvariance, PTL DEF Spec, Atomic!Spec
=============================================================================
