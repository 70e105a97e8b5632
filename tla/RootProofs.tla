----------------------------- MODULE RootProofs -----------------------------
(***************************************************************************)
(* Proofs about RootDeployment, for every set of paths, mods, mod lists    *)
(* and versions of the game's files, and any number of faults and changes. *)
(*                                                                         *)
(* The invariant says where each path is while an intent is on disk        *)
(* (Between), that the operation in progress leaves the paths behind it as *)
(* desired (Passed), and that both manifests of the intent know the game's *)
(* own files (Honest).  So the disk is as the old manifest has it or the   *)
(* new one can be reached, whatever was interrupted; the settled and the   *)
(* intended links are those of AtomicChange.                               *)
(***************************************************************************)
EXTENDS RootDeployment, FiniteSetTheorems, WellFoundedInduction, TLAPS

(* A finite set of naturals has a greatest element: no other element has   *)
(* fewer elements after it.                                                *)
LEMMA MaxOf ==
  ASSUME NEW n \in Nat, NEW S \in SUBSET (1..n), S # {}
  PROVE  Max(S) \in S
<1> DEFINE After(i) == {j \in S : i < j}
           Sets == {After(i) : i \in S}
<1>1. IsFiniteSet(S)
  <2>1. IsFiniteSet(1..n) BY FS_Interval
  <2> QED BY <2>1, FS_Subset
<1>2. IsWellFoundedOn(StrictSubsetOrdering(S), SUBSET S)
  BY <1>1, FS_StrictSubsetOrderingWellFounded, FS_FiniteSubsetsOfFinite
<1>3. Sets \subseteq SUBSET S /\ Sets # {}
  OBVIOUS
<1>4. \E x \in Sets : \A y \in Sets : <<y, x>> \notin StrictSubsetOrdering(S)
  <2> HIDE DEF Sets
  <2> QED BY <1>2, <1>3, WFMin
<1>5. PICK i \in S : \A j \in S : <<After(j), After(i)>> \notin StrictSubsetOrdering(S)
  BY <1>4
<1>6. ASSUME NEW j \in S, i < j PROVE FALSE
  <2>0. S \subseteq Int OBVIOUS
  <2>1. After(j) \subseteq After(i)
    <3>1. ASSUME NEW k \in S, j < k PROVE i < k
      <4>1. i \in Int /\ j \in Int /\ k \in Int /\ i < j BY <1>6, <2>0
      <4> HIDE DEF Sets, After
      <4> QED BY <4>1, <3>1
    <3> QED BY <3>1
  <2>2. j \in After(i) /\ j \notin After(j) BY <1>6
  <2>3. After(j) \in SUBSET S /\ After(i) \in SUBSET S OBVIOUS
  <2> HIDE DEF After
  <2>4. <<After(j), After(i)>> \in StrictSubsetOrdering(S)
    BY <2>1, <2>2, <2>3 DEF StrictSubsetOrdering
  <2> QED BY <2>4, <1>5
<1>7. \A j \in S : i >= j
  BY <1>6
<1> HIDE DEF Sets
<1> QED BY <1>7 DEF Max

(* The plan of a mod list names a mod or nothing for each path.            *)
LEMMA PlanType ==
  ASSUME RootAssumption, NEW order \in Orders
  PROVE  Plan(order) \in [Paths -> Mods \cup {None}]
<1> SUFFICES ASSUME NEW p \in Paths
             PROVE  Plan(order)[p] \in Mods \cup {None}
  BY DEF Plan
<1> DEFINE offers == {i \in DOMAIN order : order[i] \in present /\ p \in Provides[order[i]]}
<1>1. order \in Seq(Mods)
  BY DEF RootAssumption
<1>2. Len(order) \in Nat /\ offers \in SUBSET (1..Len(order))
  BY <1>1
<1>3. Plan(order)[p] = IF offers = {} THEN None ELSE order[Max(offers)]
  BY DEF Plan
<1>4. offers # {} => Max(offers) \in offers
  BY <1>2, MaxOf
<1>5. offers # {} => order[Max(offers)] \in Mods
  BY <1>1, <1>2, <1>4
<1> QED BY <1>3, <1>5

-----------------------------------------------------------------------------
(* The invariant.                                                           *)

\* What a step works on is named by the intent.
OpFits ==
  /\ op.step # "idle" => intent # None
  /\ op.step = "idle" => op = NoOp
  /\ op.step = "remove" => op.todo \subseteq Entries(intent.previous) \ Entries(intent.desired)
  /\ op.step = "install" => op.todo \subseteq Entries(intent.desired)

RootTyped == TypeOK /\ OpFits

LEMMA DesiredType ==
  ASSUME RootAssumption, TypeOK, NEW plan \in [Paths -> Mods \cup {None}], CanDescribe(plan)
  PROVE  /\ Desired(plan) \in Manifests
         /\ \A p \in Paths : Desired(plan).files[p] =
              IF plan[p] = None THEN None
              ELSE [source |-> plan[p],
                    backup |-> IF manifest.files[p] # None
                               THEN manifest.files[p].backup ELSE dest[p]]
         /\ \A p \in Paths : Desired(plan).files[p] = None <=> plan[p] = None
<1> DEFINE file(p) == IF plan[p] = None THEN None
                      ELSE [source |-> plan[p],
                            backup |-> IF manifest.files[p] # None
                                       THEN manifest.files[p].backup ELSE dest[p]]
           files == [p \in Paths |-> file(p)]
<1>1. \A p \in Paths : file(p) \in Entry \cup {None} /\ (plan[p] # None => file(p) \in Entry)
  BY DEF TypeOK, CanDescribe, Manifests, Entry, Held
<1>6. \A p \in Paths : file(p) = None <=> plan[p] = None
  BY <1>1 DEF RootAssumption
<1>2. Desired(plan).files = files
  BY DEF Desired
<1>3. Desired(plan).made \in BOOLEAN
  BY DEF Desired, TypeOK, Manifests
<1>4. files \in [Paths -> Entry \cup {None}]
  BY <1>1
<1>5. Desired(plan) = [files |-> Desired(plan).files, made |-> Desired(plan).made]
  BY DEF Desired
<1> HIDE DEF file
<1>7. \A p \in Paths : files[p] = file(p)
  OBVIOUS
<1> QED BY <1>2, <1>3, <1>4, <1>5, <1>6, <1>7 DEF Manifests, file

LEMMA InitTyped == RootAssumption /\ Init => RootTyped
<1> SUFFICES ASSUME RootAssumption, Init PROVE RootTyped
  OBVIOUS
<1>1. Empty \in Manifests
  BY DEF Empty, Manifests
<1>2. dest \in [Paths -> Mods \cup Held] /\ backup \in [Paths -> Held] /\ own \in [Paths -> Held]
  BY DEF Init, Held
<1>3. op \in [step : Steps, todo : SUBSET Paths] /\ op.step = "idle"
  BY DEF Init, NoOp, Steps
<1>4. faults \in 0..MaxFaults /\ changes \in 0..MaxChanges
  BY DEF Init, RootAssumption
<1>5. /\ folder \in BOOLEAN /\ manifest \in Manifests /\ intent = None /\ present \subseteq Mods
      /\ outcome \in {"none", "ok", "pending", "error"} /\ disturbed \in BOOLEAN /\ op = NoOp
  BY <1>1 DEF Init
<1> QED BY <1>2, <1>3, <1>4, <1>5 DEF RootTyped, TypeOK, OpFits

\* Each step of an operation keeps the types, and works on what the intent names.
LEMMA ReconcileTyped ==
  ASSUME RootAssumption, RootTyped, Reconciles
  PROVE  RootTyped'
<1> USE DEF RootTyped, TypeOK, OpFits, Only, Go, Ends, Drift, disk, history, NoOp, Steps
<1>0. op.step # "idle" => /\ intent \in Intents /\ intent.previous \in Manifests
                          /\ intent.desired \in Manifests
  BY DEF Intents
<1>1. ASSUME NEW p \in Paths, RemoveStep(p) PROVE RootTyped'
  <2>1. intent.previous.files[p] \in Entry
    BY <1>0, <1>1 DEF RemoveStep, Manifests, Entries
  <2> QED BY <1>1, <2>1 DEF RemoveStep, Restored, Entry, Held
<1>2. ASSUME NEW p \in Paths, Install(p) PROVE RootTyped'
  <2>1. intent.desired.files[p] \in Entry
    BY <1>0, <1>2 DEF Install, Manifests, Entries
  <2>2. intent.previous.files[p] \in Entry \cup {None}
    BY <1>0, <1>2 DEF Install, Manifests
  <2> QED BY <1>2, <2>1, <2>2 DEF Install, Relink, Link, Entry, Held, RootAssumption
<1>3. ASSUME Removed PROVE RootTyped'
  BY <1>3 DEF Removed
<1>4. ASSUME MakeFolder PROVE RootTyped'
  BY <1>0, <1>4 DEF MakeFolder, Manifests, Entries
<1>5. ASSUME Installed PROVE RootTyped'
  BY <1>5 DEF Installed
<1>6. ASSUME Tidy PROVE RootTyped'
  BY <1>0, <1>6 DEF Tidy, Manifests
<1>7. ASSUME writeCommittedManifest PROVE RootTyped'
  BY <1>0, <1>7 DEF writeCommittedManifest
<1>8. ASSUME removeIntent PROVE RootTyped'
  BY <1>8 DEF removeIntent
<1> QED BY <1>1, <1>2, <1>3, <1>4, <1>5, <1>6, <1>7, <1>8 DEF Reconciles

\* So do beginnings of operations, interruptions, and the surroundings.
LEMMA BeginTyped ==
  ASSUME RootAssumption, RootTyped, NEW desired \in Manifests, Begin(desired)
  PROVE  RootTyped'
<1> USE DEF RootTyped, TypeOK, OpFits, Only, disk, history, NoOp, Steps
<1>1. intent' \in Intents /\ intent' # None
  BY DEF Begin, Intents, RootAssumption
<1>2. op' \in [step : Steps, todo : SUBSET Paths] /\ op'.step = "remove"
  BY DEF Begin, Reconcile, Entries
<1> QED BY <1>1, <1>2 DEF Begin, Reconcile, Entries

LEMMA NextTyped ==
  ASSUME RootAssumption, RootTyped, [Next]_vars
  PROVE  RootTyped'
<1> USE DEF RootTyped, TypeOK, OpFits, Only, Ends, Drift, disk, history, NoOp, Steps
<1>1. CASE RecoverIntent
  BY <1>1 DEF RecoverIntent, Reconcile, Entries
<1>2. CASE Refuse
  BY <1>2 DEF Refuse, Idle
<1>3. CASE Deactivate
  <2>1. Empty \in Manifests
    BY DEF Empty, Manifests
  <2> QED BY <1>3, <2>1, BeginTyped DEF Deactivate
<1>4. ASSUME NEW order \in Orders, Apply(order) PROVE RootTyped'
  BY <1>4, PlanType, DesiredType, BeginTyped DEF Apply
<1>5. CASE Reconciles
  BY <1>5, ReconcileTyped
<1>6. CASE Interrupted
  BY <1>6 DEF Interrupted, RootAssumption
<1>7. ASSUME NEW p \in Paths, NEW file \in Held, Change(p, file) PROVE RootTyped'
  BY <1>7 DEF Change, RootAssumption, Idle
<1>8. ASSUME NEW m \in Mods, ModFolder(m) PROVE RootTyped'
  BY <1>8 DEF ModFolder, RootAssumption, Idle
<1>9. CASE UNCHANGED vars
  BY <1>9 DEF vars
<1> QED BY <1>1, <1>2, <1>3, <1>4, <1>5, <1>6, <1>7, <1>8, <1>9
     DEF Next, Operates, Surroundings

-----------------------------------------------------------------------------
(* Files of the game.                                                       *)

\* No step of an operation loses one: a path is unlinked only where its own
\* mod's link is, restored where nothing is, and linked where nothing is left.
LEMMA StepKeepsGameFiles ==
  ASSUME RootAssumption, RootTyped, [Next]_vars
  PROVE  KeepsGameFiles
<1> USE DEF Only, disk, Go, Ends, Drift
<1> SUFFICES ASSUME Operates
             PROVE  \A p \in Paths :
                      {dest[p], backup[p]} \cap GameFiles \subseteq {dest'[p], backup'[p]}
  BY DEF KeepsGameFiles
<1>1. ASSUME UNCHANGED <<dest, backup>>
      PROVE  \A p \in Paths :
               {dest[p], backup[p]} \cap GameFiles \subseteq {dest'[p], backup'[p]}
  BY <1>1
<1>0. op.step # "idle" => /\ intent \in Intents /\ intent.previous \in Manifests
                          /\ intent.desired \in Manifests
  BY DEF RootTyped, TypeOK, OpFits, Intents
<1>2. ASSUME NEW p \in Paths, RemoveStep(p)
      PROVE  \A q \in Paths :
               {dest[q], backup[q]} \cap GameFiles \subseteq {dest'[q], backup'[q]}
  <2>1. intent.previous.files[p] \in Entry
    BY <1>0, <1>2 DEF RemoveStep, Manifests, Entries, RootTyped, OpFits
  <2> QED BY <1>2, <2>1 DEF RemoveStep, Restored, Entry, Held, RootAssumption, RootTyped, TypeOK
<1>3. ASSUME NEW p \in Paths, Install(p)
      PROVE  \A q \in Paths :
               {dest[q], backup[q]} \cap GameFiles \subseteq {dest'[q], backup'[q]}
  <2>1. intent.desired.files[p] \in Entry
    BY <1>0, <1>3 DEF Install, Manifests, Entries, RootTyped, OpFits
  <2>2. intent.previous.files[p] \in Entry \cup {None}
    BY <1>0, <1>3 DEF Install, Manifests
  <2> QED BY <1>3, <2>1, <2>2 DEF Install, Relink, Link, Entry, Held, RootAssumption, RootTyped, TypeOK
<1>4. CASE Reconciles
  BY <1>1, <1>2, <1>3, <1>4 DEF Reconciles, Removed, MakeFolder, Installed, Tidy,
     writeCommittedManifest, removeIntent
<1> QED BY <1>1, <1>4 DEF Operates, RecoverIntent, Refuse, Deactivate, Apply, Begin, Interrupted

-----------------------------------------------------------------------------
(* The disk during an operation.                                            *)

\* A path as a manifest has it: the game's own file, or a link over it.
As(m, p) ==
  /\ dest[p] = IF m.files[p] = None THEN own[p] ELSE m.files[p].source
  /\ backup[p] = IF m.files[p] = None THEN None ELSE own[p]

\* A path as the intent desires it.
Ready(p) == As(intent.desired, p)

\* A manifest knows the game's own file under each link.
Honest(m) == \A p \in Entries(m) : m.files[p].backup = own[p]

\* Under an intent each path is as before or as desired; or, where a link comes
\* or goes, empty with the original in the backup tree.
Between(p) ==
  \/ As(intent.previous, p)
  \/ Ready(p)
  \/ /\ dest[p] = None /\ backup[p] = own[p]
     /\ intent.previous.files[p] = None \/ intent.desired.files[p] = None
     /\ intent.previous.files[p] # intent.desired.files[p]

\* The operation has dealt with the path.
Passed(p) ==
  /\ op.step # "idle"
  /\ op.step \in {"remove", "install"} => p \notin op.todo
  /\ op.step \in {"remove", "mkdir"} => intent.desired.files[p] = None

Attained == \A p \in Paths : Ready(p)

Underway ==
  /\ Honest(intent.previous) /\ Honest(intent.desired)
  /\ \A p \in Paths : Between(p) /\ (Passed(p) => Ready(p))
  /\ manifest = intent.previous \/ (manifest = intent.desired /\ Attained)
  /\ op.step = "intent" => manifest = intent.desired

AtPeace == Honest(manifest) /\ \A p \in Paths : As(manifest, p)

Whole == ~disturbed => IF intent = None THEN AtPeace ELSE Underway

LEMMA InitWhole == RootAssumption /\ Init => Whole
BY DEF Init, Whole, AtPeace, Honest, Entries, As, Empty

\* A step that keeps the records has to keep the paths.
LEMMA PathsSuffice ==
  ASSUME Underway, UNCHANGED <<intent, manifest, own>>, op'.step # "intent",
         \A q \in Paths : Between(q)' /\ (Ready(q) => Ready(q)') /\ (Passed(q)' => Ready(q)')
  PROVE  Underway'
<1>1. (Honest(intent.previous) /\ Honest(intent.desired))'
  BY DEF Underway, Honest, Entries
<1>2. Attained => Attained'
  BY DEF Attained
<1> QED BY <1>1, <1>2 DEF Underway

\* What is known of a path that a step removes.
LEMMA RemoveFacts ==
  ASSUME RootTyped, NEW p \in Paths, RemoveStep(p)
  PROVE  /\ intent # None /\ op.step = "remove" /\ p \in op.todo
         /\ intent.previous.files[p] \in Entry /\ intent.desired.files[p] = None
         /\ intent.previous.files[p] # None
         /\ \A q \in Paths \ {p} : dest'[q] = dest[q] /\ backup'[q] = backup[q]
         /\ UNCHANGED <<intent, manifest, own, disturbed>>
         /\ op' = NoOp \/ (op'.step = "remove" /\ op.todo \ {p} \subseteq op'.todo)
<1> USE DEF Only, disk, Go, Ends, Drift, NoOp
<1>1. /\ intent # None /\ op.step = "remove" /\ p \in op.todo
      /\ intent.previous.files[p] \in Entry /\ intent.desired.files[p] = None
      /\ intent.previous.files[p] # None
  BY DEF RemoveStep, RootTyped, TypeOK, OpFits, Intents, Manifests, Entries
<1>2. \A q \in Paths \ {p} : dest'[q] = dest[q] /\ backup'[q] = backup[q]
  BY DEF RemoveStep, RootTyped, TypeOK
<1>3. UNCHANGED <<intent, manifest, own, disturbed>>
  BY DEF RemoveStep, history
<1>4. op' = NoOp \/ (op'.step = "remove" /\ op.todo \ {p} \subseteq op'.todo)
  BY <1>1 DEF RemoveStep
<1> QED BY <1>1, <1>2, <1>3, <1>4

\* A step of reconcile leaves each path where it may be, and those it has
\* passed as desired.
LEMMA RemoveWhole ==
  ASSUME RootAssumption, RootTyped, Whole, NEW p \in Paths, RemoveStep(p)
  PROVE  Whole'
<1> USE RemoveFacts
<1> USE DEF Only, disk, Go, Ends, Drift, NoOp
<1> SUFFICES ASSUME ~disturbed PROVE Underway'
  BY DEF Whole
<1>1. Underway
  BY DEF Whole
<1>2. ASSUME NEW q \in Paths
      PROVE  Between(q)' /\ (Ready(q) => Ready(q)') /\ (Passed(q)' => Ready(q)')
  <2>1. CASE q = p
    <3>1. Between(q) /\ Honest(intent.previous)
      BY <1>1 DEF Underway
    <3> QED
      BY <2>1, <3>1 DEF RemoveStep, Restored, Passed, Between, Ready, As, Entry, Held, Honest,
         Entries, RootAssumption, RootTyped, TypeOK
  <2>2. CASE q # p
    <3>1. Between(q) /\ (Passed(q) => Ready(q))
      BY <1>1 DEF Underway
    <3>2. Passed(q)' => Passed(q)
      BY <2>2 DEF Passed
    <3> QED BY <2>2, <3>1, <3>2 DEF Between, Ready, As
  <2> QED BY <2>1, <2>2
<1>3. op'.step # "intent"
  OBVIOUS
<1> QED BY <1>1, <1>2, <1>3, PathsSuffice

\* What is known of a path that a step links.
LEMMA InstallFacts ==
  ASSUME RootTyped, NEW p \in Paths, Install(p)
  PROVE  /\ intent # None /\ op.step = "install" /\ p \in op.todo
         /\ intent.desired.files[p] \in Entry /\ intent.desired.files[p] # None
         /\ intent.previous.files[p] \in Entry \cup {None}
         /\ \A q \in Paths \ {p} : dest'[q] = dest[q] /\ backup'[q] = backup[q]
         /\ UNCHANGED <<intent, manifest, own, disturbed, folder>>
         /\ op' = NoOp \/ (op'.step = "install" /\ op.todo \ {p} \subseteq op'.todo)
<1> USE DEF Only, disk, Go, Ends, Drift, NoOp
<1>1. /\ intent # None /\ op.step = "install" /\ p \in op.todo
      /\ intent.desired.files[p] \in Entry /\ intent.desired.files[p] # None
      /\ intent.previous.files[p] \in Entry \cup {None}
  BY DEF Install, RootTyped, TypeOK, OpFits, Intents, Manifests, Entries
<1>2. \A q \in Paths \ {p} : dest'[q] = dest[q] /\ backup'[q] = backup[q]
  BY DEF Install, Relink, Link, RootTyped, TypeOK
<1>3. UNCHANGED <<intent, manifest, own, disturbed, folder>>
  BY DEF Install, Relink, Link, history
<1>4. op' = NoOp \/ (op'.step = "install" /\ op.todo \ {p} \subseteq op'.todo)
  BY <1>1 DEF Install, Relink, Link
<1> QED BY <1>1, <1>2, <1>3, <1>4

LEMMA InstallWhole ==
  ASSUME RootAssumption, RootTyped, Whole, NEW p \in Paths, Install(p)
  PROVE  Whole'
<1> USE InstallFacts
<1> USE DEF Only, disk, Go, Ends, Drift, NoOp
<1> SUFFICES ASSUME ~disturbed PROVE Underway'
  BY DEF Whole
<1>1. Underway
  BY DEF Whole
<1>2. ASSUME NEW q \in Paths
      PROVE  Between(q)' /\ (Ready(q) => Ready(q)') /\ (Passed(q)' => Ready(q)')
  <2>1. CASE q = p
    <3>1. Between(q) /\ Honest(intent.previous) /\ Honest(intent.desired)
      BY <1>1 DEF Underway
    <3> QED
      BY <2>1, <3>1 DEF Install, Relink, Link, Passed, Between, Ready, As, Entry, Held, Honest,
         Entries, RootAssumption, RootTyped, TypeOK
  <2>2. CASE q # p
    <3>1. Between(q) /\ (Passed(q) => Ready(q))
      BY <1>1 DEF Underway
    <3>2. Passed(q)' => Passed(q)
      BY <2>2 DEF Passed
    <3> QED BY <2>2, <3>1, <3>2 DEF Between, Ready, As
  <2> QED BY <2>1, <2>2
<1>3. op'.step # "intent"
  OBVIOUS
<1> QED BY <1>1, <1>2, <1>3, PathsSuffice

\* The steps between those on paths, and the two that change the records.
LEMMA RecordsWhole ==
  ASSUME RootAssumption, RootTyped, Whole,
         Removed \/ MakeFolder \/ Installed \/ Tidy \/ writeCommittedManifest \/ removeIntent
  PROVE  Whole'
<1> USE DEF Only, disk, history, Go, Ends, NoOp
<1> SUFFICES ASSUME ~disturbed PROVE Whole'
  BY DEF Whole, Removed, MakeFolder, Installed, Tidy, writeCommittedManifest, removeIntent
<1>1. intent # None /\ Underway /\ ~disturbed'
  BY DEF Whole, Removed, MakeFolder, Installed, Tidy, writeCommittedManifest, removeIntent,
     RootTyped, OpFits
<1>2. UNCHANGED <<dest, backup, own>>
  BY DEF Removed, MakeFolder, Installed, Tidy, writeCommittedManifest, removeIntent
<1>3. CASE Removed \/ MakeFolder \/ Installed \/ Tidy
  <2>1. UNCHANGED <<intent, manifest>> /\ op'.step # "intent"
    BY <1>3 DEF Removed, MakeFolder, Installed, Tidy
  <2>2. ASSUME NEW q \in Paths
        PROVE  Between(q)' /\ (Ready(q) => Ready(q)') /\ (Passed(q)' => Ready(q)')
    <3>1. Between(q) /\ (Passed(q) => Ready(q))
      BY <1>1 DEF Underway
    <3>2. Passed(q)' => Passed(q)
      BY <1>3, <2>1 DEF Removed, MakeFolder, Installed, Tidy, Passed, Entries
    <3> QED BY <1>2, <2>1, <3>1, <3>2 DEF Between, Ready, As
  <2> QED BY <1>1, <1>2, <2>1, <2>2, PathsSuffice DEF Whole
<1>4. CASE writeCommittedManifest \/ removeIntent
  <2>1. \A q \in Paths : Ready(q)
    BY <1>1, <1>4 DEF writeCommittedManifest, removeIntent, Underway, Passed
  <2>2. CASE writeCommittedManifest
    <3>1. intent' = intent /\ manifest' = intent.desired /\ op'.step = "intent"
      BY <2>2 DEF writeCommittedManifest
    <3>2. \A q \in Paths : Ready(q)' /\ Between(q)'
      BY <1>2, <2>1, <3>1 DEF Ready, Between, As
    <3>3. (Honest(intent.previous) /\ Honest(intent.desired))'
      BY <1>1, <1>2, <3>1 DEF Underway, Honest, Entries
    <3> QED BY <1>1, <3>1, <3>2, <3>3 DEF Whole, Underway, Attained
  <2>3. CASE removeIntent
    <3>1. intent' = None /\ manifest' = manifest /\ manifest = intent.desired
      BY <1>1, <2>3 DEF removeIntent, Underway
    <3>2. AtPeace'
      BY <1>1, <1>2, <2>1, <3>1 DEF Underway, AtPeace, Honest, Entries, Ready, As
    <3> QED BY <3>1, <3>2 DEF Whole
  <2> QED BY <1>4, <2>2, <2>3
<1> QED BY <1>3, <1>4

\* An operation begins where all is as its manifest says, and desires links
\* under which it knows the game's own files.
LEMMA BeginWhole ==
  ASSUME RootAssumption, RootTyped, Whole, NEW desired \in Manifests, Begin(desired),
         ~disturbed => Honest(desired)
  PROVE  Whole'
<1> SUFFICES ASSUME ~disturbed PROVE Whole'
  BY DEF Whole, Begin, Only, history
<1>1. /\ intent' # None /\ intent'.previous = manifest /\ intent'.desired = desired
      /\ UNCHANGED <<dest, backup, own, manifest>> /\ intent = None
      /\ op'.step = "remove" /\ op'.todo = Entries(manifest) \ Entries(desired)
  <2>1. /\ intent' = [previous |-> manifest, desired |-> desired]
        /\ UNCHANGED <<dest, backup, own, manifest>> /\ intent = None
        /\ Reconcile(intent')
    BY DEF Begin, Only, disk, history
  <2>2. intent' \in Intents
    BY <2>1 DEF Intents, RootTyped, TypeOK
  <2> QED BY <2>1, <2>2 DEF Reconcile, RootAssumption
<1>2. AtPeace /\ Honest(desired)
  BY <1>1 DEF Whole
<1>3. (Honest(intent.previous) /\ Honest(intent.desired))'
  BY <1>1, <1>2 DEF AtPeace, Honest, Entries
<1>4. ASSUME NEW p \in Paths
      PROVE  Between(p)' /\ (Passed(p)' => Ready(p)')
  <2>1. As(intent.previous, p)'
    BY <1>1, <1>2 DEF AtPeace, As
  <2>2. Passed(p)' => manifest.files[p] = None /\ desired.files[p] = None
    BY <1>1 DEF Passed, Entries
  <2> QED BY <1>1, <2>1, <2>2 DEF Between, Ready, As
<1> QED BY <1>1, <1>3, <1>4 DEF Whole, Underway

LEMMA DesiredHonest ==
  ASSUME RootAssumption, RootTyped, Whole, ~disturbed, intent = None,
         NEW plan \in [Paths -> Mods \cup {None}], CanDescribe(plan)
  PROVE  Honest(Desired(plan))
<1>1. AtPeace
  BY DEF Whole
<1>2. ASSUME NEW p \in Entries(Desired(plan))
      PROVE  Desired(plan).files[p].backup = own[p]
  <2>1. /\ p \in Paths /\ plan[p] # None
        /\ Desired(plan).files[p].backup = IF manifest.files[p] # None
                                           THEN manifest.files[p].backup ELSE dest[p]
    <3>1. p \in Paths /\ Desired(plan).files[p] # None
      BY DEF Entries
    <3>2. Desired(plan).files[p] =
            IF plan[p] = None THEN None
            ELSE [source |-> plan[p],
                  backup |-> IF manifest.files[p] # None
                             THEN manifest.files[p].backup ELSE dest[p]]
      BY <3>1, DesiredType DEF RootTyped
    <3> QED BY <3>1, <3>2
  <2> QED BY <1>1, <2>1 DEF AtPeace, Honest, Entries, As
<1> QED BY <1>2 DEF Honest

LEMMA NextWhole ==
  ASSUME RootAssumption, RootTyped, Whole, [Next]_vars
  PROVE  Whole'
<1> USE DEF Only, Ends, Drift, disk, history
<1>8. ASSUME UNCHANGED <<dest, backup, own, manifest, intent, op, disturbed>> PROVE Whole'
  BY <1>8 DEF Whole, AtPeace, Underway, Attained, Honest, Entries, Between, Ready, As, Passed
<1>1. CASE RecoverIntent
  <2>1. /\ UNCHANGED <<dest, backup, own, manifest, intent, disturbed>> /\ intent # None
        /\ op'.step = "remove"
        /\ op'.todo = Entries(intent.previous) \ Entries(intent.desired)
    BY <1>1 DEF RecoverIntent, Reconcile
  <2> SUFFICES ASSUME Underway PROVE Underway'
    BY <2>1 DEF Whole
  <2>2. ASSUME NEW p \in Paths
        PROVE  Between(p)' /\ (Ready(p) => Ready(p)') /\ (Passed(p)' => Ready(p)')
    <3>1. Between(p)
      BY DEF Underway
    <3> QED BY <2>1, <3>1 DEF Between, Ready, As, Passed, Entries
  <2> QED BY <2>1, <2>2, PathsSuffice
<1>2. CASE Refuse
  BY <1>2, <1>8 DEF Refuse, Idle, RootTyped, TypeOK
<1>3. CASE Deactivate
  <2>1. Empty \in Manifests /\ Honest(Empty)
    BY DEF Empty, Manifests, Honest, Entries
  <2> QED BY <1>3, <2>1, BeginWhole DEF Deactivate
<1>4. ASSUME NEW order \in Orders, Apply(order) PROVE Whole'
  <2>1. Plan(order) \in [Paths -> Mods \cup {None}] /\ CanDescribe(Plan(order))
    BY <1>4, PlanType DEF Apply
  <2>2. Begin(Desired(Plan(order))) /\ intent = None
    BY <1>4 DEF Apply, Begin
  <2>3. Desired(Plan(order)) \in Manifests
    BY <2>1, DesiredType DEF RootTyped
  <2>4. ~disturbed => Honest(Desired(Plan(order)))
    BY <2>1, <2>2, DesiredHonest
  <2> QED BY <2>2, <2>3, <2>4, BeginWhole
<1>5. CASE Reconciles
  BY <1>5, RemoveWhole, InstallWhole, RecordsWhole DEF Reconciles
<1>6. CASE Interrupted
  <2>1. /\ UNCHANGED <<dest, backup, own, manifest, intent, disturbed>> /\ intent # None
        /\ op'.step = "idle"
    BY <1>6 DEF Interrupted, NoOp, Idle, RootTyped, TypeOK, OpFits
  <2> SUFFICES ASSUME Underway PROVE Underway'
    BY <2>1 DEF Whole
  <2>2. ASSUME NEW p \in Paths
        PROVE  Between(p)' /\ (Ready(p) => Ready(p)') /\ (Passed(p)' => Ready(p)')
    <3>1. Between(p)
      BY DEF Underway
    <3> QED BY <2>1, <3>1 DEF Between, Ready, As, Passed
  <2> QED BY <2>1, <2>2, PathsSuffice
<1>7. ASSUME NEW p \in Paths, NEW file \in Held, Change(p, file) PROVE Whole'
  <2> SUFFICES ASSUME ~disturbed' PROVE Whole'
    BY DEF Whole
  <2>1. /\ intent = None /\ intent' = None /\ manifest.files[p] = None /\ ~disturbed
        /\ UNCHANGED <<backup, manifest>>
        /\ dest' = [dest EXCEPT ![p] = file] /\ own' = [own EXCEPT ![p] = file]
    BY <1>7 DEF Change, Untouched, RootTyped, TypeOK
  <2>2. AtPeace
    BY <2>1 DEF Whole
  <2>3. AtPeace'
    BY <2>1, <2>2 DEF AtPeace, Honest, Entries, As, RootTyped, TypeOK
  <2> QED BY <2>1, <2>3 DEF Whole
<1>9. CASE UNCHANGED vars
  BY <1>8, <1>9 DEF vars
<1>10. ASSUME NEW m \in Mods, ModFolder(m) PROVE Whole'
  BY <1>8, <1>10 DEF ModFolder
<1> QED BY <1>1, <1>2, <1>3, <1>4, <1>5, <1>6, <1>7, <1>9, <1>10
     DEF Next, Operates, Surroundings

-----------------------------------------------------------------------------
(* The abstract change.                                                     *)

Atomic == INSTANCE AtomicChange WITH
    Values <- Outcomes, RollsBack <- FALSE, settled <- Settled, intended <- Intended

\* What a step may do to the intent.
Begins == intent = None /\ intent' \in Intents /\ intent'.previous = manifest /\ dest' = dest
Ending == intent # None /\ intent' = None /\ op.step = "intent" /\ dest' = dest
Goes == intent # None /\ intent' = intent
Rests == /\ intent = None /\ intent' = None
         /\ \A p \in Paths : dest'[p] = dest[p] \/ {dest[p], dest'[p]} \cap Mods = {}

LEMMA Moves ==
  ASSUME RootAssumption, RootTyped, Whole, [Next]_vars, ~disturbed'
  PROVE  ~disturbed /\ (Begins \/ Ending \/ Goes \/ Rests)
<1> USE DEF Only, Ends, Drift, disk, history, Goes, Rests
<1>1. ASSUME UNCHANGED <<disturbed, intent, dest>>
      PROVE  ~disturbed /\ (Begins \/ Ending \/ Goes \/ Rests)
  BY <1>1
<1>2. ASSUME NEW desired \in Manifests, Begin(desired)
      PROVE  ~disturbed /\ (Begins \/ Ending \/ Goes \/ Rests)
  BY <1>2 DEF Begin, Begins, Intents, RootTyped, TypeOK
<1>3. CASE Deactivate
  <2>1. Empty \in Manifests
    BY DEF Empty, Manifests
  <2> QED BY <1>2, <1>3, <2>1 DEF Deactivate
<1>4. ASSUME NEW order \in Orders, Apply(order)
      PROVE  ~disturbed /\ (Begins \/ Ending \/ Goes \/ Rests)
  BY <1>2, <1>4, PlanType, DesiredType DEF Apply, RootTyped
<1>5. ASSUME NEW p \in Paths, RemoveStep(p) \/ Install(p)
      PROVE  ~disturbed /\ (Begins \/ Ending \/ Goes \/ Rests)
  BY <1>5, RemoveFacts, InstallFacts
<1>6. CASE Removed \/ MakeFolder \/ Installed \/ Tidy \/ writeCommittedManifest
  BY <1>1, <1>6 DEF Removed, MakeFolder, Installed, Tidy, writeCommittedManifest
<1>7. CASE removeIntent
  BY <1>7 DEF removeIntent, Ending, RootTyped, OpFits
<1>8. CASE RecoverIntent \/ Refuse \/ Interrupted
  BY <1>1, <1>8 DEF RecoverIntent, Refuse, Interrupted
<1>9. ASSUME NEW p \in Paths, NEW file \in Held, Change(p, file)
      PROVE  ~disturbed /\ (Begins \/ Ending \/ Goes \/ Rests)
  <2>1. Untouched(p) /\ ~disturbed /\ intent' = intent
    BY <1>9 DEF Change
  <2>2. dest[p] = own[p] /\ own[p] \in Held
    BY <2>1 DEF Untouched, Whole, AtPeace, As, RootTyped, TypeOK
  <2>3. \A q \in Paths : dest'[q] = IF q = p THEN file ELSE dest[q]
    BY <1>9 DEF Change, RootTyped, TypeOK
  <2> QED BY <2>1, <2>2, <2>3 DEF Untouched, Held, RootAssumption
<1>10. ASSUME NEW m \in Mods, ModFolder(m)
       PROVE  ~disturbed /\ (Begins \/ Ending \/ Goes \/ Rests)
  BY <1>1, <1>10 DEF ModFolder
<1>11. CASE UNCHANGED vars
  BY <1>1, <1>11 DEF vars
<1> QED BY <1>3, <1>4, <1>5, <1>6, <1>7, <1>8, <1>9, <1>10, <1>11
     DEF Next, Operates, Reconciles, Surroundings

LEMMA SettledType ==
  ASSUME RootTyped
  PROVE  Settled \in Outcomes \cup {Unknown} /\ (~disturbed => Settled \in Outcomes)
<1>1. Links \in Outcomes
  BY DEF Links, Outcomes
<1>2. \A m \in Manifests : LinksOf(m) \in Outcomes
  BY DEF LinksOf, Outcomes, Manifests, Entry
<1> QED BY <1>1, <1>2 DEF Settled, RootTyped, TypeOK, Intents

LEMMA InitAbstract == RootAssumption /\ Init => Atomic!Init
BY InitTyped, SettledType DEF Init, Intended, Atomic!Init

LEMMA StepAbstract ==
  ASSUME RootAssumption, RootTyped, RootTyped', Whole, Whole', [Next]_vars
  PROVE  [Atomic!Next]_<<Settled, Intended>>
<1>1. CASE disturbed'
  BY <1>1 DEF Settled, Intended, Atomic!Next, Atomic!Interfere
<1>2. CASE ~disturbed'
  <2>1. ~disturbed /\ (Begins \/ Ending \/ Goes \/ Rests)
    BY <1>2, Moves
  <2>2. CASE Begins
    <3>1. intent' # None
      BY <2>2 DEF Begins, RootAssumption
    <3>2. Intended = None /\ Intended' \in Outcomes
      BY <1>2, <2>1, <2>2, <3>1 DEF Begins, Intended, LinksOf, Outcomes, Intents, Manifests, Entry
    <3>3. Settled # Unknown
      BY <2>1, SettledType DEF RootAssumption
    <3>4. \A p \in Paths : Links[p] = LinksOf(manifest)[p]
      <4>1. AtPeace
        BY <2>1, <2>2 DEF Whole, Begins
      <4> QED BY <4>1 DEF AtPeace, As, Links, LinksOf, RootTyped, TypeOK, Manifests, Entry,
                          Held, RootAssumption
    <3>5. Links = LinksOf(manifest)
      BY <3>4 DEF Links, LinksOf
    <3>6. Settled' = Settled
      BY <1>2, <2>1, <2>2, <3>1, <3>5 DEF Begins, Settled
    <3> QED BY <3>2, <3>3, <3>6 DEF Atomic!Next, Atomic!Intend
  <2>3. CASE Ending
    <3>1. Underway
      BY <2>1, <2>3 DEF Whole, Ending
    <3>2. \A p \in Paths : Ready(p)
      BY <2>3, <3>1 DEF Ending, Underway, Passed
    <3>3. \A p \in Paths : Links'[p] = LinksOf(intent.desired)[p]
      BY <2>3, <3>2 DEF Ending, Ready, As, Links, LinksOf, RootTyped, TypeOK, Intents, Manifests,
                        Entry, Held, RootAssumption
    <3>4. Links' = LinksOf(intent.desired)
      BY <3>3 DEF Links, LinksOf
    <3>5. Settled' = Intended /\ Intended' = None
      BY <1>2, <2>1, <2>3, <3>4 DEF Ending, Settled, Intended
    <3>6. Intended # None
      <4>1. LinksOf(intent.desired) \in Outcomes
        BY <2>3 DEF Ending, RootTyped, TypeOK, Intents, Manifests, Entry, LinksOf, Outcomes
      <4> QED BY <2>1, <2>3, <4>1 DEF Intended, Ending, RootAssumption
    <3> QED BY <3>5, <3>6 DEF Atomic!Next, Atomic!TakeEffect
  <2>4. CASE Goes
    BY <1>2, <2>1, <2>4 DEF Goes, Settled, Intended
  <2>5. CASE Rests
    <3>1. Links' = Links
      BY <2>5 DEF Rests, Links
    <3> QED BY <1>2, <2>1, <2>5, <3>1 DEF Rests, Settled, Intended
  <2> QED BY <2>1, <2>2, <2>3, <2>4, <2>5
<1> QED BY <1>1, <1>2

-----------------------------------------------------------------------------
(* The folder made for nested paths.                                        *)

Needs(m) == \E p \in InFolder : m.files[p] # None

\* What is below the folder needs it; an intent that needs it makes it or has
\* found it, and loses it only where nothing below it is desired.
FolderThere == \A p \in InFolder : dest[p] # None => folder

FolderFits ==
  ~disturbed /\ intent # None =>
    /\ Needs(intent.desired) => intent.desired.made \/ folder
    /\ intent.desired.made => Needs(intent.desired)
    /\ folder \/ ~Needs(intent.previous) \/ ~Needs(intent.desired)
    /\ op.step = "install" => folder \/ ~Needs(intent.desired)

\* OnlyTheFolderBlocks, in these words.
Blocked ==
  ~disturbed /\ outcome = "pending" => intent # None /\ ~folder /\ Needs(intent.previous)

FolderInv == FolderThere /\ FolderFits /\ Blocked

LEMMA BlockedMeans ==
  ASSUME RootAssumption, Blocked
  PROVE  OnlyTheFolderBlocks
BY DEF OnlyTheFolderBlocks, Blocked, Needs, Entries, RootAssumption

LEMMA InitFolder == RootAssumption /\ Init => FolderInv
BY DEF Init, FolderInv, FolderThere, FolderFits, Blocked

\* A step that leaves the folder, the disk and the intent alone.
LEMMA FolderStays ==
  ASSUME FolderInv, UNCHANGED <<dest, folder, intent, disturbed>>,
         outcome' = "pending" => outcome = "pending",
         op'.step = "install" => op.step = "install"
  PROVE  FolderInv'
BY DEF FolderInv, FolderThere, FolderFits, Blocked, Needs

LEMMA RemoveFolder ==
  ASSUME RootAssumption, RootTyped, Whole, FolderInv, NEW p \in Paths, RemoveStep(p)
  PROVE  FolderInv'
<1> USE RemoveFacts
<1> USE DEF Go, Ends, Drift, NoOp
<1>1. folder' = folder /\ op'.step # "install"
  BY DEF RemoveStep, disk
<1>2. FolderThere'
  <2> SUFFICES ASSUME NEW q \in InFolder, dest'[q] # None PROVE folder
    BY <1>1 DEF FolderThere
  <2>1. CASE q = p /\ dest'[q] # dest[q]
    BY <2>1 DEF RemoveStep, ParentThere, disk, RootTyped, TypeOK
  <2>2. CASE dest'[q] = dest[q]
    BY <2>2 DEF FolderInv, FolderThere
  <2> QED BY <2>1, <2>2 DEF RootAssumption
<1>3. FolderFits'
  BY <1>1 DEF FolderInv, FolderFits, Needs
<1>4. Blocked'
  <2> SUFFICES ASSUME ~disturbed, outcome' = "pending", outcome # "pending"
               PROVE  ~folder /\ Needs(intent.previous)
    BY <1>1 DEF FolderInv, Blocked, Needs
  <2>1. Between(p) /\ Honest(intent.previous)
    BY DEF Whole, Underway
  <2>2. ~ParentThere(p)
    BY <2>1 DEF RemoveStep, Restored, Between, Ready, As, Honest, Entries, Entry, Held, RootAssumption, RootTyped, TypeOK
  <2> QED BY <2>2 DEF ParentThere, Needs
<1> QED BY <1>2, <1>3, <1>4 DEF FolderInv

LEMMA InstallFolder ==
  ASSUME RootAssumption, RootTyped, Whole, FolderInv, NEW p \in Paths, Install(p)
  PROVE  FolderInv'
<1> USE InstallFacts
<1> USE DEF Go, Ends, Drift, NoOp
<1>2. FolderThere'
  <2> SUFFICES ASSUME NEW q \in InFolder, dest'[q] # None PROVE folder
    BY DEF FolderThere
  <2>1. CASE q = p /\ dest'[q] # dest[q]
    BY <2>1 DEF Install, ParentThere, disk, RootTyped, TypeOK
  <2>2. CASE dest'[q] = dest[q]
    BY <2>2 DEF FolderInv, FolderThere
  <2> QED BY <2>1, <2>2 DEF RootAssumption
<1>3. FolderFits'
  BY DEF FolderInv, FolderFits, Needs
<1>4. Blocked'
  <2> SUFFICES ASSUME ~disturbed, outcome' = "pending", outcome # "pending"
               PROVE  FALSE
    BY DEF FolderInv, Blocked, Needs
  <2>1. Between(p) /\ Honest(intent.previous) /\ Honest(intent.desired)
    BY DEF Whole, Underway
  <2>2. ParentThere(p)
    BY DEF ParentThere, FolderInv, FolderFits, Needs
  <2> QED BY <2>1, <2>2 DEF Install, Relink, Link, Between, Ready, As, Honest, Entries, Entry, Held, RootAssumption, RootTyped, TypeOK
<1> QED BY <1>2, <1>3, <1>4 DEF FolderInv

LEMMA RecordsFolder ==
  ASSUME RootAssumption, RootTyped, Whole, FolderInv,
         Removed \/ MakeFolder \/ Installed \/ Tidy \/ writeCommittedManifest \/ removeIntent
  PROVE  FolderInv'
<1> USE DEF Only, disk, history, Go, Ends, NoOp
<1>1. CASE Removed \/ Installed \/ writeCommittedManifest
  BY <1>1, FolderStays DEF Removed, Installed, writeCommittedManifest
<1>2. CASE MakeFolder
  BY <1>2 DEF MakeFolder, FolderInv, FolderThere, FolderFits, Blocked, Needs, RootTyped, OpFits
<1>3. CASE removeIntent
  BY <1>3 DEF removeIntent, FolderInv, FolderThere, FolderFits, Blocked
<1>4. CASE Tidy
  <2>1. /\ intent # None /\ op.step = "rmdir" /\ op'.step # "install"
        /\ UNCHANGED <<dest, backup, intent, disturbed>>
        /\ folder' => folder
        /\ folder /\ ~folder' => \A p \in InFolder : dest[p] = None
    <3> DEFINE unwanted == intent.previous.made /\ ~intent.desired.made
               empty == \A p \in InFolder : dest[p] = None
    <3>1. folder' = (folder /\ ~(unwanted /\ empty)) /\ folder \in BOOLEAN
      BY <1>4 DEF Tidy, RootTyped, TypeOK
    <3>2. (folder' => folder) /\ (folder /\ ~folder' => empty)
      <4> HIDE DEF unwanted, empty
      <4> QED BY <3>1
    <3> QED BY <1>4, <3>2 DEF Tidy, RootTyped, OpFits
  <2>2. FolderThere'
    BY <2>1 DEF FolderInv, FolderThere
  <2>3. ~disturbed => \A p \in Paths : Ready(p)
    BY <2>1 DEF Whole, Underway, Passed
  <2>4. ~disturbed /\ folder /\ ~folder' => ~Needs(intent.desired)
    BY <2>1, <2>3 DEF Needs, Ready, As, RootTyped, TypeOK, Intents, Manifests, Entry, RootAssumption
  <2>5. FolderFits'
    BY <2>1, <2>4 DEF FolderInv, FolderFits, Needs
  <2>6. ~disturbed => BackupsAre(intent.desired)
    BY <2>1, <2>3 DEF Whole, Underway, Honest, Entries, Ready, As, BackupsAre
  <2>7. Blocked'
    BY <1>4, <2>1, <2>6 DEF Tidy, FolderInv, Blocked, Needs
  <2> QED BY <2>2, <2>5, <2>7 DEF FolderInv
<1> QED BY <1>1, <1>2, <1>3, <1>4

LEMMA BeginFolder ==
  ASSUME RootAssumption, RootTyped, Whole, FolderInv, NEW desired \in Manifests, Begin(desired),
         Needs(desired) => desired.made \/ folder, desired.made => Needs(desired)
  PROVE  FolderInv'
<1>1. /\ intent' # None /\ intent'.previous = manifest /\ intent'.desired = desired
      /\ UNCHANGED <<dest, backup, folder, own, manifest, disturbed>> /\ intent = None
      /\ op'.step = "remove" /\ outcome' = "none"
  <2>1. /\ intent' = [previous |-> manifest, desired |-> desired]
        /\ UNCHANGED <<dest, backup, folder, own, manifest, disturbed>> /\ intent = None
        /\ Reconcile(intent') /\ outcome' = "none"
    <3> USE DEF Begin, Only, disk, history
    <3>1. UNCHANGED <<dest, backup, folder, own, manifest, disturbed>>
      OBVIOUS
    <3> QED BY <3>1
  <2>2. intent' \in Intents
    BY <2>1 DEF Intents, RootTyped, TypeOK
  <2> QED BY <2>1, <2>2 DEF Reconcile, RootAssumption
<1>2. ~disturbed => folder \/ ~Needs(manifest)
  BY <1>1 DEF Whole, AtPeace, As, FolderInv, FolderThere, Needs, RootTyped, TypeOK, Manifests,
     Entry, RootAssumption
<1> QED BY <1>1, <1>2 DEF FolderInv, FolderThere, FolderFits, Blocked, Needs

LEMMA NextFolder ==
  ASSUME RootAssumption, RootTyped, Whole, FolderInv, [Next]_vars
  PROVE  FolderInv'
<1> USE DEF Only, Ends, Drift, disk, history
<1>1. CASE RecoverIntent
  BY <1>1, FolderStays DEF RecoverIntent, Reconcile
<1>2. CASE Refuse
  <2>1. ~disturbed => validateActive(manifest)
    BY <1>2 DEF Refuse, Whole, AtPeace, Honest, As, validateActive, BackupsAre, ParentThere, Entries,
       FolderInv, FolderThere, RootTyped, TypeOK, Manifests, Entry, RootAssumption
  <2> QED BY <1>2, <2>1 DEF Refuse, FolderInv, FolderThere, FolderFits, Blocked
<1>3. CASE Deactivate
  <2>1. Empty \in Manifests /\ ~Needs(Empty) /\ ~Empty.made
    BY DEF Empty, Manifests, Needs, RootAssumption
  <2> QED BY <1>3, <2>1, BeginFolder DEF Deactivate
<1>4. ASSUME NEW order \in Orders, Apply(order) PROVE FolderInv'
  <2> DEFINE plan == Plan(order)
             desired == Desired(plan)
  <2>1. plan \in [Paths -> Mods \cup {None}] /\ CanDescribe(plan) /\ Begin(desired)
    BY <1>4, PlanType DEF Apply
  <2> HIDE DEF plan
  <2>2. desired \in Manifests /\ \A p \in Paths : desired.files[p] # None <=> plan[p] # None
    BY <2>1, DesiredType DEF RootTyped
  <2>3. desired.made <=> (\E p \in InFolder : plan[p] # None) /\ (manifest.made \/ ~folder)
    BY DEF Desired
  <2>4. Needs(desired) <=> \E p \in InFolder : plan[p] # None
    BY <2>2 DEF Needs, RootAssumption
  <2> HIDE DEF desired
  <2> QED BY <2>1, <2>2, <2>3, <2>4, BeginFolder DEF RootTyped, TypeOK
<1>5. CASE Reconciles
  BY <1>5, RemoveFolder, InstallFolder, RecordsFolder DEF Reconciles
<1>6. CASE Interrupted
  BY <1>6, FolderStays DEF Interrupted, NoOp
<1>7. ASSUME NEW p \in Paths, NEW file \in Held, Change(p, file) PROVE FolderInv'
  <2>1. FolderThere'
    BY <1>7 DEF Change, FolderInv, FolderThere, RootTyped, TypeOK, RootAssumption
  <2>2. ~disturbed' => intent' = None /\ intent = None /\ ~disturbed
    BY <1>7 DEF Change, Untouched
  <2> QED BY <1>7, <2>1, <2>2 DEF Change, FolderInv, FolderFits, Blocked
<1>8. ASSUME NEW m \in Mods, ModFolder(m) PROVE FolderInv'
  BY <1>8, FolderStays DEF ModFolder
<1>9. CASE UNCHANGED vars
  BY <1>9, FolderStays DEF vars
<1> QED BY <1>1, <1>2, <1>3, <1>4, <1>5, <1>6, <1>7, <1>8, <1>9
     DEF Next, Operates, Surroundings

-----------------------------------------------------------------------------
(* The theorems.                                                            *)

\* The inductive invariant.
RootInv == RootTyped /\ Whole /\ FolderInv

\* The invariant holds in every reachable state.
THEOREM RootInvariance ==
  ASSUME RootAssumption
  PROVE  Spec => []RootInv
<1>1. Init => RootInv
  BY InitTyped, InitWhole, InitFolder DEF RootInv
<1>2. RootInv /\ [Next]_vars => RootInv'
  BY NextTyped, NextWhole, NextFolder DEF RootInv
<1> QED BY <1>1, <1>2, PTL DEF Spec

\* Every variable keeps its type.
THEOREM RootTypeCorrect ==
  ASSUME RootAssumption
  PROVE  Spec => []TypeOK
<1>1. RootInv => TypeOK
  BY DEF RootInv, RootTyped
<1> QED BY <1>1, RootInvariance, PTL

\* Without an intent the manifest is true of the game folder, whatever failed
\* or was killed before (root_deployment.go:412, commit; :358, recoverLocked).
THEOREM RecordsAreTrue ==
  ASSUME RootAssumption
  PROVE  Spec => []AtRest
<1>1. RootInv => AtRest
  BY DEF RootInv, Whole, AtPeace, As, AtRest
<1> QED BY <1>1, RootInvariance, PTL

\* A recovery asks the user only where somebody else changed what is deployed,
\* or where the folder the deployment made is gone (root_deployment.go:547).
THEOREM RecoveryGoesOn ==
  ASSUME RootAssumption
  PROVE  Spec => []OnlyTheFolderBlocks
<1>1. RootInv => OnlyTheFolderBlocks
  BY BlockedMeans DEF RootInv, FolderInv
<1> QED BY <1>1, RootInvariance, PTL

\* No step of the deployment destroys a file of the game (root_deployment.go:579,
\* installEntry; :676, removeAndRestore).
THEOREM GameFilesAreKept ==
  ASSUME RootAssumption
  PROVE  Spec => [][KeepsGameFiles]_vars
<1>1. RootInv /\ [Next]_vars => [KeepsGameFiles]_vars
  BY StepKeepsGameFiles DEF RootInv
<1> QED BY <1>1, RootInvariance, PTL DEF Spec

\* A change of what is deployed takes effect as a whole: the deployment
\* implements AtomicChange, and is never rolled back (root_deployment.go:412).
THEOREM ChangesAreAtomic ==
  ASSUME RootAssumption
  PROVE  Spec => Atomic!Spec
<1>1. Init => Atomic!Init
  BY InitAbstract
<1>2. RootInv /\ RootInv' /\ [Next]_vars => [Atomic!Next]_<<Settled, Intended>>
  BY StepAbstract DEF RootInv
<1> QED BY <1>1, <1>2, RootInvariance, PTL DEF Spec, Atomic!Spec
=============================================================================
