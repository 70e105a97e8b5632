--------------------------- MODULE RootDeployment ---------------------------
(***************************************************************************)
(* The links that a profile's mods place next to the game's executables    *)
(* (src/internal/vfs/root_deployment.go): a manifest of what is deployed,  *)
(* an intent while it changes, a backup tree with the game's files that    *)
(* stand in the way.                                                       *)
(*                                                                         *)
(* One step per system call that changes the disk; what is looked at       *)
(* before it belongs to the step.  Go walks its maps in any order: so do   *)
(* the steps here.  Steam and the player change the folder only between    *)
(* operations: admission refuses while Steam is busy (storefront.go:107).  *)
(* Paths are two kinds: at the top of the game folder, or in one subfolder *)
(* that may have to be made.                                               *)
(***************************************************************************)
EXTENDS Integers, FiniteSetsExt, Sequences

CONSTANTS
  Paths, InFolder,   \* paths of files, and those in the subfolder
  Mods, Provides,    \* mods and the paths each has root content for
  Orders,            \* the mod lists: enabled mods, the last one wins
  GameFiles,         \* versions of the game's own files
  None, Unknown,     \* nothing; nothing is promised
  MaxFaults, MaxChanges

Held == GameFiles \cup {None}
Entry == [source : Mods, backup : Held]
Manifests == [files : [Paths -> Entry \cup {None}], made : BOOLEAN]
Intents == [previous : Manifests, desired : Manifests]
Outcomes == [Paths -> Mods \cup {None}]

RootAssumption ==
  /\ InFolder \subseteq Paths /\ Provides \in [Mods -> SUBSET Paths]
  /\ Orders \subseteq Seq(Mods)
  /\ Mods \cap GameFiles = {} /\ None \notin Mods \cup GameFiles
  /\ None \notin Entry \cup Intents \cup Outcomes /\ Unknown \notin Outcomes
  /\ MaxFaults \in Nat /\ MaxChanges \in Nat

VARIABLES
  dest, backup,      \* what is at each path, and in the backup tree
  folder,            \* the subfolder is there
  manifest, intent,  \* the two records on disk
  present,           \* mods whose files are there
  op, outcome,       \* the operation in progress, and how the last one ended
  faults, changes,   \* bounds
  own,               \* the game's own files (history)
  disturbed          \* somebody changed what is deployed (history)

disk == <<dest, backup, folder>>
history == <<own, disturbed>>
vars == <<dest, backup, folder, manifest, intent, present, op, outcome,
          faults, changes, own, disturbed>>

Empty == [files |-> [p \in Paths |-> None], made |-> FALSE]
NoOp == [step |-> "idle", todo |-> {}]
Steps == {"idle", "remove", "mkdir", "install", "rmdir", "manifest", "intent"}

Entries(m) == {p \in Paths : m.files[p] # None}
Idle == op = NoOp

-----------------------------------------------------------------------------
(* What the operations look at.                                             *)

\* The winning mod of each path; a mod whose folder is gone is passed over.
Plan(order) ==
  [p \in Paths |->
     LET offers == {i \in DOMAIN order : order[i] \in present /\ p \in Provides[order[i]]}
     IN IF offers = {} THEN None ELSE order[Max(offers)]]

\* The manifest a plan asks for: a path that is deployed already keeps its backup.
Desired(plan) ==
  LET files == [p \in Paths |->
                  IF plan[p] = None THEN None
                  ELSE [source |-> plan[p],
                        backup |-> IF manifest.files[p] # None
                                   THEN manifest.files[p].backup ELSE dest[p]]]
      needs == \E p \in InFolder : plan[p] # None
  IN [files |-> files, made |-> needs /\ (manifest.made \/ ~folder)]

\* A plan can only be written down where the places hold files it can back up.
CanDescribe(plan) ==
  \A p \in Paths : plan[p] # None /\ manifest.files[p] = None => dest[p] \notin Mods

ParentThere(p) == p \in InFolder => folder

\* No backup is missing and none is untracked.
BackupsAre(m) ==
  \A p \in Paths : backup[p] # None <=> (p \in Entries(m) /\ m.files[p].backup # None)

validateActive(m) ==
  /\ \A p \in Entries(m) : /\ ParentThere(p) /\ dest[p] = m.files[p].source
                           /\ backup[p] = m.files[p].backup
  /\ BackupsAre(m)

-----------------------------------------------------------------------------
(* Beginnings and ends of operations.                                       *)

Reconcile(in) ==
  op' = [step |-> "remove", todo |-> Entries(in.previous) \ Entries(in.desired)]

Ends(result) == op' = NoOp /\ outcome' = result
Drift == Ends("pending") /\ UNCHANGED disk
Go(step, todo) == op' = [step |-> step, todo |-> todo] /\ UNCHANGED outcome

Only(records) == UNCHANGED <<records, present, faults, changes, history>>

\* The operations begin with the recovery of what an earlier one left.
RecoverIntent ==
  /\ Idle /\ intent # None
  /\ Reconcile(intent)
  /\ UNCHANGED <<disk, manifest, intent, outcome>> /\ Only(<<>>)

\* Without an intent, what is deployed has to be as the manifest says.
Refuse ==
  /\ Idle /\ intent = None /\ ~validateActive(manifest)
  /\ Drift /\ Only(<<manifest, intent>>)

Begin(desired) ==
  /\ Idle /\ intent = None /\ validateActive(manifest)
  /\ intent' = [previous |-> manifest, desired |-> desired]
  /\ Reconcile(intent') /\ outcome' = "none"
  /\ UNCHANGED disk /\ Only(manifest)

Apply(order) == LET plan == Plan(order) IN CanDescribe(plan) /\ Begin(Desired(plan))
Deactivate == manifest # Empty /\ Begin(Empty)

-----------------------------------------------------------------------------
(* reconcile: the paths no longer wanted.                                   *)

\* The original is back already.
Restored(p, e) == e.backup # None /\ dest[p] = e.backup /\ backup[p] = None

RemoveStep(p) ==
  /\ op.step = "remove" /\ p \in op.todo
  /\ LET e == intent.previous.files[p]
         Done == Go("remove", op.todo \ {p})
         Unlink ==
           /\ dest[p] = e.source /\ dest' = [dest EXCEPT ![p] = None]
           /\ (IF e.backup = None THEN Done ELSE UNCHANGED <<op, outcome>>)
           /\ UNCHANGED <<backup, folder>>
         Restore ==
           /\ dest[p] = None /\ e.backup # None /\ backup[p] = e.backup
           /\ dest' = [dest EXCEPT ![p] = backup[p]] /\ backup' = [backup EXCEPT ![p] = None]
           /\ Done /\ UNCHANGED folder
     IN IF ~ParentThere(p) THEN Drift
        ELSE \/ Unlink \/ Restore
             \/ Restored(p, e) /\ Done /\ UNCHANGED disk
             \/ dest[p] = None /\ e.backup = None /\ Done /\ UNCHANGED disk
             \/ dest[p] = None /\ e.backup # None /\ backup[p] # e.backup /\ Drift
             \/ dest[p] \notin {None, e.source} /\ ~Restored(p, e) /\ Drift
  /\ Only(<<manifest, intent>>)

Removed ==
  /\ op.step = "remove" /\ op.todo = {} /\ Go("mkdir", {})
  /\ UNCHANGED disk /\ Only(<<manifest, intent>>)

MakeFolder ==
  /\ op.step = "mkdir" /\ folder' = (folder \/ intent.desired.made)
  /\ Go("install", Entries(intent.desired))
  /\ UNCHANGED <<dest, backup>> /\ Only(<<manifest, intent>>)

-----------------------------------------------------------------------------
(* reconcile: the paths wanted.                                             *)

\* A path that was deployed before.
Relink(p, new, old) ==
  LET verified == backup[p] = new.backup
      Done == Go("install", op.todo \ {p})
  IN \/ dest[p] = new.source /\ verified /\ Done /\ UNCHANGED disk
     \/ /\ dest[p] = old.source /\ dest[p] # new.source /\ verified
        /\ dest' = [dest EXCEPT ![p] = new.source] /\ Done /\ UNCHANGED <<backup, folder>>
     \/ (dest[p] \notin {new.source, old.source} \/ ~verified) /\ Drift

\* Mutant: the link replaces what is there.
LinkOver(p, new) ==
  /\ dest' = [dest EXCEPT ![p] = new.source] /\ Go("install", op.todo \ {p})
  /\ UNCHANGED <<backup, folder>>

\* A path that is new: what is there is moved to the backup tree first.
Link(p, new) ==
  LET saved == backup[p] = new.backup
      Done == Go("install", op.todo \ {p})
  IN \/ dest[p] = new.source /\ saved /\ Done /\ UNCHANGED disk
     \/ /\ new.backup # None /\ backup[p] = None /\ dest[p] = new.backup
        /\ backup' = [backup EXCEPT ![p] = dest[p]] /\ dest' = [dest EXCEPT ![p] = None]
        /\ UNCHANGED <<folder, op, outcome>>
     \/ /\ dest[p] = None /\ saved
        /\ dest' = [dest EXCEPT ![p] = new.source] /\ Done /\ UNCHANGED <<backup, folder>>
     \/ saved /\ dest[p] \notin {None, new.source} /\ Drift
     \/ ~saved /\ (backup[p] # None \/ dest[p] # new.backup) /\ Drift

Install(p) ==
  /\ op.step = "install" /\ p \in op.todo
  /\ LET new == intent.desired.files[p]
         old == intent.previous.files[p]
     IN IF new.source \notin present THEN Ends("error") /\ UNCHANGED disk
        ELSE IF ~ParentThere(p) THEN Drift
        ELSE IF old # None THEN Relink(p, new, old) ELSE Link(p, new)
  /\ Only(<<manifest, intent>>)

Installed ==
  /\ op.step = "install" /\ op.todo = {} /\ Go("rmdir", {})
  /\ UNCHANGED disk /\ Only(<<manifest, intent>>)

-----------------------------------------------------------------------------
(* reconcile's end, the manifest, and the end of the intent.                *)

\* The folder goes when it was made for files that are gone and is empty.
Tidy ==
  /\ op.step = "rmdir"
  /\ LET unwanted == intent.previous.made /\ ~intent.desired.made
         empty == \A p \in InFolder : dest[p] = None
     IN folder' = (folder /\ ~(unwanted /\ empty))
  /\ IF BackupsAre(intent.desired) THEN Go("manifest", {}) ELSE Ends("pending")
  /\ UNCHANGED <<dest, backup>> /\ Only(<<manifest, intent>>)

writeCommittedManifest ==
  /\ op.step = "manifest" /\ manifest' = intent.desired /\ Go("intent", {})
  /\ UNCHANGED disk /\ Only(intent)

removeIntent ==
  /\ op.step = "intent" /\ intent' = None /\ Ends("ok")
  /\ UNCHANGED disk /\ Only(manifest)

\* Mutant: an operation that fails forgets its intent.
InterruptedForgets ==
  /\ ~Idle /\ faults < MaxFaults /\ faults' = faults + 1 /\ Ends("error") /\ intent' = None
  /\ UNCHANGED <<disk, manifest, present, changes, history>>

\* A system call fails, or the daemon ends: the records stay.
Interrupted ==
  /\ ~Idle /\ faults < MaxFaults /\ faults' = faults + 1 /\ Ends("error")
  /\ UNCHANGED <<disk, manifest, intent, present, changes, history>>

-----------------------------------------------------------------------------
(* The surroundings.                                                        *)

Untouched(p) == manifest.files[p] = None /\ intent = None

\* Steam updates or verifies a file, or somebody removes it.
Change(p, file) ==
  /\ Idle /\ changes < MaxChanges /\ changes' = changes + 1
  /\ file \in Held /\ file # dest[p]
  /\ dest' = [dest EXCEPT ![p] = file] /\ folder' = (folder \/ (p \in InFolder /\ file # None))
  /\ own' = IF Untouched(p) THEN [own EXCEPT ![p] = file] ELSE own
  /\ disturbed' = (disturbed \/ ~Untouched(p))
  /\ UNCHANGED <<backup, manifest, intent, present, op, outcome, faults>>

\* Somebody deletes a mod's folder, or it comes back.
ModFolder(m) ==
  /\ Idle /\ changes < MaxChanges /\ changes' = changes + 1
  /\ present' = (present \ {m}) \cup ({m} \ present)
  /\ UNCHANGED <<disk, manifest, intent, op, outcome, faults, history>>

-----------------------------------------------------------------------------
Init ==
  /\ dest \in [Paths -> Held] /\ backup = [p \in Paths |-> None]
  /\ folder \in BOOLEAN /\ (~folder => \A p \in InFolder : dest[p] = None)
  /\ manifest = Empty /\ intent = None /\ present = Mods
  /\ op = NoOp /\ outcome = "none" /\ faults = 0 /\ changes = 0
  /\ own = dest /\ disturbed = FALSE

Reconciles ==
  \/ \E p \in Paths : RemoveStep(p) \/ Install(p)
  \/ Removed \/ MakeFolder \/ Installed \/ Tidy \/ writeCommittedManifest \/ removeIntent

Operates ==
  \/ RecoverIntent \/ Refuse \/ Deactivate \/ (\E order \in Orders : Apply(order))
  \/ Reconciles \/ Interrupted

Surroundings ==
  \/ \E p \in Paths, file \in Held : Change(p, file)
  \/ \E m \in Mods : ModFolder(m)

Next == Operates \/ Surroundings

Spec == Init /\ [][Next]_vars

-----------------------------------------------------------------------------
(* Properties.                                                              *)

TypeOK ==
  /\ dest \in [Paths -> Mods \cup Held] /\ backup \in [Paths -> Held]
  /\ folder \in BOOLEAN /\ manifest \in Manifests /\ intent \in Intents \cup {None}
  /\ present \subseteq Mods
  /\ op \in [step : Steps, todo : SUBSET Paths]
  /\ outcome \in {"none", "ok", "pending", "error"}
  /\ faults \in 0..MaxFaults /\ changes \in 0..MaxChanges
  /\ own \in [Paths -> Held] /\ disturbed \in BOOLEAN

\* No step of the manager destroys a file of the game, whoever put it there and
\* whatever was interrupted before: it is at its path or in the backup tree.
KeepsGameFiles ==
  Operates => \A p \in Paths :
    {dest[p], backup[p]} \cap GameFiles \subseteq {dest'[p], backup'[p]}

\* README.md:126: interrupted changes are repaired, and the user is asked only
\* when gorganizer cannot decide safely.  What the code does: while nobody else
\* changes what is deployed, the one thing that stops a recovery is that it has
\* already removed the folder it once made.
OnlyTheFolderBlocks ==
  ~disturbed /\ outcome = "pending" =>
    intent # None /\ ~folder /\ Entries(intent.previous) \cap InFolder # {}

\* The same for the records: without an intent, each path has the link the
\* manifest names over the game's own file, or that file itself.
AtRest ==
  ~disturbed /\ intent = None =>
    \A p \in Paths :
      IF manifest.files[p] = None THEN dest[p] = own[p] /\ backup[p] = None
      ELSE dest[p] = manifest.files[p].source /\ backup[p] = own[p]

\* A change of the deployment takes effect as a whole, after any interruption:
\* what it is to AtomicChange (MCFiles).
Links == [p \in Paths |-> IF dest[p] \in Mods THEN dest[p] ELSE None]
LinksOf(m) == [p \in Paths |-> IF m.files[p] = None THEN None ELSE m.files[p].source]

Settled == IF disturbed THEN Unknown ELSE IF intent = None THEN Links
           ELSE LinksOf(intent.previous)
Intended == IF disturbed \/ intent = None THEN None ELSE LinksOf(intent.desired)
=============================================================================
