------------------------------ MODULE SmapiTxn ------------------------------
(***************************************************************************)
(* Installing, replacing and removing the SMAPI mod loader in the game's   *)
(* folder (src/internal/smapi/installer.go, txn.go): a plan, a journal (the *)
(* intent), the originals saved, every target moved to a backup, the new   *)
(* entries moved in, and one commit point - the install record, or the     *)
(* phase "committing" of an uninstall.  Whatever stops it, recovery rolls  *)
(* it back before that point and forward after it.                         *)
(*                                                                         *)
(* One step per change on disk, with the checks the code makes just before *)
(* it.  The game's lock admits one operation or recovery at a time; the    *)
(* plan and the preflight that follows it at once are one step.  An entry  *)
(* has a file's content and an identity (its inode); the loader's own      *)
(* folder also holds the user's configuration of it.  The code goes        *)
(* through its targets in alphabetical order, the steps here in any.       *)
(***************************************************************************)
EXTENDS Integers

CONSTANTS
  Launcher, LauncherOld,  \* the game's start script, and where SMAPI keeps it
  Internal,               \* the loader's folder, which any install may replace
  Extras,                 \* other paths, where the player may have a file
  Versions, Payload,      \* versions of the loader, and the Extras each places
  Vanillas, Own,          \* versions of the game's start script, the player's files
  Configs,                \* what the player writes in the loader's configuration
  None, Unknown,
  MaxOps, MaxFaults, MaxChanges

Paths == {Launcher, LauncherOld, Internal} \cup Extras
Files == Versions \cup Vanillas \cup Own

\* An entry, a manifest of files and what else the variables hold.
Entry == [file : Files, id : Int, config : Configs \cup {None}]
Manifests == [Paths -> Files \cup {None}]
Installs == [id : Nat, version : Versions, originals : Manifests, targets : SUBSET Paths]
Intents == [id : Nat, kind : {"install", "uninstall"}, version : Versions \cup {None},
            phase : {"backing_up", "placing", "committing"},
            place : Manifests, remove : SUBSET Paths, existing : [Paths -> Entry \cup {None}],
            new : Manifests, drop : Manifests, originals : Manifests]
Memories == [version : Versions, source : Paths, launcher : Files, config : Configs \cup {None}]
Outcomes == [files : Manifests, version : Versions \cup {None}]

SmapiAssumption ==
  /\ Launcher # LauncherOld /\ Internal \notin {Launcher, LauncherOld}
  /\ Extras \cap {Launcher, LauncherOld, Internal} = {}
  /\ Payload \in [Versions -> SUBSET Extras]
  /\ Versions \cap Vanillas = {} /\ (Versions \cup Vanillas) \cap Own = {}
  /\ None \notin Files \cup Configs \cup Paths
  /\ None \notin Entry /\ None \notin Installs /\ None \notin Intents /\ None \notin Memories
  /\ None \notin Outcomes /\ Unknown \notin Outcomes
  /\ MaxOps \in Nat /\ MaxFaults \in Nat /\ MaxChanges \in Nat

VARIABLES
  at, backup,        \* the entries in the game's folder and in the backup
  saved,             \* the saved originals
  record, intent,    \* the install record and the journal
  op,                \* the operation or recovery in progress
  outcome,           \* how the last one ended
  ops, faults, changes,
  own, config,       \* the player's and the game's own files, the last configuration
  before,            \* what the change in progress began with
  disturbed, unseen  \* somebody interfered; wrote a configuration after the staging

disk == <<at, backup, saved>>
history == <<own, config, before, disturbed, unseen>>
vars == <<disk, record, intent, op, outcome, ops, faults, changes, history>>

Nothing == [p \in Paths |-> None]
FileOf(e) == IF e = None THEN None ELSE e.file
ConfigOf(e) == IF e = None THEN None ELSE e.config
Named(f) == {p \in DOMAIN f : f[p] # None}

Steps == {"idle", "plan", "save", "backup", "place", "commit", "drop", "cleanup",
          "restore", "unsave", "undone"}

TypeOK ==
  /\ at \in [Paths -> Entry \cup {None}] /\ backup \in [Paths -> Entry \cup {None}]
  /\ saved \in Manifests /\ record \in Installs \cup {None} /\ intent \in Intents \cup {None}
  /\ op \in [step : Steps, todo : SUBSET Paths, failed : {"no", "error", "blocked"},
             memory : Memories \cup {None}]
  /\ outcome \in {"none", "refused", "ok", "rolled_back", "blocked", "error", "crashed"}
  /\ ops \in 0..MaxOps /\ faults \in 0..MaxFaults /\ changes \in 0..MaxChanges
  /\ own \in Manifests /\ config \in Configs \cup {None} /\ before \in Outcomes
  /\ disturbed \in BOOLEAN /\ unseen \in BOOLEAN

Idle == op.step = "idle"
Resting == [step |-> "idle", todo |-> {}, failed |-> "no", memory |-> None]
Go(step, todo) == op' = [op EXCEPT !.step = step, !.todo = todo] /\ UNCHANGED outcome
Ends(result) == op' = Resting /\ outcome' = result
RollsBack == Go("restore", Named(intent.place) \cup intent.remove)

Records == UNCHANGED <<record, intent>>
Bounds == UNCHANGED <<ops, faults, changes>>
Quiet == Bounds /\ UNCHANGED history

-----------------------------------------------------------------------------
(* Plans.                                                                   *)

Vanilla(p) == FileOf(at[p]) \in Vanillas

\* findVanillaLauncher: the start script that does not start the loader.
VanillaSource ==
  IF Vanilla(Launcher) THEN Launcher ELSE IF Vanilla(LauncherOld) THEN LauncherOld ELSE None

Owned(p) == record # None /\ p \in record.targets
Originals == IF record = None THEN Nothing ELSE record.originals
Loads(p) == saved[p] = Originals[p]        \* loadOriginal: the saved copy is the recorded one

Restorable == {p \in Named(Originals) : Loads(p)}

\* The Extras an install places over a file that no record says is the loader's.
Preserved(v) == {p \in Payload[v] : at[p] # None /\ ~Owned(p)}

InstallPlan(v) ==
  LET kept == Payload[v]
      placed == {Launcher, LauncherOld, Internal} \cup kept
      back == Restorable \ kept
      place == [p \in Paths |-> IF p = LauncherOld THEN op.memory.launcher
                                ELSE IF p \in placed THEN v
                                ELSE IF p \in back THEN saved[p] ELSE None]
      old == IF record = None THEN {} ELSE record.targets
  IN [place |-> place,
      remove |-> {p \in (old \cup {Internal}) \ Named(place) : at[p] # None},
      new |-> [p \in Paths |-> IF p \in Preserved(v) /\ saved[p] = None
                               THEN FileOf(at[p]) ELSE None],
      drop |-> [p \in Paths |-> IF p \in back THEN saved[p] ELSE None],
      originals |-> [p \in Paths |-> IF p \notin kept THEN None
                                     ELSE IF p \in Preserved(v) THEN FileOf(at[p])
                                     ELSE Originals[p]]]

UninstallPlan ==
  LET place == [p \in Paths |-> IF p = Launcher /\ ~Vanilla(Launcher)
                                THEN FileOf(at[LauncherOld])
                                ELSE IF p \in Restorable THEN saved[p] ELSE None]
      old == IF record = None THEN {} ELSE record.targets
  IN [place |-> place,
      remove |-> {p \in (old \cup {Internal, LauncherOld}) \ (Named(place) \cup {Launcher}) :
                    at[p] # None},
      new |-> Nothing,
      drop |-> [p \in Paths |-> IF p \in Restorable THEN saved[p] ELSE None],
      originals |-> Nothing]

\* What the intent is to make of the files, and of the loader's version.
VersionOf(r) == IF r = None THEN None ELSE r.version
Present == [files |-> [p \in Paths |-> FileOf(at[p])], version |-> VersionOf(record)]

\* preflight, prepare and the first write of the intent.
Journal(kind, version, plan) ==
  LET targets == Named(plan.place) \cup plan.remove
  IN /\ intent' = [id |-> ops + 1, kind |-> kind, version |-> version,
                   phase |-> "backing_up", place |-> plan.place, remove |-> plan.remove,
                   existing |-> [p \in Paths |-> IF p \in targets THEN at[p] ELSE None],
                   new |-> plan.new, drop |-> plan.drop, originals |-> plan.originals]
     /\ op' = [op EXCEPT !.step = "save", !.todo = Named(plan.new)]
     /\ before' = Present /\ backup' = Nothing /\ ops' = ops + 1
     /\ UNCHANGED <<at, saved, record, outcome, faults, changes, own, config, disturbed, unseen>>

Refused == Ends("refused") /\ UNCHANGED disk /\ Records /\ Quiet

\* The installer runs in a stage built from the start script and the configuration.
Stage(v) ==
  /\ Idle /\ intent = None /\ ops < MaxOps /\ VanillaSource # None
  /\ op' = [Resting EXCEPT !.step = "plan",
               !.memory = [version |-> v, source |-> VanillaSource,
                           launcher |-> FileOf(at[VanillaSource]),
                           config |-> ConfigOf(at[Internal])]]
  /\ outcome' = "none" /\ UNCHANGED disk /\ Records /\ Quiet

StageIsCurrent ==
  /\ VanillaSource = op.memory.source /\ FileOf(at[VanillaSource]) = op.memory.launcher
  /\ op.memory.config # None => ConfigOf(at[Internal]) = op.memory.config

PlanInstall ==
  /\ op.step = "plan"
  /\ LET v == op.memory.version
         adopted == \A p \in Preserved(v) : saved[p] \in {None, FileOf(at[p])}
     IN IF StageIsCurrent /\ adopted THEN Journal("install", v, InstallPlan(v))
        ELSE Refused

Uninstall ==
  /\ Idle /\ intent = None /\ ops < MaxOps /\ VanillaSource # None
  /\ Journal("uninstall", None, UninstallPlan)

-----------------------------------------------------------------------------
(* execute: an error before the commit point rolls back at once.            *)

Fails == RollsBack /\ UNCHANGED disk /\ Records

SaveOriginal(p) ==
  /\ op.step = "save" /\ p \in op.todo
  /\ IF FileOf(at[p]) = intent.new[p]
     THEN saved' = [saved EXCEPT ![p] = intent.new[p]] /\ Go("save", op.todo \ {p})
          /\ UNCHANGED <<at, backup>> /\ Records
     ELSE Fails
  /\ Quiet

Saved ==
  /\ op.step = "save" /\ op.todo = {} /\ Go("backup", Named(intent.existing))
  /\ UNCHANGED disk /\ Records /\ Quiet

\* The configuration that was staged has to be the one that is moved away.
ConfigCarried(p) ==
  p = Internal /\ intent.kind = "install" /\ op.memory.config # None =>
    at[p].config = op.memory.config

BackUp(p) ==
  /\ op.step = "backup" /\ p \in op.todo
  /\ IF at[p] # None /\ at[p].id = intent.existing[p].id
     THEN /\ at' = [at EXCEPT ![p] = None] /\ backup' = [backup EXCEPT ![p] = at[p]]
          /\ (IF ConfigCarried(p) THEN Go("backup", op.todo \ {p}) ELSE RollsBack)
          /\ UNCHANGED saved /\ Records
     ELSE Fails
  /\ Quiet

setPhase(from, phase, to, todo) ==
  /\ op.step = from /\ op.todo = {}
  /\ intent' = [intent EXCEPT !.phase = phase] /\ Go(to, todo)
  /\ UNCHANGED <<disk, record>> /\ Quiet

PlacedEntry(p) ==
  [file |-> intent.place[p], id |-> intent.id,
   config |-> IF p = Internal /\ intent.kind = "install" THEN op.memory.config ELSE None]

Place(p) ==
  /\ op.step = "place" /\ p \in op.todo
  /\ IF at[p] = None
     THEN at' = [at EXCEPT ![p] = PlacedEntry(p)] /\ Go("place", op.todo \ {p})
          /\ UNCHANGED <<backup, saved>> /\ Records
     ELSE Fails
  /\ Quiet

writeRecord ==
  /\ op.step = "commit" /\ intent.kind = "install"
  /\ record' = [id |-> intent.id, version |-> intent.version, originals |-> intent.originals,
                targets |-> {Launcher, LauncherOld, Internal} \cup Payload[intent.version]]
  /\ Go("drop", Named(intent.drop)) /\ UNCHANGED <<disk, intent>> /\ Quiet

-----------------------------------------------------------------------------
(* finishCommitted.                                                         *)

\* An uninstall ends with its record, and the configuration with the loader.
removeRecord ==
  /\ op.step = "commit" /\ intent.kind = "uninstall"
  /\ record' = None /\ config' = None /\ Go("drop", Named(intent.drop))
  /\ UNCHANGED <<disk, intent, own, before, disturbed, unseen>> /\ Bounds

dropOriginal(p) ==
  /\ op.step = "drop" /\ p \in op.todo /\ Go("drop", op.todo \ {p})
  /\ saved' = [saved EXCEPT ![p] = IF @ = intent.drop[p] THEN None ELSE @]
  /\ UNCHANGED <<at, backup>> /\ Records /\ Quiet

removeIntent ==
  /\ \/ op.step = "drop" /\ op.todo = {} /\ Go("cleanup", {})
     \/ op.step = "unsave" /\ op.todo = {} /\ Go("undone", {})
  /\ intent' = None /\ UNCHANGED <<disk, record>> /\ Quiet

cleanupOp ==
  /\ op.step \in {"cleanup", "undone"}
  /\ Ends(IF op.step = "cleanup" THEN "ok" ELSE "rolled_back")
  /\ backup' = Nothing /\ UNCHANGED <<at, saved>> /\ Records /\ Quiet

-----------------------------------------------------------------------------
(* rollback: every target is tried, then the intent goes or stays.          *)

Fails1(p, why) == op' = [op EXCEPT !.todo = @ \ {p}, !.failed = why] /\ UNCHANGED <<disk, outcome>>
Stuck(p) == Fails1(p, "blocked")

IsPreimage(e, p) == e # None /\ e.id = intent.existing[p].id

IsPlaced(e, p) == intent.place[p] # None /\ e.id = intent.id

Restore(p) ==
  LET existed == intent.existing[p] # None
      Done == Go("restore", op.todo \ {p})
      back == ~existed \/ IsPreimage(backup[p], p)
  IN /\ op.step = "restore" /\ p \in op.todo
     /\ \/ existed /\ IsPreimage(at[p], p) /\ Done /\ UNCHANGED disk
        \/ /\ ~(existed /\ IsPreimage(at[p], p))
           /\ \/ ~back /\ Stuck(p)
              \/ back /\ at[p] # None /\ ~IsPlaced(at[p], p) /\ Stuck(p)
              \/ /\ back /\ at[p] # None /\ IsPlaced(at[p], p)
                 /\ at' = [at EXCEPT ![p] = None] /\ UNCHANGED <<backup, saved, op, outcome>>
              \/ /\ back /\ at[p] = None /\ existed
                 /\ at' = [at EXCEPT ![p] = backup[p]] /\ backup' = [backup EXCEPT ![p] = None]
                 /\ Done /\ UNCHANGED saved
              \/ ~existed /\ at[p] = None /\ Done /\ UNCHANGED disk
     /\ Records /\ Quiet

Restored ==
  /\ op.step = "restore" /\ op.todo = {}
  /\ IF op.failed # "no" THEN Ends(op.failed) ELSE Go("unsave", Named(intent.new))
  /\ UNCHANGED disk /\ Records /\ Quiet

dropNewOriginal(p) ==
  /\ op.step = "unsave" /\ p \in op.todo
  /\ \/ saved[p] \in {None, intent.new[p]} /\ saved' = [saved EXCEPT ![p] = None]
        /\ Go("unsave", op.todo \ {p})
     \/ saved[p] \notin {None, intent.new[p]} /\ Ends("blocked") /\ UNCHANGED saved
  /\ UNCHANGED <<at, backup>> /\ Records /\ Quiet

-----------------------------------------------------------------------------
(* Recovery, failures and crashes.                                          *)

intentCommitted ==
  /\ intent.phase = "committing"
  /\ intent.kind = "uninstall" \/ (record # None /\ record.id = intent.id)

Recover ==
  /\ Idle /\ intent # None /\ outcome' = "none"
  /\ op' = [Resting EXCEPT
       !.step = IF ~intentCommitted THEN "restore"
                ELSE IF intent.kind = "uninstall" THEN "commit" ELSE "drop",
       !.todo = IF ~intentCommitted THEN Named(intent.place) \cup intent.remove
                ELSE IF intent.kind = "uninstall" THEN {} ELSE Named(intent.drop)]
  /\ UNCHANGED disk /\ Records /\ Quiet

\* Without an intent, what is left in the backup folder is swept.
Sweep ==
  /\ Idle /\ intent = None /\ backup # Nothing /\ backup' = Nothing
  /\ UNCHANGED <<at, saved, op, outcome>> /\ Records /\ Quiet

Unsafe == {"save", "backup", "place"}    \* steps that roll back when they fail

\* A call fails, and its change is not made; a failed clean-up is only a warning.
Error ==
  /\ ~Idle /\ faults < MaxFaults /\ faults' = faults + 1
  /\ \/ op.step \in Unsafe /\ RollsBack
     \/ op.step = "commit" /\ (IF intent.kind = "install" THEN RollsBack ELSE Ends("error"))
     \/ op.step = "drop" /\ Ends("error")
     \/ \E p \in op.todo : op.step = "drop" /\ Go("drop", op.todo \ {p})
     \/ op.step \in {"plan", "unsave"} /\ Ends("error")
     \/ op.step = "cleanup" /\ Ends("ok")
     \/ op.step = "undone" /\ Ends("rolled_back")
  /\ UNCHANGED disk /\ Records /\ UNCHANGED <<ops, changes, history>>

RestoreFails(p) ==
  /\ op.step = "restore" /\ p \in op.todo /\ faults < MaxFaults /\ faults' = faults + 1
  /\ Fails1(p, IF op.failed = "blocked" THEN "blocked" ELSE "error")
  /\ Records /\ UNCHANGED <<ops, changes, history>>

Crash ==
  /\ ~Idle /\ faults < MaxFaults /\ faults' = faults + 1 /\ Ends("crashed")
  /\ UNCHANGED <<disk, record, intent, ops, changes, history>>

-----------------------------------------------------------------------------
(* The player and Steam.                                                    *)

\* Paths that are the loader's, or are just becoming it: what is written there is
\* no longer taken for a file of the player.
LoaderHas(p) ==
  Owned(p) \/ (intent # None /\ intent.phase # "backing_up" /\ intent.place[p] \in Versions)

\* A file of the game or of the player replaced, written or deleted.
Change(p, f) ==
  /\ changes < MaxChanges /\ changes' = changes + 1
  /\ \/ p = Launcher /\ f \in Vanillas
     \/ p \in Extras /\ f \in Own \cup {None}
  /\ f # FileOf(at[p])
  /\ at' = [at EXCEPT ![p] = IF f = None THEN None
                             ELSE [file |-> f, id |-> -changes', config |-> None]]
  /\ own' = IF p = Launcher \/ ~LoaderHas(p) \/ FileOf(at[p]) = own[p]
            THEN [own EXCEPT ![p] = f] ELSE own
  /\ disturbed' = (disturbed \/ intent # None)
  /\ UNCHANGED <<backup, saved, op, outcome, ops, faults, config, before, unseen>> /\ Records

\* What is written into an entry that a rollback will take away is not counted.
EditConfig(c) ==
  /\ changes < MaxChanges /\ changes' = changes + 1
  /\ at[Internal] # None /\ at[Internal].config # c
  /\ at' = [at EXCEPT ![Internal].config = c]
  /\ config' = IF intent # None /\ at[Internal].id = intent.id /\ ~intentCommitted THEN None ELSE c
  /\ unseen' = (unseen \/ (op.memory # None /\ op.memory.config = None))
  /\ UNCHANGED <<backup, saved, op, outcome, ops, faults, own, before, disturbed>> /\ Records

-----------------------------------------------------------------------------
\* Without SMAPI, or with one the player installed without the manager.
Init ==
  /\ \E vanilla \in Vanillas, manual \in Versions \cup {None}, c \in Configs \cup {None},
        mine \in [Extras -> Own \cup {None}] :
       LET E(f, k) == IF f = None THEN None ELSE [file |-> f, id |-> 0, config |-> k]
       IN /\ at = [p \in Paths |->
                     IF p \in Extras THEN E(mine[p], None)
                     ELSE IF p = Launcher THEN E(IF manual = None THEN vanilla ELSE manual, None)
                     ELSE IF p = LauncherOld THEN E(IF manual = None THEN None ELSE vanilla, None)
                     ELSE E(manual, c)]
          /\ (manual = None => c = None) /\ config = c
          /\ own = [p \in Paths |-> IF p \in Extras THEN mine[p]
                                    ELSE IF p = Launcher THEN vanilla ELSE None]
  /\ backup = Nothing /\ saved = Nothing /\ record = None /\ intent = None
  /\ op = Resting /\ outcome = "none" /\ ops = 0 /\ faults = 0 /\ changes = 0
  /\ before = Present /\ disturbed = FALSE /\ unseen = FALSE

Executes ==
  \/ (\E p \in Paths : SaveOriginal(p) \/ BackUp(p) \/ Place(p))
  \/ Saved \/ setPhase("backup", "placing", "place", Named(intent.place))
  \/ setPhase("place", "committing", "commit", {})
  \/ writeRecord \/ removeRecord \/ (\E p \in Paths : dropOriginal(p))
  \/ removeIntent \/ cleanupOp

RollsBackOrRecovers ==
  \/ \E p \in Paths : Restore(p) \/ dropNewOriginal(p) \/ RestoreFails(p)
  \/ Restored \/ Recover \/ Sweep \/ Error \/ Crash

Next ==
  \/ (\E v \in Versions : Stage(v)) \/ PlanInstall \/ Uninstall
  \/ Executes \/ RollsBackOrRecovers
  \/ \E p \in Paths, f \in Files \cup {None} : Change(p, f)
  \/ \E c \in Configs : EditConfig(c)

Spec == Init /\ [][Next]_vars

-----------------------------------------------------------------------------
(* Properties.                                                              *)

\* What is of a path in place, saved, or in the backup of an unfinished change.
Whereabouts(p) ==
  {FileOf(at[p]), saved[p]} \cup (IF intent = None THEN {} ELSE {FileOf(backup[p])})

\* The player's own files, and the game's current start script, are somewhere
\* they come back from: in place, saved, or in the backup of an unfinished change.
OriginalsKept ==
  /\ \A p \in Extras : own[p] \in Whereabouts(p) \cup {None}
  /\ own[Launcher] \in Whereabouts(Launcher) \cup Whereabouts(LauncherOld)

\* At rest the player's file is in its place, unless the record claims the path:
\* then it is the saved original that an uninstall will bring back.
RecordIsTrue ==
  intent = None =>
    \A p \in Extras : IF Owned(p) THEN own[p] # None => saved[p] = own[p] /\ record.originals[p] = own[p]
                      ELSE FileOf(at[p]) = own[p]

\* installer.go:304: an install fails when the inputs of its stage have moved on -
\* so while SMAPI is there, so is the configuration the player wrote last.  As it
\* stands this does not hold: ConfigKept says what does.
ConfigNeverLost ==
  config # None =>
    config \in {ConfigOf(at[Internal])} \cup (IF intent = None THEN {} ELSE {ConfigOf(backup[Internal])})

\* What the code does: a configuration that is written for the first time while
\* the installer runs is not noticed; every other one is carried over.
ConfigKept == ConfigNeverLost \/ unseen

\* A crash or a failed call never makes recovery give up, unless somebody else
\* changes the files that an unfinished change is about.
CrashIsRecoverable == outcome = "blocked" => disturbed

\* An install or an uninstall takes effect as a whole - files and record - or
\* leaves everything as it was: what it is to AtomicChange (MCFiles).
Settled == IF changes > 0 THEN Unknown ELSE IF intent = None THEN Present ELSE before
Intended ==
  IF changes > 0 \/ intent = None THEN None
  ELSE [files |-> [p \in Paths |->
                     IF intent.place[p] # None THEN intent.place[p]
                     ELSE IF p \in intent.remove THEN None ELSE before.files[p]],
        version |-> intent.version]
=============================================================================
