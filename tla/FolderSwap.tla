----------------------------- MODULE FolderSwap -----------------------------
(***************************************************************************)
(* Replacing a folder of the library: a mod or a profile by an import      *)
(* (internal/transfer/commit.go), a mod by a reinstall, a merge or a       *)
(* replacing install (daemon/reinstall.go, daemon/merge.go).               *)
(*                                                                         *)
(* The new folder is completed beside the old one, an intent is recorded,  *)
(* the old folder is moved aside, the new one takes its name, the old one  *)
(* is removed and the intent with it.  Any step may fail and the daemon    *)
(* may be killed between any two; the next start resolves what it finds.   *)
(* While the daemon is down the user may take a folder away or put another *)
(* one in its place; a running daemon uninstalls, installs, creates and    *)
(* deletes.                                                                *)
(*                                                                         *)
(* Abstracted: a folder is who made it, a half removed or half built one   *)
(* is Torn; a folder's inode is never given to another one.                *)
(***************************************************************************)
EXTENDS Naturals

CONSTANTS
    Mods, Profiles,         \* names of mod folders, of profile folders
    Ops,                    \* replacements, each with an id of its own
    Other,                  \* a folder the user or an install made
    Torn,                   \* a folder that is not whole
    Unknown,                \* a name changed by hand, to the abstract specification
    MaxFaults,              \* bound: failing steps and kills
    MaxHands,               \* bound: folders the user takes, puts, removes, installs
    None

\* Names, replacements and the values that stand for neither differ.
SwapAssumption ==
    /\ (Mods \union Profiles) \intersect Ops = {}
    /\ {Other, Torn, Unknown, None} \intersect (Mods \union Profiles \union Ops) = {}
    /\ Other # Torn /\ Unknown # None /\ {Other, Torn} \intersect {Unknown, None} = {}
    /\ None \notin [op : Ops, at : {"target", "stage", "old", "claim"}]
    /\ MaxFaults \in Nat /\ MaxHands \in Nat

VARIABLES
    folder,                 \* name -> the folder of that name
    stage, old, kept,       \* replacement -> the hidden folders of its id
    intent,                 \* replacement -> it has a journal
    op,                     \* what a replacement is doing
    phase,                  \* of the daemon
    todo, turn,             \* recovery: journals or folders to look at, and the one it is at
    failed,                 \* recovery: journals left for manual repair
    hands, touched,         \* history: changes by hand, names they changed
    taken, meddled,         \* ... names removed, names changed under a journal
    faults

disk == <<folder, stage, old, kept, intent>>
boot == <<todo, turn, failed>>
hist == <<hands, touched, taken, meddled>>
vars == <<disk, op, phase, boot, hist, faults>>

Names   == Mods \union Profiles
Folders == Names \union Ops \union {Other, Torn}
Kinds   == {"transfer", "reinstall", "install"}
Steps   == {"idle", "building", "built", "intended", "synced", "aside", "restore", "rebuild",
            "rollback", "installed", "clear", "unclaim", "discard", "undone", "ended"}
Reports == {"ok", "failed", "pending", "committed"}

TypeOK ==
    /\ folder \in [Names -> Folders \union {None}]
    /\ stage \in [Ops -> Ops \union {Torn, None}]
    /\ old \in [Ops -> Folders \union {None}] /\ kept \in [Ops -> Folders \union {None}]
    /\ intent \in [Ops -> BOOLEAN]
    /\ op \in [Ops -> [at : Steps, kind : Kinds, name : Names \union {None},
                       base : Folders \union {None}, used : BOOLEAN,
                       report : Reports \union {None}]]
    /\ phase \in {"down", "transfers", "reinstalls", "orphans", "up"}
    /\ todo \subseteq Ops /\ failed \subseteq Ops
    /\ turn \in {None} \union [op : Ops, at : {"target", "stage", "old", "claim"}]
    /\ hands \in 0..MaxHands /\ faults \in 0..MaxFaults
    /\ touched \subseteq Names /\ taken \subseteq Names /\ meddled \subseteq Names

-----------------------------------------------------------------------------
At(o, step)  == op[o].at = step
Name(o)      == op[o].name
Transfer(o)  == op[o].kind = "transfer"
Running(o)   == op[o].at \notin {"idle", "ended"}
Go(o, step)  == op' = [op EXCEPT ![o].at = step]
Ends(o, r)   == op' = [op EXCEPT ![o].at = "ended", ![o].report = r]
Fault        == faults < MaxFaults /\ faults' = faults + 1

\* lockMods: one at a time works on a mod folder
Locked(n) == \E o \in Ops : Running(o) /\ Name(o) = n

\* lockProfiles: one swap of the game at a time; a reinstall takes the lock
\* when its stage is complete
Swapping == \E o \in Ops : Running(o) /\ (Transfer(o) \/ op[o].at \notin {"building", "built"})

\* Mutant: a reinstall looks for the journals of reinstalls alone
ClaimedByReinstall(n) == \E o \in Ops : intent[o] /\ Name(o) = n /\ ~Transfer(o)

\* checkModReplacement, CheckPendingReplacement: a journal of either kind names it
Claimed(n) == \E o \in Ops : intent[o] /\ Name(o) = n

\* the checks before a replacement: ReinstallMod, startInstallFrom, finalizeMod,
\* finalizeProfile and replaceDirWithOps
Begin(o, n, k) ==
    /\ phase = "up" /\ At(o, "idle") /\ ~Locked(n)
    /\ ~Claimed(n) /\ folder[n] # None
    /\ IF k = "transfer" THEN ~Swapping ELSE n \in Mods
    /\ op' = [op EXCEPT ![o] = [at |-> "building", kind |-> k, name |-> n, base |-> folder[n],
                                used |-> FALSE, report |-> None]]
    /\ stage' = IF k = "transfer" THEN stage ELSE [stage EXCEPT ![o] = Torn]
    /\ UNCHANGED <<folder, old, kept, intent, phase, boot, hist, faults>>

\* an import renames its complete folder into the root and syncs; the others
\* replay archives and write the merged metadata
Build(o) ==
    /\ At(o, "building")
    /\ \/ stage' = [stage EXCEPT ![o] = o] /\ Go(o, "built") /\ UNCHANGED faults
       \/ /\ Fault /\ Ends(o, "failed")
          /\ \E left \in {None, IF Transfer(o) THEN o ELSE Torn} :
                stage' = [stage EXCEPT ![o] = left]
    /\ UNCHANGED <<folder, old, kept, intent, phase, boot, hist>>

\* the intent is written: published, not published, or nobody knows
Record(o) ==
    /\ At(o, "built") /\ (Transfer(o) \/ ~Swapping)
    /\ \/ /\ intent' = [intent EXCEPT ![o] = TRUE]
          /\ Go(o, "intended") /\ UNCHANGED <<stage, faults>>
       \/ /\ Fault /\ Ends(o, "failed") /\ UNCHANGED intent
          /\ \E left \in {None, IF Transfer(o) THEN o ELSE Torn} :
                stage' = [stage EXCEPT ![o] = left]
       \/ /\ Fault /\ Transfer(o)
          /\ intent' = [intent EXCEPT ![o] = TRUE]
          /\ Ends(o, "pending") /\ UNCHANGED stage
       \/ /\ Fault /\ ~Transfer(o)
          /\ stage' = [stage EXCEPT ![o] = None]
          /\ intent' = [intent EXCEPT ![o] = op[o].kind = "reinstall"]
          /\ Ends(o, "failed")
    /\ UNCHANGED <<folder, old, kept, phase, boot, hist>>

\* SyncFilesystem of the stage, SyncDir of the root
Sync(o) ==
    /\ At(o, "intended")
    /\ \/ Go(o, "synced") /\ UNCHANGED faults
       \/ Fault /\ IF Transfer(o) THEN Go(o, "discard") ELSE Ends(o, "failed")
    /\ UNCHANGED <<disk, phase, boot, hist>>

\* the old folder gives way; a deployed mod is refused while something uses it
Aside(o) ==
    /\ At(o, "synced")
    /\ \/ /\ old' = [old EXCEPT ![o] = folder[Name(o)]]
          /\ folder' = [folder EXCEPT ![Name(o)] = None]
          /\ \E used \in IF Transfer(o) THEN {FALSE} ELSE BOOLEAN :
                op' = [op EXCEPT ![o].at = "aside", ![o].used = used]
          /\ UNCHANGED faults
       \/ Fault /\ Go(o, "discard") /\ UNCHANGED <<folder, old>>
    /\ UNCHANGED <<stage, kept, intent, phase, boot, hist>>

Install(o) ==
    /\ At(o, "aside")
    /\ \/ /\ folder' = [folder EXCEPT ![Name(o)] = stage[o]]
          /\ stage' = [stage EXCEPT ![o] = None]
          /\ Go(o, IF op[o].used THEN "rebuild" ELSE "installed") /\ UNCHANGED faults
       \/ Fault /\ Go(o, "restore") /\ UNCHANGED <<folder, stage>>
    /\ UNCHANGED <<old, kept, intent, phase, boot, hist>>

\* Mutant: a rollback that fails is reported like one that did not
GivesUpSilently(o) == Fault /\ Ends(o, "failed")

\* what a replacement that could not finish tells its caller
GivesUp(o) == Fault /\ Ends(o, IF Transfer(o) THEN "pending" ELSE "failed")

\* the old folder gets its name back
Restore(o) ==
    /\ op[o].at \in {"restore", "rollback"}
    /\ \/ /\ folder' = [folder EXCEPT ![Name(o)] = old[o]]
          /\ old' = [old EXCEPT ![o] = None]
          /\ \/ Go(o, "discard") /\ UNCHANGED faults
             \/ At(o, "rollback") /\ GivesUp(o)     \* restoreModFarmLocked failed
       \/ GivesUp(o) /\ UNCHANGED <<folder, old>>
    /\ UNCHANGED <<stage, kept, intent, phase, boot, hist>>

\* the mounted farm is rebuilt from the new folder; when that fails the new
\* folder is moved out again
Rebuild(o) ==
    /\ At(o, "rebuild")
    /\ \/ Go(o, "installed") /\ UNCHANGED <<folder, stage, faults>>
       \/ /\ Fault /\ Go(o, "rollback")
          /\ stage' = [stage EXCEPT ![o] = folder[Name(o)]]
          /\ folder' = [folder EXCEPT ![Name(o)] = None]
       \/ GivesUp(o) /\ UNCHANGED <<folder, stage>>
    /\ UNCHANGED <<old, kept, intent, phase, boot, hist>>

Committed(o) == Ends(o, IF Transfer(o) THEN "committed" ELSE "failed")

\* SyncDir of the root after the swap
Installed(o) ==
    /\ At(o, "installed")
    /\ \/ Go(o, "clear") /\ UNCHANGED faults
       \/ Fault /\ Committed(o)
    /\ UNCHANGED <<disk, phase, boot, hist>>

\* RemoveAll of a hidden folder: it is gone, or some of it is left
Removed(f, o)  == f' = [f EXCEPT ![o] = None]
Tears(f, o)    == \E rest \in {f[o], IF f[o] = None THEN None ELSE Torn} : f' = [f EXCEPT ![o] = rest]

Clear(o) ==
    /\ At(o, "clear")
    /\ \/ Removed(old, o) /\ Go(o, "unclaim") /\ UNCHANGED faults
       \/ /\ Fault /\ Tears(old, o)
          /\ Ends(o, IF Transfer(o) THEN "committed" ELSE "ok")
    /\ UNCHANGED <<folder, stage, kept, intent, phase, boot, hist>>

\* RemoveDurable: a failing one may have removed the file
Unclaims(o) == \E left \in BOOLEAN : intent' = [intent EXCEPT ![o] = left]

Unclaim(o) ==
    /\ At(o, "unclaim")
    /\ \/ intent' = [intent EXCEPT ![o] = FALSE] /\ Ends(o, "ok") /\ UNCHANGED faults
       \/ /\ Fault /\ Unclaims(o)
          /\ Ends(o, IF Transfer(o) THEN "committed" ELSE "ok")
    /\ UNCHANGED <<folder, stage, old, kept, phase, boot, hist>>

\* failBeforeSwap, swapInReinstalledMod's discard: the stage goes; an import
\* keeps its journal when it will not, the others leave it to the next start
Discard(o) ==
    /\ At(o, "discard")
    /\ \/ Removed(stage, o) /\ Go(o, "undone") /\ UNCHANGED faults
       \/ /\ Fault /\ Tears(stage, o)
          /\ IF Transfer(o) THEN Ends(o, "pending") ELSE Go(o, "undone")
    /\ UNCHANGED <<folder, old, kept, intent, phase, boot, hist>>

Undone(o) ==
    /\ At(o, "undone")
    /\ \/ intent' = [intent EXCEPT ![o] = FALSE] /\ Ends(o, "failed") /\ UNCHANGED faults
       \/ /\ Fault /\ Unclaims(o)
          /\ Ends(o, IF Transfer(o) THEN "pending" ELSE "failed")
    /\ UNCHANGED <<folder, stage, old, kept, phase, boot, hist>>

-----------------------------------------------------------------------------
\* Other changes of the library, by the daemon and by hand

Hand(n) ==
    /\ hands < MaxHands /\ hands' = hands + 1 /\ touched' = touched \union {n}
    /\ meddled' = IF Claimed(n) THEN meddled \union {n} ELSE meddled

\* UninstallMod looks for journals, DeleteProfile does not
MayRemove(n) ==
    CASE phase = "down" -> TRUE
      [] phase = "up" -> IF n \in Mods THEN ~Locked(n) /\ ~Claimed(n) ELSE ~Swapping
      [] OTHER -> FALSE

Remove(n) ==
    /\ folder[n] # None /\ MayRemove(n) /\ Hand(n)
    /\ folder' = [folder EXCEPT ![n] = None] /\ taken' = taken \union {n}
    /\ UNCHANGED <<stage, old, kept, intent, op, phase, boot, faults>>

\* an install of a new mod, CreateProfile, a folder the user made
Put(n) ==
    /\ folder[n] = None /\ MayRemove(n) /\ Hand(n)
    /\ folder' = [folder EXCEPT ![n] = Other] /\ taken' = taken \ {n}
    /\ UNCHANGED <<stage, old, kept, intent, op, phase, boot, faults>>

\* the journal of a reinstall is deleted by hand, or was never there: a start
\* has only the hidden folders to go by
LoseJournal(o) ==
    /\ phase = "down" /\ intent[o] /\ ~Transfer(o) /\ Hand(Name(o))
    /\ intent' = [intent EXCEPT ![o] = FALSE]
    /\ UNCHANGED <<folder, stage, old, kept, op, phase, boot, taken, faults>>

Crash ==
    /\ phase # "down" /\ Fault
    /\ phase' = "down" /\ turn' = None /\ todo' = {} /\ failed' = {}
    /\ op' = [o \in Ops |-> IF Running(o) THEN [op[o] EXCEPT !.at = "ended"] ELSE op[o]]
    /\ UNCHANGED <<disk, hist>>

-----------------------------------------------------------------------------
\* Recovery, before the daemon serves: the journals of imports, those of
\* reinstalls, then what no journal names

Journals(transfers) == {o \in Ops : intent[o] /\ (Transfer(o) <=> transfers)}
Orphans == {o \in Ops : /\ op[o].at = "ended" /\ ~Transfer(o) /\ o \notin failed
                        /\ (stage[o] # None \/ old[o] # None)}

NextPhase ==
    /\ turn = None /\ todo = {}
    /\ \/ phase = "down" /\ phase' = "transfers" /\ todo' = Journals(TRUE)
       \/ phase = "transfers" /\ phase' = "reinstalls" /\ todo' = Journals(FALSE)
       \/ phase = "reinstalls" /\ phase' = "orphans" /\ todo' = Orphans
       \/ phase = "orphans" /\ phase' = "up" /\ todo' = {}
    /\ UNCHANGED <<disk, op, turn, failed, hist, faults>>

Take ==
    /\ turn = None /\ phase \in {"transfers", "reinstalls", "orphans"}
    /\ \E o \in todo : turn' = [op |-> o, at |-> "target"] /\ todo' = todo \ {o}
    /\ UNCHANGED <<disk, op, phase, failed, hist, faults>>

Turn(o, at)  == turn # None /\ turn.op = o /\ turn.at = at
Then(at)     == turn' = [turn EXCEPT !.at = at] /\ UNCHANGED <<failed, faults>>
LeaveIt(o)   == turn' = None /\ failed' = failed \union {o}

\* the old folder, or failing that the new one, gets the name back
PutBack(o) ==
    IF old[o] # None
    THEN /\ folder' = [folder EXCEPT ![Name(o)] = old[o]]
         /\ old' = [old EXCEPT ![o] = None] /\ UNCHANGED stage
    ELSE /\ folder' = [folder EXCEPT ![Name(o)] = stage[o]]
         /\ stage' = [stage EXCEPT ![o] = None] /\ UNCHANGED old

\* .gorganizer-recovered-: the old folder is kept out of the way
Preserve(o) ==
    /\ kept[o] = None
    /\ kept' = [kept EXCEPT ![o] = old[o]] /\ old' = [old EXCEPT ![o] = None]

\* resolveTransferIntent, resolveReinstallIntent: the target
ResolveTarget(o) ==
    /\ phase \in {"transfers", "reinstalls"} /\ Turn(o, "target")
    /\ LET here == folder[Name(o)]
       IN  \/ /\ here = None /\ (old[o] # None \/ stage[o] # None)
              /\ PutBack(o) /\ Then("stage") /\ UNCHANGED kept
           \/ /\ here # None /\ old[o] # None /\ here # o
              /\ Preserve(o) /\ Then("stage") /\ UNCHANGED <<folder, stage>>
           \/ /\ here # None /\ (old[o] = None \/ here = o)
              /\ Then("stage") /\ UNCHANGED <<folder, stage, old, kept>>
           \/ /\ (here = None /\ old[o] = None /\ stage[o] = None) \/ (here # None /\ kept[o] # None)
              /\ LeaveIt(o) /\ UNCHANGED <<folder, stage, old, kept, faults>>
           \/ Fault /\ LeaveIt(o) /\ UNCHANGED <<folder, stage, old, kept>>
    /\ UNCHANGED <<intent, op, phase, todo, hist>>

\* ... then the stage, the old folder and the journal go
ResolveRest(o) ==
    /\ phase \in {"transfers", "reinstalls"}
    /\ \/ /\ Turn(o, "stage") /\ UNCHANGED <<old, intent>>
          /\ \/ Removed(stage, o) /\ Then("old")
             \/ Fault /\ Tears(stage, o) /\ LeaveIt(o)
       \/ /\ Turn(o, "old") /\ UNCHANGED <<stage, intent>>
          /\ \/ Removed(old, o) /\ Then("claim")
             \/ Fault /\ Tears(old, o) /\ LeaveIt(o)
       \/ /\ Turn(o, "claim") /\ turn' = None /\ UNCHANGED <<stage, old, failed>>
          /\ \/ intent' = [intent EXCEPT ![o] = FALSE] /\ UNCHANGED faults
             \/ Fault /\ Unclaims(o)
    /\ UNCHANGED <<folder, kept, op, phase, todo, hist>>

\* reapOrphanReinstallDirs, recoverOrphanOldDir: a torn folder may have lost
\* the metadata that tells its name
ResolveOrphan(o) ==
    /\ phase = "orphans" /\ Turn(o, "target") /\ turn' = None
    /\ \/ Removed(stage, o) /\ UNCHANGED faults
       \/ Fault /\ Tears(stage, o)
    /\ \/ old[o] = None /\ UNCHANGED <<folder, old, kept>>
       \/ old[o] # None /\ folder[Name(o)] # None /\ Preserve(o) /\ UNCHANGED folder
       \/ /\ old[o] # None /\ folder[Name(o)] = None
          /\ folder' = [folder EXCEPT ![Name(o)] = old[o]]
          /\ old' = [old EXCEPT ![o] = None] /\ UNCHANGED kept
       \/ old[o] = Torn /\ UNCHANGED <<folder, old, kept>>
    /\ UNCHANGED <<intent, op, phase, todo, failed, hist>>

-----------------------------------------------------------------------------
Init ==
    /\ folder = [n \in Names |-> n]
    /\ stage = [o \in Ops |-> None] /\ old = stage /\ kept = stage
    /\ intent = [o \in Ops |-> FALSE]
    /\ op = [o \in Ops |-> [at |-> "idle", kind |-> "transfer", name |-> None, base |-> None,
                            used |-> FALSE, report |-> None]]
    /\ phase = "up" /\ todo = {} /\ turn = None /\ failed = {}
    /\ hands = 0 /\ touched = {} /\ taken = {} /\ meddled = {} /\ faults = 0

Replacing(o) ==
    \/ \E n \in Names, k \in Kinds : Begin(o, n, k)
    \/ Build(o) \/ Record(o) \/ Sync(o) \/ Aside(o) \/ Install(o) \/ Restore(o) \/ Rebuild(o)
    \/ Installed(o) \/ Clear(o) \/ Unclaim(o) \/ Discard(o) \/ Undone(o)

Recovering ==
    \/ NextPhase \/ Take
    \/ \E o \in Ops : ResolveTarget(o) \/ ResolveRest(o) \/ ResolveOrphan(o)

Next ==
    \/ \E o \in Ops : Replacing(o)
    \/ \E n \in Names : Remove(n) \/ Put(n)
    \/ \E o \in Ops : LoseJournal(o)
    \/ Crash \/ Recovering

Spec == Init /\ [][Next]_vars

-----------------------------------------------------------------------------
\* A replacement that is running, claimed by a journal, or holds the old folder.
Pending(o) == Running(o) \/ intent[o] \/ old[o] \notin {Torn, None}

\* The folder a replacement found is where its name, the replacement or a
\* recovery that set it aside has it.
Has(o) == op[o].base \in {folder[Name(o)], old[o], kept[o]}

\* What a folder held is deleted only while the replacement it made way for
\* stands in its place, whatever fails and wherever the daemon is killed
\* (replaceDirWithOps, swapReinstalledMod and both recoveries); what the user
\* deletes is his own affair.
OriginalKept ==
    \A o \in Ops :
        Pending(o) /\ Has(o) /\ ~Has(o)' => folder[Name(o)] = o \/ hands' # hands

\* A name nobody works on and no journal claims has a whole folder, unless the
\* user removed it, or a torn one that lost its metadata is all that is left; a
\* name has one journal, and no folder of it is left aside without one (Begin's
\* checks, the rollbacks, recovery).
AtRestWhole ==
    \A n \in Names :
        /\ phase = "up" /\ ~Locked(n) /\ ~Claimed(n) =>
              /\ \/ folder[n] # None \/ n \in taken
                 \/ \E o \in Ops : Name(o) = n /\ old[o] = Torn
              /\ \A o \in Ops : Name(o) = n => old[o] \in {None, Torn}
        /\ folder[n] = Torn => n \in meddled
        /\ \A o, p \in Ops : intent[o] /\ intent[p] /\ Name(o) = n /\ Name(p) = n => o = p

\* What an import says of a replacement is so: nothing pending means nothing
\* changed or all of it did, committed means the new folder is in place
\* (transferCommitError and the summary Import builds from it).
ReportsHold ==
    \A o \in Ops :
        op[o].report = None /\ op[o].report' # None =>
           LET here == folder'[Name(o)]
           IN  /\ op[o].report' \in {"ok", "committed"} => here = o
               /\ op[o].report' = "ok" /\ Transfer(o) => ~intent'[o] /\ old'[o] = None
               /\ op[o].report' = "failed" /\ Transfer(o) => ~intent'[o] /\ here = op[o].base

\* A replacement is one change: the name has the folder it had or the new one,
\* and once it has the new one it keeps it, unless the change is undone before
\* anybody could look; a name changed by hand is left out: what it is to
\* AtomicChange (MCFiles).
Current(n)  == {o \in Ops : Name(o) = n /\ (intent[o] \/ Running(o))}
InPlace(o)  == folder[Name(o)] = o /\ ~(At(o, "rebuild") /\ phase = "up")
Undecided(n) == {o \in Current(n) : ~InPlace(o)}
Settled(n)  ==
    IF n \in touched THEN Unknown
    ELSE IF Undecided(n) = {} THEN folder[n]
    ELSE op[CHOOSE o \in Undecided(n) : TRUE].base
Intended(n) ==
    LET decided == {o \in Undecided(n) : intent[o]}
    IN  IF n \in touched \/ decided = {} THEN None ELSE CHOOSE o \in decided : TRUE
=============================================================================
