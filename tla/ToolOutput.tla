----------------------------- MODULE ToolOutput -----------------------------
(***************************************************************************)
(* Running a modding tool on one game, from LaunchExecutable's admission   *)
(* to the goroutine that collects what the tool wrote                      *)
(* (src/internal/daemon/executables.go and tool_output.go).  Files are     *)
(* inodes, because the farm, the mods and Overwrite share them through     *)
(* hard links: a write in place through one name is a write through all.   *)
(*                                                                         *)
(* Three folders matter: an enabled mod the tool must not spoil ("src"),   *)
(* the mod the tool's output goes to ("out") and Overwrite ("over").       *)
(***************************************************************************)
EXTENDS Naturals, FiniteSets, FiniteSetsExt, TLC

CONSTANTS
    Paths,      \* file names inside Data, numbered as a walk meets them
    OutFiles,   \* the paths the output mod supplies at the start
    Policies,   \* output policies of the tools that are run
    Inodes,     \* bound on the inodes that exist at a time
    MaxRuns,    \* bound on the tool runs of a behaviour
    MaxFaults,  \* bound on the I/O errors and kills
    None

\* There are inodes enough for the files that are there at the start.
PathsAssumption ==
    /\ IsFiniteSet(Paths) /\ Paths \subseteq Nat /\ Inodes \subseteq Nat
    /\ \A p \in Paths : {2 * p, 2 * p + 1} \subseteq Inodes
    /\ None \notin Nat \cup [Paths -> Nat \cup {None}]
    /\ None \notin {"direct", "named", "copyup", "scratch", "exclusive"}

VARIABLES
    live,       \* the session process runs
    mounted,    \* the farm is deployed over Data
    dirty,      \* pending changes are to be applied to the farm
    folder,     \* "src", "out", "over" -> its files, or None without a folder
    farm,       \* the files of the farm
    owned,      \* the farm's manifest: the inode placed at each path
    data,       \* what each inode contains
    scratch,    \* the private output directory of the run
    stage,      \* importScratchOutput's staging folder beside the mods
    parked,     \* its ".previous" folder
    left,       \* what kills left in such folders: <<path, content>>
    run,        \* the tool run in progress
    runs,       \* runs started so far
    faults,     \* faults so far
    latest,     \* history: what tools wrote last at each path
    overtaken   \* history: paths ToolWorkKept says nothing about

vars == <<live, mounted, dirty, folder, farm, owned, data, scratch, stage, parked,
          left, run, runs, faults, latest, overtaken>>
world == <<live, mounted, dirty, farm, owned, data>>
import == <<scratch, stage, parked, left>>
ghosts == <<latest, overtaken>>

Folders == {"src", "out", "over"}
NoFile == [p \in Paths |-> None]
Files == [Paths -> Inodes \cup {None}]
NoRun == [pc |-> "idle", policy |-> None, needs |-> FALSE, profile |-> FALSE,
          target |-> "over", sel |-> None, ok |-> TRUE, kept |-> FALSE,
          old |-> None, new |-> None]

Busy(pc) == run.pc = pc /\ live
At(pc) == [run EXCEPT !.pc = pc]
Failed(pc) == [run EXCEPT !.pc = pc, !.ok = FALSE]
Fault == faults < MaxFaults /\ faults' = faults + 1
NoFault == UNCHANGED faults
NoFaultNoHistory == UNCHANGED <<faults, ghosts, runs>>

Linked(files) == IF files = None THEN {} ELSE {files[p] : p \in Paths} \ {None}
Used == Linked(farm) \cup Linked(owned) \cup UNION {Linked(folder[f]) : f \in Folders}
\* The content of an inode no name is left for is nobody's: it is forgotten.
Tidied == data' = [i \in Inodes |-> IF i \in Used' THEN data[i] ELSE 0]
Fresh == CHOOSE i \in Inodes : i \notin Used
\* New inodes are interchangeable: the files "done" take the lowest, in order.
Lowest(files, done, free) ==
    /\ \A p \in done : files[p] \in free
    /\ \A p, q \in done : p < q => files[p] < files[q]
    /\ \A i \in free : (\E p \in done : i < files[p]) => \E p \in done : files[p] = i
CopyOf(files) == IF files = None THEN None
                 ELSE [p \in Paths |-> IF files[p] = None THEN None ELSE data[files[p]]]

\* The farm BuildInto makes: Overwrite over the output mod over the other mod.
Winner(dirs, p) ==
    LET has(f) == dirs[f] # None /\ dirs[f][p] # None
    IN  IF has("over") THEN dirs["over"][p]
        ELSE IF has("out") THEN dirs["out"][p]
        ELSE IF has("src") THEN dirs["src"][p] ELSE None
Built(dirs) == [p \in Paths |-> Winner(dirs, p)]

\* ClassifyFarm: what is in the farm and was not placed there.
Output == {p \in Paths : farm[p] # None /\ farm[p] # owned[p]}
Moved(files, done) == [p \in Paths |-> IF p \in done THEN farm[p] ELSE files[p]]
Present(files) == IF files = None THEN NoFile ELSE files

Init ==
    /\ live = TRUE /\ mounted = FALSE /\ dirty = FALSE
    /\ folder = [f \in Folders |->
         CASE f = "src" -> [p \in Paths |-> 2 * p]
           [] f = "out" -> [p \in Paths |-> IF p \in OutFiles THEN 2 * p + 1 ELSE None]
           [] f = "over" -> NoFile]
    /\ farm = NoFile /\ owned = NoFile
    /\ data = [i \in Inodes |-> 0]
    /\ scratch = None /\ stage = None /\ parked = None /\ left = {}
    /\ run = NoRun /\ runs = 0 /\ faults = 0
    /\ latest = NoFile /\ overtaken = {}

-----------------------------------------------------------------------------
(* The mount, as other requests and the launch itself move it.             *)

\* Overwrite takes the farm's output and the farm goes (teardown or rebuild).
Swept == [folder EXCEPT !["over"] = Moved(Present(@), Output)]
Dropped == mounted' = FALSE /\ farm' = NoFile /\ owned' = NoFile /\ dirty' = FALSE
Deployed(dirs) ==
    /\ mounted' = TRUE /\ dirty' = FALSE
    /\ farm' = Built(dirs) /\ owned' = Built(dirs)

\* An initial mount is refused while a tool is admitted or tracked.
ToolBusy == run.pc # "idle"
Mount ==
    /\ live /\ ~mounted /\ ~ToolBusy
    /\ Deployed(folder)
    /\ UNCHANGED <<live, folder, data, import, run, runs, faults, ghosts>>
Unmount ==
    /\ live /\ mounted /\ ~ToolBusy
    /\ folder' = Swept /\ Dropped /\ Tidied
    /\ UNCHANGED <<live, import, run, runs, faults, ghosts>>

-----------------------------------------------------------------------------
(* LaunchExecutable.                                                       *)

\* Admission: the launch mutex, no tracked run, a shared reservation.
Admit ==
    /\ live /\ run.pc = "idle" /\ runs < MaxRuns
    /\ runs' = runs + 1
    /\ \E policy \in Policies, needs \in BOOLEAN, profile \in BOOLEAN,
          target \in {"out", "over"}, sel \in Paths :
         /\ policy \in {"named", "scratch"} => needs     \* as in the catalogue
         /\ policy = "exclusive" => ~needs
         /\ policy = "named" => target = "out"
         /\ policy = "copyup" => target = (IF needs THEN "out" ELSE "over")
         /\ policy \in {"direct", "exclusive"} => target = "over"
         /\ ~needs => profile    \* without a mount the profile decides nothing
         /\ policy # "copyup" => sel = Min(Paths)
         /\ run' = [NoRun EXCEPT !.pc = "admitted", !.policy = policy, !.needs = needs,
                                 !.profile = profile, !.target = target, !.sel = sel]
    /\ UNCHANGED <<world, folder, import, faults, ghosts>>

\* A refusal or an error before the tool starts; the reservation is released.
Refused == run' = NoRun /\ UNCHANGED <<runs, ghosts>>

MustUnmount == run.policy = "exclusive" /\ mounted
RefuseMounted ==
    /\ Busy("admitted") /\ MustUnmount
    /\ Refused /\ UNCHANGED <<world, folder, import, faults>>

\* NeedsVFSMounted: mount the profile, apply what is pending; then the capture
\* mod's folder is created when it is missing.
WithFolder(dirs) == IF run.target = "out" /\ dirs["out"] = None
                    THEN [dirs EXCEPT !["out"] = NoFile] ELSE dirs
Prepare ==
    /\ Busy("admitted") /\ ~MustUnmount
    /\ \/ /\ run.needs /\ run.profile /\ ~mounted
          /\ Deployed(folder) /\ folder' = WithFolder(folder)
       \/ /\ run.needs /\ mounted /\ dirty
          /\ Deployed(Swept) /\ folder' = WithFolder(Swept)
       \/ /\ ~(run.needs /\ (IF mounted THEN dirty ELSE run.profile))
          /\ folder' = WithFolder(folder)
          /\ UNCHANGED <<mounted, dirty, farm, owned>>
    /\ run' = At("prepared") /\ Tidied
    /\ UNCHANGED <<live, import>> /\ NoFaultNoHistory
PrepareFails ==
    /\ Busy("admitted") /\ Fault /\ Refused
    /\ UNCHANGED <<world, folder, import>>

\* prepareWritableOutputLayer: farm files the output mod supplies become copies.
Supplied == {p \in Paths : folder["out"][p] # None /\ farm[p] = folder["out"][p]}
WantsLayer == run.policy = "named" /\ mounted /\ run.target = "out"
Privately(done, copies) ==
    /\ Lowest(copies, done, Inodes \ Used)
    /\ farm' = [p \in Paths |-> IF p \in done THEN copies[p] ELSE farm[p]]
    /\ data' = [i \in Inodes |-> IF \E p \in done : copies[p] = i
                                 THEN data[farm[CHOOSE p \in done : copies[p] = i]]
                                 ELSE data[i]]
PrepareLayer ==
    /\ Busy("prepared") /\ WantsLayer
    /\ \E done \in SUBSET Supplied :
         /\ \E copies \in [done -> Inodes \ Used] : Privately(done, copies)
         /\ \/ done = Supplied /\ run' = At("ready") /\ NoFaultNoHistory
            \/ done # Supplied /\ Fault /\ Refused
    /\ UNCHANGED <<live, mounted, dirty, owned, folder, import>>

\* copyUpSelectedInput: a private copy in the output mod, linked into the farm.
WantsCopy == run.policy = "copyup" /\ mounted /\ farm[run.sel] # None
Selected(files) == [files EXCEPT ![run.sel] = Fresh]
\* A copy of an older version than a tool wrote last may replace this one.
CopiesOlder ==
    overtaken' = IF latest[run.sel] \notin {None, data[farm[run.sel]]}
                 THEN overtaken \cup {run.sel} ELSE overtaken
CopyUp ==
    /\ Busy("prepared") /\ WantsCopy /\ Inodes \ Used # {}
    /\ folder' = [folder EXCEPT ![run.target] = Selected(Present(@))]
    /\ data' = [data EXCEPT ![Fresh] = data[farm[run.sel]]]
    /\ run' = At("copied") /\ CopiesOlder
    /\ UNCHANGED <<live, mounted, dirty, farm, owned, import, runs, faults, latest>>
CopyUpUnlink ==
    /\ Busy("copied")
    /\ farm' = [farm EXCEPT ![run.sel] = None]
    /\ run' = At("unlinked")
    /\ UNCHANGED <<live, mounted, dirty, owned, data, folder, import>> /\ NoFaultNoHistory
CopyUpLink ==
    /\ Busy("unlinked")
    /\ farm' = [farm EXCEPT ![run.sel] = folder[run.target][run.sel]]
    /\ run' = At("ready")
    /\ UNCHANGED <<live, mounted, dirty, owned, data, folder, import>> /\ NoFaultNoHistory
NothingToCopy ==
    /\ Busy("prepared") /\ ~WantsLayer /\ ~WantsCopy
    /\ \/ run.policy = "copyup" /\ mounted /\ Refused
       \/ ~(run.policy = "copyup" /\ mounted) /\ run' = At("ready") /\ UNCHANGED <<runs, ghosts>>
    /\ UNCHANGED <<world, folder, import, faults>>
CopyFails ==
    /\ run.pc \in {"prepared", "copied", "unlinked"} /\ live /\ Fault /\ Refused
    /\ UNCHANGED <<world, folder, import>>

\* The tool starts, or fails to and its scratch directory is removed.
Start ==
    /\ Busy("ready")
    /\ scratch' = (IF run.policy = "scratch" THEN NoFile ELSE None)
    /\ run' = At("running")
    /\ UNCHANGED <<world, folder, stage, parked, left>> /\ NoFaultNoHistory
StartFails ==
    /\ Busy("ready") /\ Fault /\ Refused
    /\ UNCHANGED <<world, folder, import>>

-----------------------------------------------------------------------------
(* The tool.  Policies other than scratch and exclusive may write Data.    *)

DataWritable == mounted /\ run.policy \in {"direct", "named", "copyup"}
Wrote(p) == latest' = [latest EXCEPT ![p] = runs]
\* The farm's file was placed and the folder it came from was replaced since.
Orphaned(p) == farm[p] = owned[p] /\ \A f \in Folders : farm[p] \notin Linked(folder[f])
WriteInPlace(p) ==
    /\ Busy("running") /\ DataWritable /\ farm[p] # None
    /\ data' = [data EXCEPT ![farm[p]] = runs] /\ Wrote(p)
    /\ overtaken' = (IF Orphaned(p) THEN overtaken \cup {p} ELSE overtaken)
    /\ UNCHANGED <<live, mounted, dirty, farm, owned, folder, import, run, runs, faults>>
WriteAnew(p) ==     \* a new file, or a replacement renamed over the old one
    /\ Busy("running") /\ DataWritable /\ Inodes \ Used # {}
    /\ farm' = [farm EXCEPT ![p] = Fresh]
    /\ data' = [data EXCEPT ![Fresh] = runs] /\ Wrote(p)
    /\ UNCHANGED <<live, mounted, dirty, owned, folder, import, run, runs, faults, overtaken>>
WriteScratch(p) ==
    /\ Busy("running") /\ run.policy = "scratch"
    /\ scratch' = [scratch EXCEPT ![p] = runs] /\ Wrote(p)
    /\ UNCHANGED <<world, folder, stage, parked, left, run, runs, faults, overtaken>>
\* The tool ends, or CancelExecutable ends it; only exit code 0 is success.
Exit ==
    /\ Busy("running")
    /\ \/ run' = At(IF run.policy = "scratch" THEN "import" ELSE "capture")
       \/ run' = Failed(IF run.policy = "scratch" THEN "clean" ELSE "capture")
    /\ UNCHANGED <<world, folder, import>> /\ NoFaultNoHistory

-----------------------------------------------------------------------------
(* importScratchOutput.                                                    *)

Overlaid(under, top) == [p \in Paths |-> IF top[p] # None THEN top[p] ELSE under[p]]
ImportFailed == run' = [Failed("clean") EXCEPT !.kept = TRUE]
\* The stage is the scratch output over, for Overwrite, what the folder holds.
Base == IF run.target = "over" THEN CopyOf(Present(folder["over"])) ELSE NoFile
StageOutput ==
    /\ Busy("import") /\ scratch # NoFile
    /\ stage' = Overlaid(Base, scratch)
    /\ run' = [At("staged") EXCEPT !.old = CopyOf(folder[run.target]),
                                   !.new = Overlaid(Base, scratch)]
    /\ UNCHANGED <<world, folder, scratch, parked, left>> /\ NoFaultNoHistory
NothingToImport ==
    /\ Busy("import") /\ scratch = NoFile
    /\ run' = At("dirty")
    /\ UNCHANGED <<world, folder, import>> /\ NoFaultNoHistory
StageFails ==
    /\ Busy("import") /\ Fault /\ ImportFailed
    /\ UNCHANGED <<world, folder, import, runs, ghosts>>
Park ==
    /\ Busy("staged")
    /\ \/ /\ folder[run.target] = None
          /\ run' = At("parked") /\ UNCHANGED <<parked, folder, stage, faults>>
       \/ /\ folder[run.target] # None /\ parked' = folder[run.target]
          /\ folder' = [folder EXCEPT ![run.target] = None]
          /\ run' = At("parked") /\ UNCHANGED <<stage, faults>>
       \/ /\ folder[run.target] # None /\ Fault /\ ImportFailed /\ stage' = None
          /\ UNCHANGED <<parked, folder>>
    /\ UNCHANGED <<world, scratch, left, runs, ghosts>>
\* The stage takes the folder's place; its copies are new inodes.
Placed(copies, files) ==
    /\ \A p \in Paths : files[p] = None <=> copies[p] = None
    /\ Lowest(files, {p \in Paths : files[p] # None}, Inodes \ (Used \cup Linked(parked)))
    /\ data' = [i \in Inodes |-> IF \E p \in Paths : files[p] = i
                                 THEN copies[CHOOSE p \in Paths : files[p] = i] ELSE data[i]]
Install ==
    /\ Busy("parked")
    /\ \E files \in Files :
         /\ Placed(stage, files)
         /\ folder' = [folder EXCEPT ![run.target] = files]
    \* what Overwrite gains under a farm the next sweep may replace
    /\ overtaken' = overtaken \cup
         {p \in Paths : run.target = "over" /\ mounted /\ stage[p] # None}
    /\ latest' = [p \in Paths |-> IF run.target = "out" /\ stage[p] = None
                    /\ parked[p] # None /\ latest[p] = data[parked[p]]
                  THEN None ELSE latest[p]]   \* a named mod's output is replaced
    /\ stage' = None /\ run' = At("installed")
    /\ UNCHANGED <<live, mounted, dirty, farm, owned, scratch, parked, left, runs, faults>>
InstallFails ==     \* the old folder is renamed back
    /\ Busy("parked") /\ Fault /\ ImportFailed
    /\ folder' = [folder EXCEPT ![run.target] = parked]
    /\ parked' = None /\ stage' = None
    /\ UNCHANGED <<world, scratch, left, runs, ghosts>>
\* The rename back fails as well, unnoticed: the old folder stays where it is.
Remains(copies) == IF copies = None THEN {} ELSE {<<p, copies[p]>> : p \in Paths}
RollbackFails ==
    /\ Busy("parked") /\ parked # None /\ ImportFailed
    /\ faults + 2 <= MaxFaults /\ faults' = faults + 2
    /\ left' = left \cup Remains(CopyOf(parked))
    /\ parked' = None /\ stage' = None
    /\ UNCHANGED <<live, mounted, dirty, farm, owned, folder>> /\ Tidied
    /\ UNCHANGED <<scratch, runs, ghosts>>
Discard ==
    /\ Busy("installed")
    /\ parked' = None
    /\ \/ run' = At("dirty") /\ UNCHANGED faults
       \/ Fault /\ ImportFailed
    /\ UNCHANGED <<folder, live, mounted, dirty, farm, owned>> /\ Tidied
    /\ UNCHANGED <<scratch, stage, left, runs, ghosts>>
\* A mounted farm is marked dirty; without a profile it is left alone.
MarkDirty ==
    /\ Busy("dirty")
    /\ \/ /\ dirty' = (dirty \/ (mounted /\ run.profile))
          /\ run' = At("clean") /\ UNCHANGED faults
       \/ /\ mounted /\ run.profile /\ Fault
          /\ run' = Failed("clean") /\ UNCHANGED dirty
    /\ UNCHANGED <<live, mounted, farm, owned, data, folder, import, runs, ghosts>>
\* Mutant: the scratch directory is always removed.
KeepsNothing == FALSE
KeepScratch == run.kept
\* The scratch directory goes unless its import failed.
CleanUp ==
    /\ Busy("clean")
    /\ left' = (IF KeepScratch THEN left \cup {<<p, scratch[p]>> : p \in Paths} ELSE left)
    /\ latest' = [p \in Paths |->   \* a failed tool's private output is discarded
         IF ~run.ok /\ ~run.kept /\ run.new = None /\ latest[p] = runs
         THEN None ELSE latest[p]]
    \* a farm that is not marked dirty keeps older files, which a capture may take
    /\ overtaken' = overtaken \cup
         {p \in Paths : mounted /\ ~dirty /\ ~run.kept /\ run.new # None /\ run.new[p] # None}
    /\ scratch' = None /\ run' = At("capture")
    /\ UNCHANGED <<world, folder, stage, parked, runs, faults>>

-----------------------------------------------------------------------------
(* CaptureNewFilesInto, then the run is no longer tracked.                 *)

WantsCapture ==
    run.ok /\ run.needs /\ mounted /\ run.policy \in {"direct", "named", "copyup"}
\* A file that already is the destination's cannot be linked back, and the
\* capture stops there: the rename of a file onto its own link does nothing.
Stuck == {p \in Output : Present(folder[run.target])[p] = farm[p]}
Before(p) == {q \in Output : q < p}
Untracked == run' = NoRun /\ UNCHANGED <<runs, ghosts>>
Capture ==
    /\ Busy("capture") /\ WantsCapture
    /\ \/ /\ Stuck = {}
          /\ folder' = [folder EXCEPT ![run.target] = Moved(Present(@), Output)]
          /\ owned' = [p \in Paths |-> IF p \in Output THEN farm[p] ELSE owned[p]]
          /\ NoFault
       \/ /\ Stuck # {}
          /\ folder' = [folder EXCEPT ![run.target] = Moved(Present(@), Before(Min(Stuck)))]
          /\ UNCHANGED owned /\ NoFault
       \/ /\ Fault
          /\ \E p \in Output :
               folder' = [folder EXCEPT ![run.target] = Moved(Present(@), Before(p))]
          /\ UNCHANGED owned
    /\ Untracked
    /\ UNCHANGED <<live, mounted, dirty, farm, data, import>>
NoCapture ==
    /\ Busy("capture") /\ ~WantsCapture
    /\ Untracked
    /\ UNCHANGED <<world, folder, import, faults>>

-----------------------------------------------------------------------------
(* A kill ends the session and the tool; startup tears the farm down.      *)

Kill ==
    /\ live /\ Fault
    /\ live' = FALSE /\ run' = NoRun
    /\ left' = left \cup Remains(scratch) \cup Remains(stage) \cup Remains(CopyOf(parked))
    /\ scratch' = None /\ stage' = None /\ parked' = None
    /\ UNCHANGED <<mounted, dirty, farm, owned, data, folder, runs, ghosts>>
Restart ==
    /\ ~live /\ live' = TRUE
    /\ folder' = Swept /\ Dropped /\ Tidied
    /\ UNCHANGED <<import, run, runs, faults, ghosts>>

ToolStep == \E p \in Paths : WriteInPlace(p) \/ WriteAnew(p) \/ WriteScratch(p)
Next ==
    \/ Mount \/ Unmount
    \/ Admit \/ RefuseMounted \/ Prepare \/ PrepareFails
    \/ PrepareLayer \/ CopyUp \/ CopyUpUnlink \/ CopyUpLink \/ NothingToCopy \/ CopyFails
    \/ Start \/ StartFails \/ ToolStep \/ Exit
    \/ StageOutput \/ NothingToImport \/ StageFails \/ Park \/ Install \/ InstallFails
    \/ RollbackFails \/ Discard \/ MarkDirty \/ CleanUp \/ Capture \/ NoCapture
    \/ Kill \/ Restart

Spec == Init /\ [][Next]_vars

-----------------------------------------------------------------------------
(* Properties.                                                             *)

\* What the two protected policies promise about files that exist already: a
\* selected_copy_up tool never changes the other mods' version of its selected
\* input, and a named_output_mod tool changes its own mod only by the capture.
ToolsKeepSources ==
    /\ run.policy = "copyup" /\ run.pc # "capture" /\ data # data' /\ mounted
         => data'[folder["src"][run.sel]] = data[folder["src"][run.sel]]
    /\ run.policy = "named" /\ run.target = "out" /\ run.pc = "running"
         => CopyOf(folder["out"])' = CopyOf(folder["out"])

\* What a tool wrote last at a path is somewhere: in the farm, a mod, Overwrite
\* or a folder of an unfinished import; overtaken paths excepted (README).
ToolWorkKept ==
    \A p \in Paths \ overtaken : latest[p] # None =>
        \/ \E f \in Folders : folder[f] # None /\ CopyOf(folder[f])[p] = latest[p]
        \/ CopyOf(farm)[p] = latest[p]
        \/ \E c \in {scratch, stage, CopyOf(parked)} : c # None /\ c[p] = latest[p]
        \/ <<p, latest[p]>> \in left

\* An import that was not killed leaves the capture mod as it was or as the
\* complete result, whichever of its steps failed; when the roll-back failed as
\* well, every file it had is in the folder beside it (tool_output.go:187).
ImportWhole ==
    run.pc \in {"dirty", "clean"} /\ run.new # None =>
        \/ CopyOf(folder[run.target]) \in {run.old, run.new}
        \/ folder[run.target] = None /\ Remains(run.old) \subseteq left

\* The import is said to commit atomically (tool_output.go:123): the capture mod
\* is as it was or as the complete result.  It is neither when the new folder could
\* not be renamed into place and the old one could not be renamed back (187).
ImportAtomic ==
    run.pc \in {"dirty", "clean"} /\ run.new # None =>
        CopyOf(folder[run.target]) \in {run.old, run.new}

\* A tool that edits the mods themselves never runs beside the deployed farm.
SourceEditsUnmounted == run.pc = "running" /\ run.policy = "exclusive" => ~mounted
=============================================================================
