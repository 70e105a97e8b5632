------------------------------ MODULE MCFiles ------------------------------
(***************************************************************************)
(* The components that change files on disk under a journal, an intent or  *)
(* a record of their own, side by side: the links in the game's folder     *)
(* (RootDeployment), SMAPI (SmapiTxn), the folders of mods and profiles    *)
(* (FolderSwap), what a tool writes (ToolOutput), a data migration         *)
(* (Migrate) and the script extender (ScriptExtender).                     *)
(*                                                                         *)
(* None touches the files of another, so a behaviour is one of one part:   *)
(* the parts take turns at the variables x1 to x16, and an INSTANCE says   *)
(* what each is called there.  What they promise alike is one property.    *)
(***************************************************************************)
EXTENDS Naturals, FiniteSets, TLC

CONSTANTS
    Parts,          \* the parts that are run
    o1, o2,         \* replacements of a folder
    None, Unknown

VARIABLES part, x1, x2, x3, x4, x5, x6, x7, x8, x9, x10, x11, x12, x13, x14, x15, x16
vars == <<part, x1, x2, x3, x4, x5, x6, x7, x8, x9, x10, x11, x12, x13, x14, x15, x16>>

\* The values of constants that are sets have names: TLC evaluates those once.
\* Two mods that share a path; the second has content in a subfolder.
Links     == {"p1", "p2", "p3"}
Subfolder == {"p3"}
RootMods  == {"m1", "m2"}
TwoMods == [m \in RootMods |-> IF m = "m1" THEN {"p1", "p2"} ELSE {"p2", "p3"}]
GameBuilds == {"original", "updated"}
ModLists == {<<>>, <<"m1">>, <<"m1", "m2">>}
\* The first version of SMAPI places a file more than the second.
TwoVersions == [v \in {"v1", "v2"} |-> IF v = "v1" THEN {"extra"} ELSE {}]
NothingMore == [v \in {"v1", "v2"} |-> {}]
Extra     == {"extra"}
SmapiVersions == {"v1", "v2"}
Launchers == {"shipped", "updated"}
Shipped   == {"shipped"}
Mine      == {"mine"}
Settings  == {"first", "second"}
\* One folder that a mod has and one of a profile are replaced.
OneMod     == {"mod"}
OneProfile == {"profile"}
\* A tool reads two files and may write both; the inodes are more than it needs.
TwoFiles   == {1, 2}
OneFile    == {1}
Output     == {1}
Manners    == {"direct", "named", "scratch", "exclusive"}
Upwards    == {"copyup"}
Private    == {"scratch"}
AllManners == Manners \cup Upwards
TenInodes  == 1..10
\* Two games are moved, of two files each.
Moved      == <<"skyrim", "fallout">>
MovedFiles == {"f1", "f2"}
ExtenderFiles == {"loader", "old.dll", "new.dll", "ini"}
\* The second build renames the extender's library and keeps its settings file.
Builds == {("loader" :> "one" @@ "old.dll" :> "one" @@ "ini" :> "one"),
           ("loader" :> "two" @@ "new.dll" :> "two" @@ "ini" :> "one")}
Ops == {o1, o2}
Symmetry == Permutations(Ops)

-----------------------------------------------------------------------------
Root == INSTANCE RootDeployment WITH
    Paths <- Links, InFolder <- Subfolder, Mods <- RootMods,
    Provides <- TwoMods, Orders <- ModLists, GameFiles <- GameBuilds,
    MaxFaults <- 1, MaxChanges <- 1, dest <- x1, backup <- x2, folder <- x3,
    manifest <- x4, intent <- x5, present <- x6, op <- x7, outcome <- x8, faults <- x9,
    changes <- x10, own <- x11, disturbed <- x12

Smapi == INSTANCE SmapiTxn WITH
    Launcher <- "launcher", LauncherOld <- "launcherOld", Internal <- "internal",
    Extras <- Extra, Versions <- SmapiVersions, Payload <- TwoVersions,
    Vanillas <- Launchers, Own <- Mine,
    Configs <- {}, MaxOps <- 2, MaxFaults <- 1, MaxChanges <- 1,
    at <- x1, backup <- x2, saved <- x3, record <- x4, intent <- x5, op <- x6,
    outcome <- x7, ops <- x8, faults <- x9, changes <- x10, own <- x11, config <- x12,
    before <- x13, disturbed <- x14, unseen <- x15

\* The loader's configuration, which the player may change, without other files.
Config == INSTANCE SmapiTxn WITH
    Launcher <- "launcher", LauncherOld <- "launcherOld", Internal <- "internal",
    Extras <- {}, Versions <- SmapiVersions, Payload <- NothingMore,
    Vanillas <- Shipped, Own <- {},
    Configs <- Settings, MaxOps <- 2, MaxFaults <- 1, MaxChanges <- 1,
    at <- x1, backup <- x2, saved <- x3, record <- x4, intent <- x5, op <- x6,
    outcome <- x7, ops <- x8, faults <- x9, changes <- x10, own <- x11, config <- x12,
    before <- x13, disturbed <- x14, unseen <- x15

Swap == INSTANCE FolderSwap WITH
    Mods <- OneMod, Profiles <- OneProfile, Ops <- Ops, Other <- "other",
    Torn <- "torn", MaxFaults <- 2, MaxHands <- 2, folder <- x1, stage <- x2,
    old <- x3, kept <- x4, intent <- x5, op <- x6, phase <- x7, todo <- x8, turn <- x9,
    failed <- x10, hands <- x11, touched <- x12, taken <- x13, meddled <- x14,
    faults <- x15

\* Copying up is run by itself: beside the others it would only multiply.
Tools == INSTANCE ToolOutput WITH
    Paths <- TwoFiles, OutFiles <- Output, Policies <- Manners, Inodes <- TenInodes,
    MaxRuns <- 2, MaxFaults <- 1, live <- x1, mounted <- x2, dirty <- x3, folder <- x4,
    farm <- x5, owned <- x6, data <- x7, scratch <- x8, stage <- x9, parked <- x10,
    left <- x11, run <- x12, runs <- x13, faults <- x14, latest <- x15, overtaken <- x16

CopyUp == INSTANCE ToolOutput WITH
    Paths <- TwoFiles, OutFiles <- Output, Policies <- Upwards, Inodes <- TenInodes,
    MaxRuns <- 1, MaxFaults <- 1, live <- x1, mounted <- x2, dirty <- x3, folder <- x4,
    farm <- x5, owned <- x6, data <- x7, scratch <- x8, stage <- x9, parked <- x10,
    left <- x11, run <- x12, runs <- x13, faults <- x14, latest <- x15, overtaken <- x16

\* Three runs, with every policy: what a run leaves in the farm a later one may
\* collect over the work of the run between them.  One file is enough for that.
Thrice == INSTANCE ToolOutput WITH
    Paths <- OneFile, OutFiles <- Output, Policies <- AllManners, Inodes <- TenInodes,
    MaxRuns <- 3, MaxFaults <- 1, live <- x1, mounted <- x2, dirty <- x3, folder <- x4,
    farm <- x5, owned <- x6, data <- x7, scratch <- x8, stage <- x9, parked <- x10,
    left <- x11, run <- x12, runs <- x13, faults <- x14, latest <- x15, overtaken <- x16

\* An import whose publication and roll-back both fail.
Undone == INSTANCE ToolOutput WITH
    Paths <- OneFile, OutFiles <- Output, Policies <- Private, Inodes <- TenInodes,
    MaxRuns <- 2, MaxFaults <- 2, live <- x1, mounted <- x2, dirty <- x3, folder <- x4,
    farm <- x5, owned <- x6, data <- x7, scratch <- x8, stage <- x9, parked <- x10,
    left <- x11, run <- x12, runs <- x13, faults <- x14, latest <- x15, overtaken <- x16

Move == INSTANCE Migrate WITH
    Order <- Moved, Files <- MovedFiles, Extra <- "extra",
    MaxFaults <- 2, MaxHands <- 1, mode <- x1, src <- x2, parked <- x3, stage <- x4,
    dst <- x5, journal <- x6, settings <- x7, at <- x8, mem <- x9, to <- x10,
    daemon <- x11, known <- x12, faults <- x13, hands <- x14

Extender == INSTANCE ScriptExtender WITH
    File <- ExtenderFiles, Build <- Builds,
    Absent <- "absent", MaxKills <- 2, disk <- x1, manifest <- x2, install <- x3,
    launch <- x4, mounted <- x5, playing <- x6, kills <- x7

\* What the parts ask of their constants.
ASSUME Root!RootAssumption /\ Smapi!SmapiAssumption /\ Config!SmapiAssumption
ASSUME Tools!PathsAssumption /\ CopyUp!PathsAssumption /\ Thrice!PathsAssumption
ASSUME Undone!PathsAssumption
ASSUME Move!OrderAssumption /\ Move!NoneAssumption /\ Swap!SwapAssumption
ASSUME Extender!ExtenderAssumption

-----------------------------------------------------------------------------
Init ==
    /\ part \in Parts
    /\ \/ part = "root" /\ Root!Init /\ x13 = 0 /\ x14 = 0 /\ x15 = 0 /\ x16 = 0
       \/ part = "smapi" /\ Smapi!Init /\ x16 = 0
       \/ part = "config" /\ Config!Init /\ x16 = 0
       \/ part = "swap" /\ Swap!Init /\ x16 = 0
       \/ part = "tools" /\ Tools!Init
       \/ part = "copyup" /\ CopyUp!Init
       \/ part = "thrice" /\ Thrice!Init
       \/ part = "undone" /\ Undone!Init
       \/ part = "move" /\ Move!Init /\ x15 = 0 /\ x16 = 0
       \/ /\ part = "extender" /\ Extender!Init /\ x8 = 0 /\ x9 = 0 /\ x10 = 0
          /\ x11 = 0 /\ x12 = 0 /\ x13 = 0 /\ x14 = 0 /\ x15 = 0 /\ x16 = 0

RootNext == part = "root" /\ Root!Next /\ UNCHANGED <<part, x13, x14, x15, x16>>
SmapiNext == part = "smapi" /\ Smapi!Next /\ UNCHANGED <<part, x16>>
ConfigNext == part = "config" /\ Config!Next /\ UNCHANGED <<part, x16>>
SwapNext == part = "swap" /\ Swap!Next /\ UNCHANGED <<part, x16>>
ToolsNext == part = "tools" /\ Tools!Next /\ UNCHANGED part
CopyUpNext == part = "copyup" /\ CopyUp!Next /\ UNCHANGED part
ThriceNext == part = "thrice" /\ Thrice!Next /\ UNCHANGED part
UndoneNext == part = "undone" /\ Undone!Next /\ UNCHANGED part
MoveNext == part = "move" /\ Move!Next /\ UNCHANGED <<part, x15, x16>>
ExtenderNext ==
    /\ part = "extender" /\ Extender!Next
    /\ UNCHANGED <<part, x8, x9, x10, x11, x12, x13, x14, x15, x16>>

Next ==
    \/ RootNext \/ SmapiNext \/ ConfigNext \/ SwapNext \/ ToolsNext \/ CopyUpNext
    \/ ThriceNext \/ UndoneNext \/ MoveNext \/ ExtenderNext

Spec == Init /\ [][Next]_vars

-----------------------------------------------------------------------------
\* Every variable keeps its type.
Typed ==
    /\ part = "root" => Root!TypeOK
    /\ part = "smapi" => Smapi!TypeOK
    /\ part = "config" => Config!TypeOK
    /\ part = "swap" => Swap!TypeOK
    /\ part = "move" => Move!TypeOK
    /\ part = "extender" => Extender!TypeOK

\* A change takes effect as a whole, after any failure or kill.  The game-root
\* deployment is never rolled back: its recovery goes on to the end.
RootChange == INSTANCE AtomicChange WITH
    Values <- Root!Outcomes \cup {None}, RollsBack <- FALSE,
    settled <- IF part = "root" THEN Root!Settled ELSE None,
    intended <- IF part = "root" THEN Root!Intended ELSE None
SmapiChange == INSTANCE AtomicChange WITH
    Values <- Smapi!Outcomes \cup {None}, RollsBack <- TRUE,
    settled <- IF part = "smapi" THEN Smapi!Settled ELSE None,
    intended <- IF part = "smapi" THEN Smapi!Intended ELSE None
ModChange == INSTANCE AtomicChange WITH
    Values <- Swap!Folders \cup {None}, RollsBack <- TRUE,
    settled <- IF part = "swap" THEN Swap!Settled("mod") ELSE None,
    intended <- IF part = "swap" THEN Swap!Intended("mod") ELSE None
ProfileChange == INSTANCE AtomicChange WITH
    Values <- Swap!Folders \cup {None}, RollsBack <- TRUE,
    settled <- IF part = "swap" THEN Swap!Settled("profile") ELSE None,
    intended <- IF part = "swap" THEN Swap!Intended("profile") ELSE None

\* Deploying links next to the game's executables, installing or removing
\* SMAPI, and replacing the folder of a mod or of a profile are each one change
\* (AtomicChange): root_deployment.go:412, smapi/txn.go:176, transfer/commit.go:94.
ChangesAtomically == RootChange!Spec /\ SmapiChange!Spec /\ ModChange!Spec /\ ProfileChange!Spec

\* No step deletes or replaces what somebody else put there or still needs: a file
\* of the game, a folder that a replacement made way for, another mod's version of
\* a tool's input, a file changed by hand during a move, the script extender under
\* a launch or a game.
FilesKept ==
    [][/\ part = "root" => Root!KeepsGameFiles
       /\ part = "swap" => Swap!OriginalKept
       /\ part \in {"tools", "copyup"} => Tools!ToolsKeepSources
       /\ part = "thrice" => Thrice!ToolsKeepSources
       /\ part = "undone" => Undone!ToolsKeepSources
       /\ part = "move" => Move!ChangesKept
       /\ part = "extender" => Extender!NotUnderLaunch]_vars

\* What a failure or a kill leaves can be told and finished: at rest the records
\* say what is on disk, and recovery does not give up unless somebody else
\* changed the files (but for a folder that the deployment removed itself).
RestIsWhole ==
    /\ Typed
    /\ part = "root" => Root!AtRest /\ Root!OnlyTheFolderBlocks
    /\ part = "smapi" => Smapi!RecordIsTrue /\ Smapi!CrashIsRecoverable
    /\ part = "swap" => Swap!AtRestWhole
    /\ part = "move" => Move!MovesAsOne

\* The player's work is never lost half-way: his own files and configuration
\* under SMAPI, what a tool wrote last, every file of a folder that is moved.
WorkKept ==
    /\ part = "smapi" => Smapi!OriginalsKept
    /\ part = "config" => Config!ConfigKept
    /\ part \in {"tools", "copyup"} => Tools!ToolWorkKept /\ Tools!ImportWhole
    /\ part = "thrice" => Thrice!ToolWorkKept /\ Thrice!ImportWhole
    /\ part = "undone" => Undone!ToolWorkKept /\ Undone!ImportWhole
    /\ part = "move" => Move!NothingLost

\* What an import says of a replacement is so (transfer/commit.go).
ReportsHold == [][part = "swap" => Swap!ReportsHold]_vars

\* What is started stays what was checked: the recorded files of the script extender
\* are one build's, and no tool that edits the mods runs beside the deployed farm.
RunsWhole ==
    /\ part = "extender" => Extender!PlaysAsRecorded
    /\ part = "tools" => Tools!SourceEditsUnmounted
    /\ part = "thrice" => Thrice!SourceEditsUnmounted

=============================================================================
