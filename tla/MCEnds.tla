------------------------------- MODULE MCEnds -------------------------------
(***************************************************************************)
(* That what is begun also ends, for the components whose steps the        *)
(* program takes on its own: the operations of a mod farm (Farm), a move   *)
(* of the data folders (Migrate), and the cancelling of a TTW installer    *)
(* (TtwInstall).                                                           *)
(*                                                                         *)
(* A behaviour is one of one part: the parts take turns at the variables   *)
(* x1 to x14, and an INSTANCE says what each is called there.              *)
(***************************************************************************)
EXTENDS Naturals, TLC

CONSTANTS
    Parts,              \* the parts that are run
    d1, d2, d3, d4,     \* identities of folders
    None

VARIABLES part, x1, x2, x3, x4, x5, x6, x7, x8, x9, x10, x11, x12, x13, x14
vars == <<part, x1, x2, x3, x4, x5, x6, x7, x8, x9, x10, x11, x12, x13, x14>>

-----------------------------------------------------------------------------
Farm == INSTANCE Farm WITH
    Original <- "original", Farms <- {d1, d2, d3, d4}, Foreign <- {},
    Files <- {"file"}, Layers <- {"layers"}, MaxFaults <- 1,
    WriteWindows <- {"deactivate", "cleanup"}, Inherited <- FALSE, ns <- x1, dir <- x2,
    written <- x3, saved <- x4, batch <- x5, maint <- x6, unverified <- x7,
    changed <- x8, strangers <- x9, mgr <- x10, pc <- x11, op <- x12, outcome <- x13,
    faults <- x14

\* Two games with two files each; the first file stands for those copied first.
Move == INSTANCE Migrate WITH
    Order <- <<"skyrim", "fallout">>, Files <- {"f", "g"}, Extra <- "extra",
    MaxFaults <- 1, MaxHands <- 1, mode <- x1, src <- x2, parked <- x3, stage <- x4,
    dst <- x5, journal <- x6, settings <- x7, at <- x8, mem <- x9, to <- x10,
    daemon <- x11, known <- x12, faults <- x13, hands <- x14

Ttw == INSTANCE TtwInstall WITH
    Install <- {"install"}, Mod <- {"mod"}, Version <- {1}, Nobody <- None,
    MaxKills <- 1, run <- x1, proc <- x2, handles <- x3, folder <- x4, marker <- x5,
    bin <- x6, prefix <- x7, doubt <- x8, overlap <- x9, kills <- x10

\* What the parts ask of their constants.
ASSUME Move!OrderAssumption /\ Move!NoneAssumption

-----------------------------------------------------------------------------
Init ==
    /\ part \in Parts
    /\ \/ part = "farm" /\ Farm!Init
       \/ part = "move" /\ Move!Init
       \/ part = "ttw" /\ Ttw!Init /\ x11 = 0 /\ x12 = 0 /\ x13 = 0 /\ x14 = 0

\* A step of a part leaves the rest as it is.
InFarm == part = "farm" /\ UNCHANGED part
InMove == part = "move" /\ UNCHANGED part
InTtw  == part = "ttw" /\ UNCHANGED <<part, x11, x12, x13, x14>>

Next ==
    \/ InFarm /\ Farm!Next
    \/ InMove /\ Move!Next
    \/ InTtw /\ Ttw!Next

\* The daemon goes on with what it started on the farm, and recovers when it starts;
\* a move goes on, is resumed, and a start that was refused ends; the waits of a
\* cancel time out, SIGKILL ends a process, and the goroutines of an install run.
Fairness ==
    /\ WF_vars(InFarm /\ Farm!Working)
    /\ WF_vars(InMove /\ Move!Moves)
    /\ WF_vars(InMove /\ Move!Resume)
    /\ WF_vars(InMove /\ Move!checkMigrationBeforeStart)
    /\ WF_vars(InTtw /\ Ttw!Escalate("install"))
    /\ WF_vars(InTtw /\ Ttw!Killed("install"))
    /\ WF_vars(InTtw /\ Ttw!Send("install"))
    /\ WF_vars(InTtw /\ Ttw!Close("install"))
    /\ WF_vars(InTtw /\ Ttw!Collect("install"))
    /\ WF_vars(InTtw /\ Ttw!Finalize("install"))

Spec == Init /\ [][Next]_vars /\ Fairness

-----------------------------------------------------------------------------
\* The daemon's operations on a farm end: every one of them, and every recovery,
\* returns to idle, however many of its steps failed (mount.go, recovery.go).
OperationsEnd == []<>(part = "farm" => Farm!OperationEnded)

\* What a game or a tool the daemon does not see writes while its farm is taken down,
\* after an operation failed or was killed and was taken up again, is in no farm that
\* is removed: a farm is captured when it is parked and once more before it goes
\* (deactivation.go:198, 253; mount.go).
OutputKept == part = "farm" => Farm!OutputSafe

\* A move of the data folders is finished: it is resumed after every failure and
\* kill, unless somebody changes the folders by hand meanwhile (migrate/executor.go).
MoveFinishes == (part = "move" /\ Move!Unfinished) ~> (part = "move" => ~Move!Unfinished)

\* A cancelled installer under Proton ends: by itself, asked by the prefix's
\* wineserver, or killed (ttw.go, proton_external.go:312).
CancelEnds ==
    (part = "ttw" /\ Ttw!Stopping("install")) ~> (part = "ttw" => ~Ttw!Stopping("install"))
=============================================================================
