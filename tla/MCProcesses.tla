---------------------------- MODULE MCProcesses ----------------------------
(***************************************************************************)
(* The components in which processes and goroutines race one another and   *)
(* are killed, side by side: the download queue (Downloads), the versions  *)
(* of the program and the sessions that run them (Release), the service    *)
(* and whoever starts, asks and stops it (Supervisor), the commands that   *)
(* need it to be down (Offline), the TTW installer (TtwInstall), and two   *)
(* games that share an install (Session).                                  *)
(*                                                                         *)
(* A behaviour is one of one part: the parts take turns at the variables   *)
(* x1 to x23, and an INSTANCE says what each is called there.              *)
(***************************************************************************)
EXTENDS Naturals, FiniteSets, TLC

CONSTANTS
    Parts,          \* the parts that are run
    a1, a2,         \* two downloads, managers, services, games, installs
    None

VARIABLES part,
    x1, x2, x3, x4, x5, x6, x7, x8, x9, x10, x11, x12, x13, x14, x15, x16, x17, x18,
    x19, x20, x21, x22, x23
vars == <<part,
    x1, x2, x3, x4, x5, x6, x7, x8, x9, x10, x11, x12, x13, x14, x15, x16, x17, x18,
    x19, x20, x21, x22, x23>>

Both == {a1, a2}
Symmetry == Permutations(Both)

\* The values of constants that are sets have names: TLC evaluates those once.
\* Both downloads are of the same archive, as when a link is clicked twice.
Archive       == {"archive"}
OneArchive    == [id \in Both |-> "archive"]
FiveInodes    == 1..5
OneOrTwo      == {1, 2}
ThreeVersions == 1..3
OneSitting    == {"sitting"}
OneProfile    == {"profile"}
OneClient     == {"client"}
ThreePids     == Both \cup {"third"}
OneWindow     == {"window"}
OneLink       == {"link"}
OneMod        == {"mod"}
OneVersion    == {"build"}

-----------------------------------------------------------------------------
\* Two games that share an install: MCSession has one with two profiles.
Games == INSTANCE Session WITH
    Games <- Both, Profiles <- OneProfile, Clients <- OneClient, Boot <- "boot",
    Ticker <- "ticker", HasLoader <- FALSE, Arriving <- {}, MaxFaults <- 0, farm <- x1,
    root <- x2, ticket <- x3, intent <- x4, starting <- x5, running <- x6, up <- x7,
    stopping <- x8, mounted <- x9, dirty <- x10, shared <- x11, exclusive <- x12,
    flag <- x13, tracked <- x14, deferred <- x15, dataPending <- x16,
    rootPending <- x17, loaderPending <- x18, replayPending <- x19,
    replayRunning <- x20, land <- x21, job <- x22, faults <- x23

Downloads == INSTANCE Downloads WITH
    Ids <- Both, Archives <- Archive, ArchiveOf <- OneArchive, Inodes <- FiveInodes,
    Size <- 2, Limits <- OneOrTwo, MaxEvents <- 2, part <- x1, archive <- x2,
    sidecar <- x3, index <- x4, ledger <- x5, record <- x6, queued <- x7, active <- x8,
    retrying <- x9, claims <- x10, pump <- x11, awake <- x12, pipe <- x13,
    limit <- x14, lander <- x15, cancelling <- x16, removing <- x17, starting <- x18,
    expired <- x19, events <- x20, asked <- x21, given <- x22, unsaved <- x23

Release == INSTANCE Release WITH
    Version <- ThreeVersions, Manager <- Both, Sitting <- OneSitting, MaxOps <- 3,
    MaxFaults <- 1, lock <- x1, dir <- x2, hurt <- x3, current <- x4, previous <- x5,
    stages <- x6, op <- x7, slock <- x8, marker <- x9, sitting <- x10, cut <- x11,
    ops <- x12, faults <- x13

Supervisor == INSTANCE Supervisor WITH
    Pid <- ThreePids, Window <- OneWindow, Link <- OneLink, MaxFaults <- 1,
    service <- x1, asked <- x2, slock <- x3, nlock <- x4, window <- x5, link <- x6,
    added <- x7, stop <- x8, faults <- x9

Offline == INSTANCE Offline WITH
    Game <- Both, MaxTurns <- 4, game <- x1, holder <- x2, open <- x3, cmd <- x4,
    left <- x5, turns <- x6

Ttw == INSTANCE TtwInstall WITH
    Install <- Both, Mod <- OneMod, Version <- OneVersion, Nobody <- None, MaxKills <- 1,
    run <- x1, proc <- x2, handles <- x3, folder <- x4, marker <- x5, bin <- x6,
    prefix <- x7, doubt <- x8, overlap <- x9, kills <- x10

\* What the parts ask of their constants.
ASSUME Downloads!SizeAssumption /\ Downloads!ValuesAssumption /\ Release!ReleaseAssumption
ASSUME Supervisor!SupervisorAssumption /\ Offline!OfflineAssumption /\ Ttw!TtwAssumption

-----------------------------------------------------------------------------
Init ==
    /\ part \in Parts
    /\ \/ part = "games" /\ Games!Init
       \/ part = "downloads" /\ Downloads!Init
       \/ /\ part = "release" /\ Release!Init /\ x14 = 0 /\ x15 = 0 /\ x16 = 0
          /\ x17 = 0 /\ x18 = 0 /\ x19 = 0 /\ x20 = 0 /\ x21 = 0 /\ x22 = 0 /\ x23 = 0
       \/ /\ part = "supervisor" /\ Supervisor!Init /\ x10 = 0 /\ x11 = 0 /\ x12 = 0
          /\ x13 = 0 /\ x14 = 0 /\ x15 = 0 /\ x16 = 0 /\ x17 = 0 /\ x18 = 0 /\ x19 = 0
          /\ x20 = 0 /\ x21 = 0 /\ x22 = 0 /\ x23 = 0
       \/ /\ part = "offline" /\ Offline!Init /\ x7 = 0 /\ x8 = 0 /\ x9 = 0 /\ x10 = 0
          /\ x11 = 0 /\ x12 = 0 /\ x13 = 0 /\ x14 = 0 /\ x15 = 0 /\ x16 = 0 /\ x17 = 0
          /\ x18 = 0 /\ x19 = 0 /\ x20 = 0 /\ x21 = 0 /\ x22 = 0 /\ x23 = 0
       \/ /\ part = "ttw" /\ Ttw!Init /\ x11 = 0 /\ x12 = 0 /\ x13 = 0 /\ x14 = 0
          /\ x15 = 0 /\ x16 = 0 /\ x17 = 0 /\ x18 = 0 /\ x19 = 0 /\ x20 = 0 /\ x21 = 0
          /\ x22 = 0 /\ x23 = 0

GamesNext == part = "games" /\ Games!Next /\ UNCHANGED part
DownloadsNext == part = "downloads" /\ Downloads!Next /\ UNCHANGED part
ReleaseNext ==
    /\ part = "release" /\ Release!Next
    /\ UNCHANGED <<part, x14, x15, x16, x17, x18, x19, x20, x21, x22, x23>>
SupervisorNext ==
    /\ part = "supervisor" /\ Supervisor!Next
    /\ UNCHANGED <<part, x10, x11, x12, x13, x14, x15, x16, x17, x18, x19, x20, x21, x22,
                 x23>>
OfflineNext ==
    /\ part = "offline" /\ Offline!Next
    /\ UNCHANGED <<part, x7, x8, x9, x10, x11, x12, x13, x14, x15, x16, x17, x18, x19, x20,
                 x21, x22, x23>>
TtwNext ==
    /\ part = "ttw" /\ Ttw!Next
    /\ UNCHANGED <<part, x11, x12, x13, x14, x15, x16, x17, x18, x19, x20, x21, x22, x23>>

Next == GamesNext \/ DownloadsNext \/ ReleaseNext \/ SupervisorNext \/ OfflineNext \/ TtwNext

Spec == Init /\ [][Next]_vars

-----------------------------------------------------------------------------
\* Every variable keeps its type.
Typed ==
    /\ part = "downloads" => Downloads!TypeOK
    /\ part = "release" => Release!TypeOK
    /\ part = "supervisor" => Supervisor!TypeOK
    /\ part = "offline" => Offline!TypeOK
    /\ part = "ttw" => Ttw!TypeOK

\* What the ledger has recorded of the user's wishes stays there or is there as a
\* whole archive, the name of an archive never holds a part of one, and no wake-up
\* of the queue is lost, whatever raced or failed (download/downloader.go:465,
\* download/landing.go).
DownloadsKept ==
    part = "downloads" =>
        Downloads!NothingForgotten /\ Downloads!ArchivesWhole /\ Downloads!PumpIsTold

\* Of two games that share an install only one is started, recovered or has its
\* mods changed at a time; one that was handed to Steam is recorded for the daemon
\* that comes after a crash, whichever of them is mounted, switched or recovered
\* meanwhile (session.go, fence.go:150, launch.go:146).
GamesApart ==
    part = "games" =>
        Games!FenceExclusion /\ Games!LaunchIsRecorded /\ Games!NoReaderUnderRecovery

\* Both links name complete versions at every step, a session keeps the folder
\* it runs from, and a rollback has somewhere to go (release.go:401, :507).
VersionsWhole == part = "release" => Release!VersionsWhole

\* What a command says it did is so: a link that failed was not added, a service
\* that was stopped is gone, an installer's exit code is its own.
AnswersTrue ==
    /\ Typed
    /\ part = "supervisor" => Supervisor!FailedIsNotAdded /\ Supervisor!StoppedIsGone
    /\ part = "ttw" => Ttw!ExitIsTrue

\* What TTW is launched with was finished by one run of a whole installer, and
\* nothing else runs in its Proton prefix meanwhile (ttw.go, proton_external.go).
TtwWhole == part = "ttw" => Ttw!TtwWhole

\* No process undoes what another one still needs: a game's mods stay while it is
\* started and runs, a supervisor whose child runs asks only that one to shut down,
\* an update installs no older version than the one there, and the offline commands
\* leave games that were just launched, or were not there.
OthersSpared ==
    [][/\ part = "games" => Games!KeepsMods
       /\ part = "supervisor" => Supervisor!StopsOwnChild
       /\ part = "release" => Release!NeverOlder
       /\ part = "offline" =>
             Offline!DeletedWhenBack /\ Offline!MissingKeepsMods /\ Offline!LaunchedIsLeft]_vars

=============================================================================
