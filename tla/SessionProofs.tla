---------------------------- MODULE SessionProofs ----------------------------
(***************************************************************************)
(* Session is type-correct and its reservations exclude one another, for   *)
(* every number of games, profiles, clients and faults.                    *)
(*                                                                         *)
(* Every step of a worker is one of five moves: it keeps what it holds,    *)
(* takes or gives back the exclusive reservation, joins or leaves the      *)
(* shared ones.  Each move preserves the invariant; each action is shown   *)
(* to be a move.                                                           *)
(*                                                                         *)
(* A launch deploys its own game, so the types rest on the jobs.  The      *)
(* flags (Truths) are Boolean-valued variables and have lemmas of their    *)
(* own.  What the session's checks protect - games and their mods - comes  *)
(* after that, on top of both.                                             *)
(***************************************************************************)
EXTENDS Session, TLAPS

\* Groups of variables.
USE DEF disk, mounts, world, life, fence, launches, pending, replays, memory, elsewhere

\* A job knows its game, and there is none while the daemon is down.
JobsFit ==
  /\ job \in [Workers -> Jobs] /\ land \in [Games -> Landings]
  /\ \A w \in Workers : job[w].kind \in {"launch", "restore"} => job[w].game \in Games
  /\ up = "down" => \A w \in Workers : job[w].kind = "none"

FInv == JobsFit /\ FenceExclusion

-----------------------------------------------------------------------------
(* Moves.                                                                   *)

SameLandings ==
  /\ land' \in [Games -> Landings]
  /\ \A g \in Games : land'[g] = "fenced" <=> land[g] = "fenced"

\* Only w's job changes, to one that fits.
Works(w) ==
  /\ job' \in [Workers -> Jobs] /\ \A v \in Workers \ {w} : job'[v] = job[v]
  /\ job'[w].kind \in {"launch", "restore"} => job'[w].game \in Games
  /\ up' # "down" /\ SameLandings

Keeps(w) ==
  /\ Works(w) /\ UNCHANGED fence
  /\ job'[w].kind = "launch" <=> job[w].kind = "launch"
  /\ Alone(w)' <=> Alone(w)

Takes(w) ==
  /\ Works(w) /\ CanRecover /\ exclusive' = w /\ UNCHANGED shared
  /\ job'[w].kind # "launch" /\ Alone(w)'

Gives(w) ==
  /\ Works(w) /\ exclusive = w /\ exclusive' = None /\ UNCHANGED shared
  /\ job'[w].kind # "launch" /\ ~Alone(w)'

Joins(w) ==
  /\ Works(w) /\ w \in Clients
  /\ exclusive = None /\ UNCHANGED exclusive /\ shared' = shared \cup {w}
  /\ job'[w].kind = "launch"

Leaves(w) ==
  /\ Works(w) /\ w \in Clients /\ job[w].kind = "launch"
  /\ SharedEnds(w)

Moves(w) == Keeps(w) \/ Takes(w) \/ Gives(w) \/ Joins(w) \/ Leaves(w)

\* A worker without a job.
LEMMA NoJobFits == NoJob \in Jobs /\ NoJob.kind = "none"
BY DEF NoJob, Jobs, Kinds, Stages

\* How a job goes on, begins and ends.
LEMMA StepAt ==
  ASSUME JobsFit, NEW w \in Workers, NEW s \in Stages, Step(w, s)
  PROVE  /\ job' \in [Workers -> Jobs] /\ \A v \in Workers \ {w} : job'[v] = job[v]
         /\ job'[w].kind = job[w].kind /\ job'[w].game = job[w].game /\ job'[w].at = s
BY DEF Step, JobsFit, Jobs

Begins(w, k, s, g) ==
  /\ job' \in [Workers -> Jobs] /\ \A v \in Workers \ {w} : job'[v] = job[v]
  /\ job'[w].kind = k /\ job'[w].game = g /\ job'[w].at = s

\* A job that begins.
LEMMA BeginAt ==
  ASSUME JobsFit, NEW w \in Workers, NEW s \in Stages,
         NEW k \in Kinds, NEW g \in Games \cup {None}, Begin(w, k, s, g)
  PROVE  Begins(w, k, s, g)
BY NoJobFits DEF Begin, Begins, JobsFit, Jobs

\* A job that ends.
LEMMA EndAt ==
  ASSUME JobsFit, NEW w \in Workers, JobEnds(w)
  PROVE  /\ job' \in [Workers -> Jobs] /\ \A v \in Workers \ {w} : job'[v] = job[v]
         /\ job'[w] = NoJob /\ job'[w].kind = "none"
BY NoJobFits DEF JobEnds, JobsFit

\* Every move preserves the invariant.
LEMMA MovesPreserve ==
  ASSUME FInv, NEW w \in Workers, Moves(w)
  PROVE  FInv'
<1>1. Works(w) BY DEF Moves, Keeps, Takes, Gives, Joins, Leaves
<1>2. JobsFit' BY <1>1 DEF FInv, JobsFit, Works, SameLandings
<1>3. \A v \in Workers \ {w} : job'[v] = job[v] /\ (Alone(v)' <=> Alone(v))
  BY <1>1 DEF Works, Alone
<1>4. CASE Keeps(w)
  BY <1>2, <1>3, <1>4 DEF FInv, FenceExclusion, Keeps, Works, SameLandings, Workers
<1>5. CASE Takes(w)
  BY <1>2, <1>3, <1>5, SessionAssumption
     DEF FInv, FenceExclusion, Takes, CanRecover, Works, SameLandings, Alone, Workers
<1>6. CASE Gives(w)
  BY <1>2, <1>3, <1>6, SessionAssumption
     DEF FInv, FenceExclusion, Gives, Works, SameLandings, Alone, Workers
<1>7. CASE Joins(w)
  BY <1>2, <1>3, <1>7, SessionAssumption
     DEF FInv, FenceExclusion, Joins, Works, SameLandings, Alone, Workers
<1>8. CASE Leaves(w)
  <2>1. job'[w].kind = "none" BY <1>8, EndAt DEF Leaves, SharedEnds, FInv
  <2> QED
    BY <1>2, <1>3, <1>8, <2>1, SessionAssumption
       DEF FInv, FenceExclusion, Leaves, SharedEnds, Works, SameLandings, Alone, Workers
<1> QED BY <1>4, <1>5, <1>6, <1>7, <1>8 DEF Moves

-----------------------------------------------------------------------------
(* Each action is a move.  Inside a job, the daemon is not down and the     *)
(* exclusive reservation is held by exclusive work.                         *)

\* What the invariant says of a job in progress.
LEMMA Inside ==
  ASSUME FInv, NEW w \in Workers
  PROVE  /\ JobsFit
         /\ job \in [Workers -> Jobs] /\ land \in [Games -> Landings]
         /\ job[w].kind # "none" => up # "down"
         /\ job[w].kind \in {"launch", "restore"} => job[w].game \in Games
         /\ Alone(w) => exclusive = w
BY DEF FInv, JobsFit, FenceExclusion

\* The units of a recovery, and the replay after it.
LEMMA RecoversMove ==
  ASSUME FInv, NEW w \in Workers, Recovers(w)
  PROVE  Moves(w)
<1> USE DEF At, Alone, Works, SameLandings, Moves, Keeps, Gives, ExclusiveEnds,
            Jobs, Stages, Landings
<1>1. CASE RetryIdle(w)
  BY <1>1, Inside, StepAt, EndAt DEF RetryIdle
<1>2. CASE RecoverLoader(w)
  BY <1>2, Inside, StepAt, EndAt DEF RecoverLoader, Recoveries
<1>3. CASE RecoverRoot(w)
  BY <1>3, Inside, StepAt, EndAt DEF RecoverRoot, Recoveries
<1>4. CASE RecoverData(w)
  BY <1>4, Inside, StepAt, EndAt, SMTT(30) DEF RecoverData, Recoveries
<1>5. CASE RecoverHeldLoader(w)
  BY <1>5, Inside, StepAt, EndAt DEF RecoverHeldLoader, Recoveries
<1>6. CASE RecoverOrphans(w)
  BY <1>6, Inside, StepAt, EndAt DEF RecoverOrphans, Recoveries
<1>7. CASE RetryEnd(w)
  BY <1>7, Inside, StepAt, EndAt DEF RetryEnd
<1>8. CASE Release(w)
  BY <1>8, Inside, StepAt, EndAt DEF Release
<1>9. CASE ReplayBegin(w)
  BY <1>9, Inside, StepAt, EndAt DEF ReplayBegin
<1>10. CASE ReplayTake(w)
  BY <1>10, Inside, StepAt, EndAt DEF ReplayTake
<1> QED BY <1>1, <1>2, <1>3, <1>4, <1>5, <1>6, <1>7, <1>8, <1>9, <1>10 DEF Recovers

\* A restore the user has confirmed.
LEMMA RestoresMove ==
  ASSUME FInv, NEW c \in Clients, Restores(c)
  PROVE  Moves(c)
<1> USE DEF At, Alone, Works, SameLandings, Moves, Keeps, Gives, ExclusiveEnds,
            Jobs, Stages, Landings
<1>0. c \in Workers BY DEF Workers
<1>1. CASE RestoreIdle(c)
  BY <1>0, <1>1, Inside, StepAt, EndAt DEF RestoreIdle
<1>2. CASE RestoreLoader(c)
  BY <1>0, <1>2, Inside, StepAt, EndAt DEF RestoreLoader
<1>3. CASE RestoreRoot(c)
  BY <1>0, <1>3, Inside, StepAt, EndAt DEF RestoreRoot
<1>4. CASE RestoreData(c)
  BY <1>0, <1>4, Inside, StepAt, EndAt DEF RestoreData
<1>5. CASE RestoreTicket(c)
  BY <1>0, <1>5, Inside, StepAt, EndAt DEF RestoreTicket
<1> QED BY <1>1, <1>2, <1>3, <1>4, <1>5 DEF Restores

\* A launch keeps its shared reservation to the end.
LEMMA LaunchesMove ==
  ASSUME FInv, NEW c \in Clients, Launches(c)
  PROVE  Moves(c)
<1> USE DEF At, Alone, Works, SameLandings, Moves, Keeps, Leaves, SharedEnds,
            Jobs, Stages, Landings
<1>0. c \in Workers BY DEF Workers
<1>1. CASE LaunchFails(c)
  BY <1>0, <1>1, Inside, StepAt, EndAt DEF LaunchFails, Refused, launching
<1>2. CASE LaunchPreflight(c)
  BY <1>0, <1>2, Inside, StepAt, EndAt DEF LaunchPreflight
<1>3. CASE LaunchMount(c)
  BY <1>0, <1>3, Inside, StepAt, EndAt DEF LaunchMount, MountVFSOwned
<1>4. CASE LaunchApply(c)
  BY <1>0, <1>4, Inside, StepAt, EndAt DEF LaunchApply, RebuildVFSOwned
<1>5. CASE LaunchDeploy(c)
  BY <1>0, <1>5, Inside, StepAt, EndAt DEF LaunchDeploy
<1>6. CASE LaunchTicket(c)
  BY <1>0, <1>6, Inside, StepAt, EndAt DEF LaunchTicket
<1>7. CASE LaunchHandOver(c)
  BY <1>0, <1>7, Inside, StepAt, EndAt DEF LaunchHandOver
<1>8. CASE LaunchRecord(c)
  BY <1>0, <1>8, Inside, StepAt, EndAt DEF LaunchRecord
<1> QED BY <1>1, <1>2, <1>3, <1>4, <1>5, <1>6, <1>7, <1>8 DEF Launches

\* A change of the mod loader.
LEMMA LoaderWorksMove ==
  ASSUME FInv, NEW c \in Clients, LoaderWorks(c)
  PROVE  Moves(c)
<1> USE DEF At, Alone, Works, SameLandings, Moves, Keeps, Gives, ExclusiveEnds,
            Jobs, Stages, Landings
<1>0. c \in Workers BY DEF Workers
<1>1. CASE LoaderPrepare(c)
  BY <1>0, <1>1, Inside, StepAt, EndAt DEF LoaderPrepare
<1>2. CASE LoaderFails(c)
  BY <1>0, <1>2, Inside, StepAt, EndAt DEF LoaderFails
<1>3. CASE LoaderRun(c)
  BY <1>0, <1>3, Inside, StepAt, EndAt DEF LoaderRun
<1>4. CASE LoaderEnd(c)
  BY <1>0, <1>4, Inside, StepAt, EndAt DEF LoaderEnd
<1> QED BY <1>1, <1>2, <1>3, <1>4 DEF LoaderWorks

\* Startup recovery.
LEMMA BootsMove ==
  ASSUME FInv, Boots
  PROVE  Moves(Boot)
<1> USE DEF At, Alone, Works, SameLandings, Moves, Keeps, Takes, Gives, Stages
<1>0. Boot \in Workers BY DEF Workers
<1>1. CASE BootFence
  BY <1>0, <1>1, Inside, StepAt, EndAt DEF BootFence
<1>2. CASE BootIdle
  BY <1>0, <1>2, Inside, StepAt DEF BootIdle
<1>3. CASE BootEnd
  BY <1>0, <1>3, Inside, EndAt DEF BootEnd, ExclusiveEnds
<1> QED BY <1>1, <1>2, <1>3 DEF Boots

\* A retry, by the timer or by a request.
LEMMA RetryBeginMoves ==
  ASSUME FInv, NEW w \in Workers, RetryBegin(w)
  PROVE  Moves(w)
<1>1. Begins(w, "retry", "fenced", None)
  BY BeginAt DEF RetryBegin, FInv, Kinds, Stages
<1> QED BY <1>1, Inside
        DEF RetryBegin, Ready, Begins, Takes, Works, SameLandings, Moves, Alone

\* What a client may begin.
LEMMA RequestsMove ==
  ASSUME FInv, NEW c \in Clients, Requests(c)
  PROVE  Moves(c)
<1> USE DEF At, Alone, Works, SameLandings, Moves
<1>0. c \in Workers BY DEF Workers
<1>1. CASE RetryBegin(c)
  BY <1>0, <1>1, RetryBeginMoves
<1>2. CASE LoaderAdmit(c)
  <2>1. Begins(c, "loader", "fenced", None)
    BY <1>0, <1>2, BeginAt DEF LoaderAdmit, FInv, Kinds, Stages
  <2> QED BY <1>0, <1>2, <2>1, Inside DEF LoaderAdmit, Ready, Begins, Takes
<1>3. ASSUME NEW g \in Games, RestoreBegin(c, g) PROVE Moves(c)
  <2>1. Begins(c, "restore", "fenced", g)
    BY <1>0, <1>3, BeginAt DEF RestoreBegin, FInv, Kinds, Stages
  <2> QED BY <1>0, <1>3, <2>1, Inside DEF RestoreBegin, Ready, Begins, Takes
<1>4. ASSUME NEW g \in Games, NEW p \in Profiles \cup {None}, NEW tool \in BOOLEAN,
             LaunchAdmit(c, g, p, tool)
      PROVE  Moves(c)
  <2>1. job' = [job EXCEPT ![c] = [NoJob EXCEPT !.kind = "launch", !.at = "admitted",
                                      !.game = g, !.profile = p, !.tool = tool]]
    BY <1>4 DEF LaunchAdmit
  <2>2. /\ job' \in [Workers -> Jobs] /\ \A v \in Workers \ {c} : job'[v] = job[v]
        /\ job'[c].kind = "launch" /\ job'[c].game = g
    BY <1>0, <2>1, NoJobFits, Inside DEF Jobs, Kinds, Stages
  <2> QED BY <1>0, <1>4, <2>2, Inside DEF LaunchAdmit, Ready, CanShare, Joins
<1> QED BY <1>1, <1>2, <1>3, <1>4 DEF Requests

-----------------------------------------------------------------------------
(* The handler of a landed download, and the daemon's start and end.        *)

\* A landing takes a shared reservation and gives it back.
LEMMA LandingsPreserve ==
  ASSUME FInv, NEW g \in Games, Land(g) \/ Handles(g)
  PROVE  FInv'
<1> USE SessionAssumption DEF Goes, Landings, landing, FInv, JobsFit, FenceExclusion, Alone
<1>1. CASE Land(g) BY <1>1 DEF Land, Workers
<1>2. CASE LandChecked(g) BY <1>2 DEF LandChecked, Workers
<1>3. CASE LandAdmitted(g) BY <1>3 DEF LandAdmitted, CanShare, Workers
<1>4. CASE LandFenced(g) BY <1>4 DEF LandFenced, Workers
<1> QED BY <1>1, <1>2, <1>3, <1>4 DEF Handles

\* A daemon that starts has no jobs yet.
LEMMA StartPreserves ==
  ASSUME FInv, Start
  PROVE  FInv'
<1>1. Boot \in Workers BY DEF Workers
<1>2. /\ job' \in [Workers -> Jobs] /\ \A v \in Workers \ {Boot} : job'[v] = job[v]
      /\ job'[Boot].kind = "boot" /\ job'[Boot].at = "start"
  BY <1>1, BeginAt DEF Start, FInv, Kinds, Stages, Begins
<1>3. job[Boot].kind = "none" BY <1>1 DEF Start, FInv, JobsFit
<1> QED BY <1>1, <1>2, <1>3, SessionAssumption
        DEF Start, FInv, JobsFit, FenceExclusion, Alone, Workers

\* Nothing is reserved at first.
LEMMA InitHolds == Init => FInv
BY NoJobFits, SessionAssumption
   DEF Init, FInv, JobsFit, FenceExclusion, Alone, Landings, NoJob, Workers

\* Nothing is reserved after the daemon's end.
LEMMA DownPreserves == FInv /\ Down => FInv'
BY NoJobFits, SessionAssumption
   DEF Down, FInv, JobsFit, FenceExclusion, Alone, Landings, NoJob, Workers

\* The other steps touch neither a job nor a reservation nor a landing.
Quiet == UNCHANGED <<job, land, shared, exclusive>> /\ (up = "down" <=> up' = "down")

\* Such steps preserve the invariant.
LEMMA QuietPreserves == FInv /\ Quiet => FInv'
BY DEF Quiet, FInv, JobsFit, FenceExclusion, Alone

\* Requests under the lock, the world, and shutdown are such steps.
LEMMA OthersAreQuiet ==
  ASSUME Locked \/ World \/ BeginShutdown \/ (\E g \in Games : ShutdownFarm(g)) \/ UNCHANGED vars
  PROVE  Quiet
<1> USE DEF Quiet
<1>1. CASE Locked
  <2>1. ASSUME NEW g \in Games, NEW p \in Profiles, MountVFS(g, p) PROVE Quiet
    BY <2>1 DEF MountVFS, MountVFSWithSwap, MountVFSOwned
  <2>2. ASSUME NEW g \in Games, RebuildVFS(g) PROVE Quiet
    BY <2>2 DEF RebuildVFS, RebuildVFSOwned
  <2>3. ASSUME NEW g \in Games, ModChange(g) \/ UnmountVFS(g) \/ Edit(g) PROVE Quiet
    BY <2>3 DEF ModChange, UnmountVFS, Edit
  <2>4. CASE FlagsSwept
    BY <2>4 DEF FlagsSwept
  <2> QED BY <1>1, <2>1, <2>2, <2>3, <2>4 DEF Locked
<1>2. CASE World
  <2>1. CASE Grace BY <2>1 DEF Grace, AgeTicket, AgeFlag
  <2>2. ASSUME NEW g \in Games, Settles(g) \/ Exit(g) \/ StartOutside(g) PROVE Quiet
    BY <2>2 DEF Settles, Appear, NeverStarts, Exit, StartOutside, world_only
  <2>3. ASSUME NEW g \in Games, TrackedExit(g) PROVE Quiet
    BY <2>3 DEF TrackedExit
  <2> QED BY <1>2, <2>1, <2>2, <2>3 DEF World
<1>3. CASE BeginShutdown BY <1>3 DEF BeginShutdown
<1>4. ASSUME NEW g \in Games, ShutdownFarm(g) PROVE Quiet
  BY <1>4 DEF ShutdownFarm
<1>5. CASE UNCHANGED vars BY <1>5 DEF vars
<1> QED BY <1>1, <1>2, <1>3, <1>4, <1>5

-----------------------------------------------------------------------------
\* The invariant is inductive.
LEMMA NextPreserves ==
  ASSUME FInv, [Next]_vars
  PROVE  FInv'
<1>1. CASE Goroutines
  <2>1. CASE Boots BY <2>1, BootsMove, MovesPreserve DEF Workers
  <2>2. CASE RetryBegin(Ticker) BY <2>2, RetryBeginMoves, MovesPreserve DEF Workers
  <2>3. ASSUME NEW w \in Workers, Recovers(w) PROVE FInv'
    BY <2>3, RecoversMove, MovesPreserve
  <2>4. ASSUME NEW c \in Clients, Restores(c) \/ Launches(c) \/ LoaderWorks(c) PROVE FInv'
    BY <2>4, RestoresMove, LaunchesMove, LoaderWorksMove, MovesPreserve DEF Workers
  <2> QED BY <1>1, <2>1, <2>2, <2>3, <2>4 DEF Goroutines
<1>2. ASSUME NEW c \in Clients, Requests(c) PROVE FInv'
  BY <1>2, RequestsMove, MovesPreserve DEF Workers
<1>3. ASSUME NEW g \in Games, Land(g) \/ Handles(g) PROVE FInv'
  BY <1>3, LandingsPreserve
<1>4. CASE Start BY <1>4, StartPreserves
<1>5. CASE Down BY <1>5, DownPreserves
<1>6. CASE Locked \/ World \/ BeginShutdown \/ (\E g \in Games : ShutdownFarm(g)) \/ UNCHANGED vars
  BY <1>6, OthersAreQuiet, QuietPreserves
<1> QED BY <1>1, <1>2, <1>3, <1>4, <1>5, <1>6 DEF Next, Daemon

\* In every run, exclusive work holds the exclusive reservation, every launch
\* and every landing in progress a shared one, and never both kinds at once.
THEOREM ReservationsExclude == Spec => []FenceExclusion
<1>1. FInv => FenceExclusion BY DEF FInv
<1> QED BY InitHolds, NextPreserves, <1>1, PTL DEF Spec

-----------------------------------------------------------------------------
(* Types.                                                                   *)

Typed ==
  /\ farm \in Deployments \cup {None} /\ root \in Deployments \cup {None}
  /\ ticket \in Ages
  /\ starting \subseteq Games /\ running \subseteq Games
  /\ up \in {"down", "starting", "ready"}
  /\ mounted \in [Games -> Profiles \cup {None}] /\ dirty \subseteq Games
  /\ shared \subseteq Clients \cup Games
  /\ exclusive \in Workers \cup {None}
  /\ flag \in [Games -> Ages] /\ tracked \subseteq Games
  /\ rootPending \subseteq Games
  /\ faults \in Nat

Truths ==
  /\ intent \in BOOLEAN /\ stopping \in BOOLEAN /\ deferred \in BOOLEAN
  /\ dataPending \in BOOLEAN /\ loaderPending \in BOOLEAN
  /\ replayPending \in BOOLEAN /\ replayRunning \in BOOLEAN

IInv == Typed /\ Truths /\ FInv

\* The game and profile of a job.
LEMMA JobGame ==
  ASSUME IInv, NEW w \in Workers
  PROVE  /\ job[w].kind \in {"launch", "restore"} => job[w].game \in Games
         /\ job[w].profile \in Profiles \cup {None}
BY DEF IInv, FInv, JobsFit, Jobs

\* What an operation on the farm leaves is typed.
FarmTyped ==
  /\ farm \in Deployments \cup {None} /\ root \in Deployments \cup {None}
  /\ ticket \in Ages
  /\ mounted \in [Games -> Profiles \cup {None}] /\ dirty \subseteq Games
  /\ flag \in [Games -> Ages] /\ rootPending \subseteq Games
  /\ faults \in Nat

\* A mount and a profile switch.
LEMMA MountsTyped ==
  ASSUME FarmTyped, NEW g \in Games, NEW p \in Profiles, NEW ok \in BOOLEAN,
         Mounts(g, p, ok) \/ Retargets(g, p, ok)
  PROVE  FarmTyped'
<1> USE DEF FarmTyped, Deployment, Deployments, Fault, Ages, FarmFails
<1>1. CASE Mounts(g, p, ok) BY <1>1 DEF Mounts
<1>2. CASE Retargets(g, p, ok)
  <2>1. /\ farm' = farm \/ farm' = Deployment(g, p)
        /\ root' = root \/ root' = Deployment(g, p)
        /\ mounted' = mounted \/ mounted' = [mounted EXCEPT ![g] = p]
        /\ dirty' = dirty \/ dirty' = dirty \ {g}
        /\ rootPending' = rootPending \/ rootPending' = rootPending \cup {g}
        /\ faults' = faults \/ faults' = faults + 1
        /\ ticket' = ticket /\ flag' = flag
    BY <1>2, Zenon DEF Retargets, FarmFails, Fault
  <2> QED BY <2>1
<1> QED BY <1>1, <1>2

\* An apply.
LEMMA RebuildsTyped ==
  ASSUME FarmTyped, NEW g \in Games, NEW ok \in BOOLEAN, mounted[g] # None, Rebuilds(g, ok)
  PROVE  FarmTyped'
BY DEF Rebuilds, FarmTyped, Deployment, Deployments, Fault, Ages, FarmFails, FlagsForgotten

\* A teardown.
LEMMA TearsDownTyped ==
  ASSUME FarmTyped, NEW g \in Games, NEW ok \in BOOLEAN,
         \/ mounted[g] # None /\ TearsDown(g, ok)
         \/ TearsDownLeftovers(ok),
         flag' \in [Games -> Ages], UNCHANGED rootPending
  PROVE  FarmTyped'
<1> USE DEF FarmTyped, Deployment, Deployments, Fault, Ages, FarmFails, Unmounts
<1>1. CASE mounted[g] # None /\ TearsDown(g, ok) BY <1>1 DEF TearsDown
<1>2. CASE TearsDownLeftovers(ok) BY <1>2 DEF TearsDownLeftovers
<1> QED BY <1>1, <1>2

\* What no operation on the farm touches.
Rest == <<starting, running, up, tracked>>

\* The mount a request or a launch asks for.
LEMMA MountVFSOwnedTyped ==
  ASSUME Typed, NEW owner, NEW g \in Games, NEW p \in Profiles, NEW ok \in BOOLEAN,
         MountVFSOwned(owner, g, p, ok)
  PROVE  FarmTyped' /\ UNCHANGED Rest
<1>1. FarmTyped BY DEF Typed, FarmTyped
<1>2. UNCHANGED Rest BY DEF MountVFSOwned, Rest
<1>3. \/ Mounts(g, p, ok) \/ Retargets(g, p, ok)
      \/ UNCHANGED <<farm, root, ticket, mounts, flag, rootPending, faults>>
  BY Zenon DEF MountVFSOwned
<1>4. CASE UNCHANGED <<farm, root, ticket, mounts, flag, rootPending, faults>>
  BY <1>1, <1>2, <1>4 DEF FarmTyped
<1> QED BY <1>1, <1>2, <1>3, <1>4, MountsTyped

\* The same for the flags.
LEMMA MountVFSOwnedTrue ==
  ASSUME Truths, NEW owner, NEW g, NEW p, NEW ok, MountVFSOwned(owner, g, p, ok)
  PROVE  Truths'
BY Zenon DEF MountVFSOwned, Mounts, Retargets, Truths

\* The apply a request or a launch asks for.
LEMMA RebuildVFSOwnedTyped ==
  ASSUME Typed, NEW owner, NEW g \in Games, NEW ok \in BOOLEAN, RebuildVFSOwned(owner, g, ok)
  PROVE  FarmTyped' /\ UNCHANGED Rest
<1>1. FarmTyped BY DEF Typed, FarmTyped
<1>2. UNCHANGED Rest BY DEF RebuildVFSOwned, Rest
<1>3. mounted[g] # None /\ Rebuilds(g, ok) BY DEF RebuildVFSOwned
<1> QED BY <1>1, <1>2, <1>3, RebuildsTyped

\* The same for the flags.
LEMMA RebuildVFSOwnedTrue ==
  ASSUME Truths, NEW owner, NEW g, NEW ok, RebuildVFSOwned(owner, g, ok)
  PROVE  Truths'
BY Zenon DEF RebuildVFSOwned, Rebuilds, Truths

\* A step that changes only the farm and the reservations.
LEMMA TogetherTyped ==
  ASSUME Typed, FarmTyped', UNCHANGED Rest,
         shared' \subseteq Clients \cup Games, exclusive' \in Workers \cup {None}
  PROVE  Typed'
BY DEF Typed, FarmTyped, Rest

\* The units of a recovery, and the replay after it.
LEMMA RecoversTyped ==
  ASSUME IInv, NEW w \in Workers, Recovers(w)
  PROVE  Typed'
<1> USE DEF Typed, Deployment, Deployments, Ages, Fault, FlagsForgotten
<1>0. Typed /\ w \in Workers BY DEF IInv, Workers
<1>1. CASE RetryIdle(w)
  BY <1>0, <1>1 DEF RetryIdle, ExclusiveEnds
<1>2. CASE RecoverLoader(w)
  BY <1>0, <1>2 DEF RecoverLoader, ExclusiveEnds
<1>3. CASE RecoverRoot(w)
  BY <1>0, <1>3 DEF RecoverRoot, ExclusiveEnds
<1>4. CASE RecoverData(w)
  BY <1>0, <1>4 DEF RecoverData, ExclusiveEnds
<1>5. CASE RecoverHeldLoader(w)
  BY <1>0, <1>5 DEF RecoverHeldLoader, ExclusiveEnds
<1>6. CASE RecoverOrphans(w)
  BY <1>0, <1>6 DEF RecoverOrphans, ExclusiveEnds
<1>7. CASE RetryEnd(w)
  BY <1>0, <1>7 DEF RetryEnd, ExclusiveEnds
<1>8. CASE Release(w)
  BY <1>0, <1>8 DEF Release, ExclusiveEnds
<1>9. CASE ReplayBegin(w)
  BY <1>0, <1>9 DEF ReplayBegin, ExclusiveEnds
<1>10. CASE ReplayTake(w)
  BY <1>0, <1>10 DEF ReplayTake, ExclusiveEnds
<1> QED BY <1>1, <1>2, <1>3, <1>4, <1>5, <1>6, <1>7, <1>8, <1>9, <1>10 DEF Recovers

\* The same for the flags.
LEMMA RecoversTrue ==
  ASSUME Truths, NEW w \in Workers, Recovers(w)
  PROVE  Truths'
<1> USE DEF Truths
<1>1. CASE RetryIdle(w)
  BY <1>1, Zenon DEF RetryIdle, ExclusiveEnds
<1>2. CASE RecoverLoader(w)
  BY <1>2, Zenon DEF RecoverLoader, ExclusiveEnds
<1>3. CASE RecoverRoot(w)
  BY <1>3, Zenon DEF RecoverRoot, ExclusiveEnds
<1>4. CASE RecoverData(w)
  BY <1>4, Zenon DEF RecoverData, ExclusiveEnds
<1>5. CASE RecoverHeldLoader(w)
  BY <1>5, Zenon DEF RecoverHeldLoader, ExclusiveEnds
<1>6. CASE RecoverOrphans(w)
  BY <1>6, Zenon DEF RecoverOrphans, ExclusiveEnds
<1>7. CASE RetryEnd(w)
  BY <1>7, Zenon DEF RetryEnd, ExclusiveEnds
<1>8. CASE Release(w)
  BY <1>8, Zenon DEF Release, ExclusiveEnds
<1>9. CASE ReplayBegin(w)
  BY <1>9, Zenon DEF ReplayBegin, ExclusiveEnds
<1>10. CASE ReplayTake(w)
  BY <1>10, Zenon DEF ReplayTake, ExclusiveEnds
<1> QED BY <1>1, <1>2, <1>3, <1>4, <1>5, <1>6, <1>7, <1>8, <1>9, <1>10 DEF Recovers

\* A restore the user has confirmed.
LEMMA RestoresTyped ==
  ASSUME IInv, NEW c \in Clients, Restores(c)
  PROVE  Typed'
<1> USE DEF Typed, Deployment, Deployments, Ages, Fault, FlagsForgotten
<1>0. Typed /\ c \in Workers BY DEF IInv, Workers
<1>1. CASE RestoreIdle(c)
  BY <1>0, <1>1, JobGame DEF RestoreIdle, ExclusiveEnds, FarmFails, Unmounts, At
<1>2. CASE RestoreLoader(c)
  <2>1. /\ UNCHANGED <<farm, root, ticket, mounted, dirty, starting, running, up, shared,
                        flag, tracked, rootPending>>
        /\ exclusive' = exclusive \/ exclusive' = None
        /\ faults' = faults \/ faults' = faults + 1
    BY <1>2, Zenon DEF RestoreLoader, ExclusiveEnds
  <2> QED BY <1>0, <2>1
<1>3. CASE RestoreRoot(c)
  BY <1>0, <1>3, JobGame DEF RestoreRoot, ExclusiveEnds, FarmFails, Unmounts, At
<1>4. CASE RestoreData(c)
  BY <1>0, <1>4, JobGame DEF RestoreData, ExclusiveEnds, FarmFails, Unmounts, At
<1>5. CASE RestoreTicket(c)
  BY <1>0, <1>5, JobGame DEF RestoreTicket, ExclusiveEnds, FarmFails, Unmounts, At
<1> QED BY <1>1, <1>2, <1>3, <1>4, <1>5 DEF Restores

\* The same for the flags.
LEMMA RestoresTrue ==
  ASSUME Truths, NEW c \in Clients, Restores(c)
  PROVE  Truths'
<1> USE DEF Truths
<1>1. CASE RestoreIdle(c)
  BY <1>1, Zenon DEF RestoreIdle, ExclusiveEnds, FarmFails, Unmounts, At
<1>2. CASE RestoreLoader(c)
  BY <1>2, Zenon DEF RestoreLoader, ExclusiveEnds, FarmFails, Unmounts, At
<1>3. CASE RestoreRoot(c)
  BY <1>3, Zenon DEF RestoreRoot, ExclusiveEnds, FarmFails, Unmounts, At
<1>4. CASE RestoreData(c)
  BY <1>4, Zenon DEF RestoreData, ExclusiveEnds, FarmFails, Unmounts, At
<1>5. CASE RestoreTicket(c)
  BY <1>5, Zenon DEF RestoreTicket, ExclusiveEnds, FarmFails, Unmounts, At
<1> QED BY <1>1, <1>2, <1>3, <1>4, <1>5 DEF Restores

\* A launch, with the mount and the apply it may ask for.
LEMMA LaunchesTyped ==
  ASSUME IInv, NEW c \in Clients, Launches(c)
  PROVE  Typed'
<1> USE DEF Typed, Deployment, Deployments, Ages, Fault, FlagsForgotten
<1>0. Typed /\ c \in Workers BY DEF IInv, Workers
<1>1. CASE LaunchFails(c)
  BY <1>0, <1>1, JobGame DEF LaunchFails, SharedEnds, Refused, launching, At
<1>2. CASE LaunchPreflight(c)
  BY <1>0, <1>2, JobGame DEF LaunchPreflight, SharedEnds, Refused, launching, At
<1>3. CASE LaunchMount(c)
  <2>1. shared' \subseteq Clients \cup Games /\ exclusive' \in Workers \cup {None}
    BY <1>0, <1>3 DEF LaunchMount, SharedEnds
  <2>2. \/ UNCHANGED <<disk, memory, world, life, faults>>
        \/ FarmTyped' /\ UNCHANGED Rest
    BY <1>0, <1>3, JobGame, MountVFSOwnedTyped DEF LaunchMount, At, Workers
  <2>3. CASE UNCHANGED <<disk, memory, world, life, faults>>
    BY <1>0, <2>1, <2>3
  <2> QED BY <1>0, <2>1, <2>2, <2>3, TogetherTyped
<1>4. CASE LaunchApply(c)
  <2>1. shared' \subseteq Clients \cup Games /\ exclusive' \in Workers \cup {None}
    BY <1>0, <1>4 DEF LaunchApply, SharedEnds
  <2>2. \/ UNCHANGED <<disk, memory, world, life, faults>>
        \/ FarmTyped' /\ UNCHANGED Rest
    BY <1>0, <1>4, JobGame, RebuildVFSOwnedTyped DEF LaunchApply, At, Workers
  <2>3. CASE UNCHANGED <<disk, memory, world, life, faults>>
    BY <1>0, <2>1, <2>3
  <2> QED BY <1>0, <2>1, <2>2, <2>3, TogetherTyped
<1>5. CASE LaunchDeploy(c)
  BY <1>0, <1>5, JobGame DEF LaunchDeploy, SharedEnds, Refused, launching, At
<1>6. CASE LaunchTicket(c)
  BY <1>0, <1>6, JobGame DEF LaunchTicket, SharedEnds, Refused, launching, At
<1>7. CASE LaunchHandOver(c)
  BY <1>0, <1>7, JobGame DEF LaunchHandOver, SharedEnds, Refused, launching, At
<1>8. CASE LaunchRecord(c)
  BY <1>0, <1>8, JobGame DEF LaunchRecord, SharedEnds, Refused, launching, At
<1> QED BY <1>1, <1>2, <1>3, <1>4, <1>5, <1>6, <1>7, <1>8 DEF Launches

\* The same for the flags.
LEMMA LaunchesTrue ==
  ASSUME Truths, NEW c \in Clients, Launches(c)
  PROVE  Truths'
<1> USE DEF Truths
<1>1. CASE LaunchFails(c)
  BY <1>1, Zenon DEF LaunchFails, SharedEnds, Refused, launching, At
<1>2. CASE LaunchPreflight(c)
  BY <1>2, Zenon DEF LaunchPreflight, SharedEnds, Refused, launching, At
<1>3. CASE LaunchMount(c)
  BY <1>3, MountVFSOwnedTrue, Zenon DEF LaunchMount
<1>4. CASE LaunchApply(c)
  BY <1>4, RebuildVFSOwnedTrue, Zenon DEF LaunchApply
<1>5. CASE LaunchDeploy(c)
  BY <1>5, Zenon DEF LaunchDeploy, SharedEnds, Refused, launching, At
<1>6. CASE LaunchTicket(c)
  BY <1>6, Zenon DEF LaunchTicket, SharedEnds, Refused, launching, At
<1>7. CASE LaunchHandOver(c)
  BY <1>7, Zenon DEF LaunchHandOver, SharedEnds, Refused, launching, At
<1>8. CASE LaunchRecord(c)
  BY <1>8, Zenon DEF LaunchRecord, SharedEnds, Refused, launching, At
<1> QED BY <1>1, <1>2, <1>3, <1>4, <1>5, <1>6, <1>7, <1>8 DEF Launches

\* A change of the mod loader.
LEMMA LoaderWorksTyped ==
  ASSUME IInv, NEW c \in Clients, LoaderWorks(c)
  PROVE  Typed'
<1> USE DEF Typed, Deployment, Deployments, Ages, Fault, FlagsForgotten
<1>0. Typed /\ c \in Workers BY DEF IInv, Workers
<1>1. CASE LoaderPrepare(c)
  <2>1. /\ UNCHANGED <<farm, root, ticket, mounted, dirty, starting, running, up, shared,
                        flag, tracked, rootPending>>
        /\ exclusive' = exclusive \/ exclusive' = None
        /\ faults' = faults \/ faults' = faults + 1
    BY <1>1, Zenon DEF LoaderPrepare, ExclusiveEnds
  <2> QED BY <1>0, <2>1
<1>2. CASE LoaderFails(c)
  BY <1>0, <1>2 DEF LoaderFails, ExclusiveEnds
<1>3. CASE LoaderRun(c)
  BY <1>0, <1>3 DEF LoaderRun, ExclusiveEnds
<1>4. CASE LoaderEnd(c)
  <2>1. /\ UNCHANGED <<farm, root, ticket, mounted, dirty, starting, running, up, shared,
                        flag, tracked, rootPending>>
        /\ exclusive' = exclusive \/ exclusive' = None
        /\ faults' = faults \/ faults' = faults + 1
    BY <1>4, Zenon DEF LoaderEnd, ExclusiveEnds
  <2> QED BY <1>0, <2>1
<1> QED BY <1>1, <1>2, <1>3, <1>4 DEF LoaderWorks

\* The same for the flags.
LEMMA LoaderWorksTrue ==
  ASSUME Truths, NEW c \in Clients, LoaderWorks(c)
  PROVE  Truths'
<1> USE DEF Truths
<1>1. CASE LoaderPrepare(c)
  BY <1>1, Zenon DEF LoaderPrepare, ExclusiveEnds
<1>2. CASE LoaderFails(c)
  BY <1>2, Zenon DEF LoaderFails, ExclusiveEnds
<1>3. CASE LoaderRun(c)
  BY <1>3, Zenon DEF LoaderRun, ExclusiveEnds
<1>4. CASE LoaderEnd(c)
  BY <1>4, Zenon DEF LoaderEnd, ExclusiveEnds
<1> QED BY <1>1, <1>2, <1>3, <1>4 DEF LoaderWorks

\* Startup recovery.
LEMMA BootsTyped ==
  ASSUME IInv, Boots
  PROVE  Typed'
<1> USE DEF Typed, Deployment, Deployments, Ages, Fault, FlagsForgotten
<1>0. Typed BY DEF IInv, Workers
<1>1. CASE BootFence
  BY <1>0, <1>1 DEF BootFence, ExclusiveEnds, Workers
<1>2. CASE BootIdle
  BY <1>0, <1>2 DEF BootIdle, ExclusiveEnds, Workers
<1>3. CASE BootEnd
  BY <1>0, <1>3 DEF BootEnd, ExclusiveEnds, Workers
<1> QED BY <1>1, <1>2, <1>3 DEF Boots

\* The same for the flags.
LEMMA BootsTrue ==
  ASSUME Truths, Boots
  PROVE  Truths'
<1> USE DEF Truths
<1>1. CASE BootFence
  BY <1>1, Zenon DEF BootFence, ExclusiveEnds, Workers
<1>2. CASE BootIdle
  BY <1>2, Zenon DEF BootIdle, ExclusiveEnds, Workers
<1>3. CASE BootEnd
  BY <1>3, Zenon DEF BootEnd, ExclusiveEnds, Workers
<1> QED BY <1>1, <1>2, <1>3 DEF Boots

\* What a client or the timer may begin.
LEMMA RequestsTyped ==
  ASSUME IInv, NEW c \in Clients, Requests(c)
  PROVE  Typed'
<1> USE DEF Typed, Deployment, Deployments, Ages, Fault, FlagsForgotten
<1>0. Typed /\ c \in Workers BY DEF IInv, Workers
<1>1. CASE RetryBegin(c) BY <1>0, <1>1 DEF RetryBegin
<1>2. CASE LoaderAdmit(c) BY <1>0, <1>2 DEF LoaderAdmit
<1>3. ASSUME NEW g \in Games, RestoreBegin(c, g) PROVE Typed'
  BY <1>0, <1>3 DEF RestoreBegin
<1>4. ASSUME NEW g \in Games, NEW p, NEW tool, LaunchAdmit(c, g, p, tool) PROVE Typed'
  BY <1>0, <1>4 DEF LaunchAdmit
<1> QED BY <1>1, <1>2, <1>3, <1>4 DEF Requests

\* A retry by the timer.
LEMMA RetryTyped ==
  ASSUME Typed, NEW w \in Workers, RetryBegin(w)
  PROVE  Typed'
BY DEF RetryBegin, Typed

\* The same for the flags.
LEMMA RequestsTrue ==
  ASSUME Truths, NEW w, Requests(w) \/ RetryBegin(w)
  PROVE  Truths'
<1> USE DEF Truths
<1>1. CASE RetryBegin(w) BY <1>1, Zenon DEF RetryBegin
<1>2. CASE LoaderAdmit(w) BY <1>2, Zenon DEF LoaderAdmit, FlagsForgotten
<1>3. ASSUME NEW g \in Games, RestoreBegin(w, g) PROVE Truths'
  BY <1>3, Zenon DEF RestoreBegin
<1>4. ASSUME NEW g \in Games, NEW p \in Profiles \cup {None}, NEW tool \in BOOLEAN,
             LaunchAdmit(w, g, p, tool)
      PROVE  Truths'
  BY <1>4, Zenon DEF LaunchAdmit
<1> QED BY <1>1, <1>2, <1>3, <1>4, Zenon DEF Requests

\* Swaps is a teardown of h, or removes its farm and perhaps deploys g's.
LEMMA SwapsTyped ==
  ASSUME FarmTyped, NEW g \in Games, NEW p \in Profiles, NEW h \in Games,
         mounted[h] # None, Swaps(g, p, h), UNCHANGED rootPending
  PROVE  FarmTyped'
<1>1. CASE TearsDown(h, FALSE) /\ UNCHANGED flag
  <2>1. flag' \in [Games -> Ages] BY <1>1 DEF FarmTyped
  <2> QED BY <1>1, <2>1, TearsDownTyped
<1>2. CASE ~(TearsDown(h, FALSE) /\ UNCHANGED flag)
  <2>1. /\ farm' = None \/ farm' = Deployment(g, p)
        /\ root' = None \/ root' = Deployment(g, p)
        /\ ticket' = "none" \/ ticket' = ticket
        /\ \/ mounted' = [mounted EXCEPT ![h] = None]
           \/ mounted' = [mounted EXCEPT ![h] = None, ![g] = p]
        /\ dirty' = dirty \ {h} /\ flag' = [flag EXCEPT ![h] = "none"]
        /\ faults' = faults \/ faults' = faults + 1
    BY <1>2 DEF Swaps, Fault
  <2> QED BY <2>1 DEF FarmTyped, Deployment, Deployments, Ages
<1> QED BY <1>1, <1>2

\* Requests under the lock.
LEMMA LockedTyped ==
  ASSUME Typed, Locked
  PROVE  Typed'
<1> USE DEF Rest
<1>0. FarmTyped /\ shared \subseteq Clients \cup Games /\ exclusive \in Workers \cup {None}
  BY DEF Typed, FarmTyped
<1>1. ASSUME NEW g \in Games, NEW p \in Profiles, MountVFS(g, p),
             NEW ok \in BOOLEAN, MountVFSOwned({}, g, p, ok)
      PROVE  Typed'
  <2>1. FarmTyped' /\ UNCHANGED Rest BY <1>1, MountVFSOwnedTyped
  <2> QED BY <1>0, <1>1, <2>1, TogetherTyped DEF MountVFS
<1>2. ASSUME NEW g \in Games, NEW p \in Profiles, MountVFS(g, p), MountVFSWithSwap(g, p)
      PROVE  Typed'
  <2>1. PICK h \in Conflicts(g) : Swaps(g, p, h) BY <1>2 DEF MountVFSWithSwap
  <2>2. h \in Games /\ mounted[h] # None BY DEF Conflicts
  <2>3. FarmTyped' BY <1>0, <1>2, <2>1, <2>2, SwapsTyped DEF MountVFSWithSwap
  <2> QED BY <1>0, <1>2, <2>3, TogetherTyped DEF MountVFS, MountVFSWithSwap
<1>3. ASSUME NEW g \in Games, RebuildVFS(g) PROVE Typed'
  <2>1. PICK ok \in BOOLEAN : RebuildVFSOwned({}, g, ok) BY <1>3 DEF RebuildVFS
  <2>2. FarmTyped' /\ UNCHANGED Rest BY <2>1, RebuildVFSOwnedTyped
  <2> QED BY <1>0, <1>3, <2>2, TogetherTyped DEF RebuildVFS
<1>4. ASSUME NEW g \in Games, ModChange(g) PROVE Typed'
  <2>1. PICK ok \in BOOLEAN : Rebuilds(g, ok) BY <1>4 DEF ModChange
  <2>2. FarmTyped' BY <1>0, <1>4, <2>1, RebuildsTyped DEF ModChange
  <2> QED BY <1>0, <1>4, <2>2, TogetherTyped DEF ModChange
<1>5. ASSUME NEW g \in Games, UnmountVFS(g) PROVE Typed'
  <2>1. PICK ok \in BOOLEAN :
          /\ (mounted[g] # None /\ TearsDown(g, ok)) \/ TearsDownLeftovers(ok)
          /\ flag' = IF ok THEN [flag EXCEPT ![g] = "none"] ELSE flag
    BY <1>5, Zenon DEF UnmountVFS
  <2>2. flag' \in [Games -> Ages] BY <1>0, <2>1 DEF FarmTyped, Ages
  <2>3. FarmTyped' BY <1>0, <1>5, <2>1, <2>2, TearsDownTyped DEF UnmountVFS
  <2> QED BY <1>0, <1>5, <2>3, TogetherTyped DEF UnmountVFS
<1>6. ASSUME NEW g \in Games, Edit(g) PROVE Typed'
  BY <1>6 DEF Edit, Typed
<1>7. CASE FlagsSwept
  BY <1>7 DEF FlagsSwept, FlagsForgotten, Ages, Typed
<1>8. ASSUME NEW g \in Games, NEW p \in Profiles, MountVFS(g, p) PROVE Typed'
  BY <1>1, <1>2, <1>8 DEF MountVFS
<1> QED BY <1>3, <1>4, <1>5, <1>6, <1>7, <1>8 DEF Locked

\* The same for the flags.
LEMMA LockedTrue ==
  ASSUME Truths, Locked
  PROVE  Truths'
<1> USE DEF Truths
<1>1. ASSUME NEW g \in Games, NEW p \in Profiles, MountVFS(g, p) PROVE Truths'
  <2>1. CASE MountVFSWithSwap(g, p) BY <2>1, Zenon DEF MountVFSWithSwap
  <2> QED BY <1>1, <2>1, MountVFSOwnedTrue, Zenon DEF MountVFS
<1>2. ASSUME NEW g \in Games, RebuildVFS(g) PROVE Truths'
  BY <1>2, RebuildVFSOwnedTrue, Zenon DEF RebuildVFS
<1>3. ASSUME NEW g \in Games, ModChange(g) \/ UnmountVFS(g) \/ Edit(g) PROVE Truths'
  BY <1>3, Zenon DEF ModChange, Rebuilds, UnmountVFS, Edit
<1>4. CASE FlagsSwept BY <1>4, Zenon DEF FlagsSwept
<1> QED BY <1>1, <1>2, <1>3, <1>4 DEF Locked

\* Steam, the games and time.
LEMMA WorldTyped ==
  ASSUME Typed, Truths, World
  PROVE  Typed' /\ Truths'
<1> USE DEF world_only
<1>1. CASE Grace BY <1>1 DEF Grace, AgeTicket, AgeFlag, Ages, Typed, Truths
<1>2. ASSUME NEW g \in Games, Settles(g) \/ Exit(g) \/ StartOutside(g) PROVE Typed' /\ Truths'
  BY <1>2 DEF Settles, Appear, NeverStarts, Exit, StartOutside, Typed, Truths
<1>3. ASSUME NEW g \in Games, TrackedExit(g) PROVE Typed' /\ Truths'
  BY <1>3 DEF TrackedExit, Typed, Truths
<1> QED BY <1>1, <1>2, <1>3 DEF World

\* The daemon's start and end.
LEMMA DaemonTyped ==
  ASSUME Typed, Truths, Daemon
  PROVE  Typed' /\ Truths'
<1> USE DEF Deployment, Deployments, Ages, Fault, FlagsForgotten
<1>1. CASE Start
  <2>1. Typed' BY <1>1 DEF Start, Typed
  <2>2. Truths' BY <1>1, Zenon DEF Start, Truths
  <2> QED BY <2>1, <2>2
<1>2. CASE BeginShutdown
  <2>1. Typed' BY <1>2 DEF BeginShutdown, Typed
  <2>2. Truths' BY <1>2, Zenon DEF BeginShutdown, Truths
  <2> QED BY <2>1, <2>2
<1>3. CASE Down
  <2>1. Typed' BY <1>3 DEF Down, Typed
  <2>2. Truths' BY <1>3, Zenon DEF Down, Truths
  <2> QED BY <2>1, <2>2
<1>4. ASSUME NEW g \in Games, ShutdownFarm(g) PROVE Typed' /\ Truths'
  <2>1. PICK ok \in BOOLEAN : TearsDown(g, ok) BY <1>4 DEF ShutdownFarm
  <2>2. FarmTyped' BY <1>4, <2>1, TearsDownTyped DEF ShutdownFarm, Typed, FarmTyped
  <2>3. Typed' BY <1>4, <2>2, TogetherTyped DEF ShutdownFarm, Typed, Rest
  <2>4. Truths' BY <1>4, Zenon DEF ShutdownFarm, Truths
  <2> QED BY <2>3, <2>4
<1> QED BY <1>1, <1>2, <1>3, <1>4 DEF Daemon

\* A landed download.
LEMMA LandingsTyped ==
  ASSUME Typed, Truths, NEW g \in Games, Land(g) \/ Handles(g)
  PROVE  Typed' /\ Truths'
<1> USE DEF Typed, Truths, landing, Goes
<1>1. CASE Land(g) BY <1>1 DEF Land
<1>2. CASE LandChecked(g) BY <1>2 DEF LandChecked
<1>3. CASE LandAdmitted(g) BY <1>3 DEF LandAdmitted
<1>4. CASE LandFenced(g) BY <1>4 DEF LandFenced
<1> QED BY <1>1, <1>2, <1>3, <1>4 DEF Handles

\* The types are inductive with the reservations.
LEMMA NextTyped ==
  ASSUME IInv, [Next]_vars
  PROVE  IInv'
<1>0. Typed /\ Truths /\ FInv' BY NextPreserves DEF IInv
<1>1. CASE Goroutines
  <2>1. CASE Boots BY <1>0, <2>1, BootsTyped, BootsTrue DEF IInv
  <2>2. CASE RetryBegin(Ticker) BY <1>0, <2>2, RetryTyped, RequestsTrue DEF IInv, Workers
  <2>3. ASSUME NEW w \in Workers, Recovers(w) PROVE IInv'
    BY <1>0, <2>3, RecoversTyped, RecoversTrue DEF IInv
  <2>4. ASSUME NEW c \in Clients, Restores(c) \/ Launches(c) \/ LoaderWorks(c) PROVE IInv'
    BY <1>0, <2>4, RestoresTyped, RestoresTrue, LaunchesTyped, LaunchesTrue,
       LoaderWorksTyped, LoaderWorksTrue DEF IInv
  <2> QED BY <1>1, <2>1, <2>2, <2>3, <2>4 DEF Goroutines
<1>2. ASSUME NEW c \in Clients, Requests(c) PROVE IInv'
  BY <1>0, <1>2, RequestsTyped, RequestsTrue DEF IInv
<1>3. ASSUME NEW g \in Games, Land(g) \/ Handles(g) PROVE IInv'
  BY <1>0, <1>3, LandingsTyped DEF IInv
<1>4. CASE Daemon BY <1>0, <1>4, DaemonTyped DEF IInv
<1>5. CASE Locked BY <1>0, <1>5, LockedTyped, LockedTrue DEF IInv
<1>6. CASE World BY <1>0, <1>6, WorldTyped DEF IInv
<1>7. CASE UNCHANGED vars
  <2>1. Typed' BY <1>0, <1>7 DEF Typed, vars
  <2>2. Truths' BY <1>0, <1>7, Zenon DEF Truths, vars
  <2> QED BY <1>0, <2>1, <2>2 DEF IInv
<1> QED BY <1>1, <1>2, <1>3, <1>4, <1>5, <1>6, <1>7 DEF Next

\* In every run every variable of the session has its type.
THEOREM SessionTypeCorrect == Spec => []TypeOK
<1>1. Init => IInv
  <2>1. ASSUME Init PROVE Typed BY <2>1 DEF Init, Typed, Ages
  <2>2. ASSUME Init PROVE Truths BY <2>2 DEF Init, Truths
  <2> QED BY <2>1, <2>2, InitHolds DEF IInv
<1>2. IInv => TypeOK
  BY DEF IInv, Typed, Truths, FInv, JobsFit, TypeOK
<1> QED BY <1>1, NextTyped, <1>2, PTL DEF Spec

-----------------------------------------------------------------------------
(* What the session's checks protect, for every number of games, profiles, *)
(* clients and faults: games that start or run keep their mods, none runs  *)
(* under a recovery or a change of the mod loader, and a game that is      *)
(* handed to Steam has a launch ticket.                                    *)
(*                                                                         *)
(* Why: a program that starts is known to somebody.  Its launch ticket is  *)
(* fresh, and either the daemon is down, it has deferred its recovery, it  *)
(* has a fresh flag, or the request that started it still runs (Watched);  *)
(* whatever removes or replaces mods looks at all of these.                *)

(* The invariant.                                                           *)

NoneMounted == \A g \in Games : mounted[g] = None
NobodyReads == running = {} /\ starting = {}

\* A launch under way that needs its ticket, or whose game has no flag yet.
Ticketed(c) == At(c, {"launch"}, "ticketed")
Handing(c) == At(c, {"launch"}, "handed") /\ ~job[c].tool

Recorded == starting # {} \/ (\E c \in Clients : Ticketed(c)) => ticket = "fresh"

Watched ==
  starting # {} => up = "down" \/ deferred \/ FreshLaunch \/ \E c \in Clients : Handing(c)

\* From its check of the process table on, exclusive work is alone with the mods.
Cleared(w) == Working(w) \/ (job[w].kind = "retry" /\ job[w].at = "recovered")
Emptied == \A w \in Workers : Cleared(w) => NobodyReads

\* Nothing is mounted before the daemon is ready, or while its recovery waits.
Recovering ==
  /\ up = "down" => ~stopping
  /\ deferred \/ up # "ready" => NoneMounted
  /\ \A w \in Workers :
       /\ job[w].kind = "boot" => w = Boot /\ up = "starting"
       /\ job[w].kind = "retry" /\ Alone(w) /\ job[w].at # "release" => deferred
       /\ job[w].kind = "loader" => Alone(w)

\* A launch deploys what is mounted, and no recovery of it is pending.
Held ==
  \A c \in Clients : job[c].kind = "launch" =>
    /\ job[c].game \notin rootPending
    /\ job[c].at \in {"apply", "deploy"} /\ job[c].profile # None
         => mounted[job[c].game] = job[c].profile

\* One game is mounted, and its root files are its profile's, unless they
\* wait for a recovery.
RootFits ==
  /\ \A g, h \in Games : mounted[g] # None /\ mounted[h] # None => g = h
  /\ \A g \in Games : mounted[g] # None /\ root # None /\ g \notin rootPending
       => root = Deployment(g, mounted[g])

\* Nothing is deployed while the loader changes, or is half-changed.
LoaderClear ==
  /\ intent \/ (\E w \in Workers : job[w].kind = "loader") => root = None /\ NoneMounted
  /\ intent => farm = None

LInv == Recorded /\ Watched /\ Emptied /\ Recovering /\ Held /\ RootFits /\ LoaderClear
SInv == IInv /\ LInv

\* What every step does: it preserves the invariant, and keeps the mods of a
\* game that starts or runs.
Safe == LInv' /\ KeepsMods

\* Whoever holds the install exclusively is alone with it.
LEMMA AloneExcludes ==
  ASSUME SInv, NEW w \in Workers, Alone(w)
  PROVE  /\ exclusive = w /\ shared = {} /\ ~CanShare
         /\ \A v \in Workers : Alone(v) => v = w
         /\ \A c \in Clients : job[c].kind # "launch"
BY SessionAssumption DEF SInv, IInv, FInv, FenceExclusion, Workers, CanShare

\* A shared reservation keeps exclusive work out.
LEMMA SharedExcludes ==
  ASSUME SInv, exclusive = None
  PROVE  \A w \in Workers : ~Alone(w) /\ ~Cleared(w) /\ job[w].kind # "loader"
BY SessionAssumption DEF SInv, IInv, FInv, FenceExclusion, Workers, LInv, Recovering, Cleared, Working, Alone

\* The launches that count as holders are all there are.
LEMMA HoldersAreAll ==
  ASSUME SInv, NEW c \in Clients, job[c].kind = "launch"
  PROVE  c \in LaunchHolders /\ exclusive = None
BY SessionAssumption DEF SInv, IInv, FInv, FenceExclusion, Workers, LaunchHolders

\* Without launches, flags and processes nobody reads, once the daemon has settled.
LEMMA Unread ==
  ASSUME SInv, ~UnmountRunning, up # "down", ~deferred, \A c \in Clients : ~Handing(c)
  PROVE  NobodyReads
BY DEF SInv, LInv, Watched, UnmountRunning, Seen, NobodyReads

\* A ticket that is not fresh says that nobody reads.
LEMMA IdleUnread ==
  ASSUME SInv, RecoveryIdle
  PROVE  NobodyReads
BY DEF SInv, LInv, Recorded, RecoveryIdle, Seen, NobodyReads

\* What the invariant says of a job, and of the flags.
LEMMA JobFacts ==
  ASSUME SInv
  PROVE  JobsFit /\ job \in [Workers -> Jobs] /\ deferred \in BOOLEAN /\ stopping \in BOOLEAN
BY DEF SInv, IInv, FInv, JobsFit, Truths

\* A step of a worker that changes neither games nor mods, nor what is known of them.
LEMMA OnlyWorks ==
  ASSUME SInv, NEW w \in Workers,
         \A v \in Workers \ {w} : job'[v] = job[v],
         UNCHANGED <<farm, root, ticket, world, life, deferred, flag, mounted, rootPending>>,
         job'[w].kind # "launch", job'[w].kind = "boot" => job[w].kind = "boot",
         job[w].kind # "launch",
         Cleared(w)' => Cleared(w) \/ NobodyReads,
         job'[w].kind = "retry" /\ Alone(w)' /\ job'[w].at # "release" => deferred,
         job'[w].kind = "loader" => Alone(w)' /\ job[w].kind = "loader",
         intent' => intent \/ (job[w].kind = "loader" /\ farm = None)
  PROVE  Safe
<1> USE DEF SInv, LInv, Safe, KeepsMods
<1>1. Recorded' BY SessionAssumption DEF Recorded, Ticketed, At, Workers
<1>2. Watched' BY SessionAssumption DEF Watched, Handing, At, Workers, FreshLaunch
<1>3. Emptied' BY DEF Emptied, Cleared, Working, Alone, NobodyReads
<1>4. Recovering' BY DEF Recovering, NoneMounted, Alone
<1>5. Held' BY SessionAssumption DEF Held, Workers
<1>6. RootFits' BY DEF RootFits, Deployment
<1>7. LoaderClear' BY DEF LoaderClear, NoneMounted
<1> QED BY <1>1, <1>2, <1>3, <1>4, <1>5, <1>6, <1>7

\* A step that leaves what the invariant is about, but for the flags of no game.
LEMMA UnchangedSafe ==
  ASSUME SInv,
         UNCHANGED <<farm, root, ticket, intent, world, life, deferred, mounted, rootPending, job>>,
         flag' = flag \/ starting = {} \/ ~FreshLaunch
  PROVE  Safe
<1> USE DEF SInv, LInv, Safe, KeepsMods
<1>1. Recorded' BY DEF Recorded, Ticketed, At
<1>2. Watched' BY DEF Watched, Handing, At, FreshLaunch
<1>3. Emptied' BY DEF Emptied, Cleared, Working, Alone, NobodyReads
<1>4. Recovering' BY DEF Recovering, NoneMounted, Alone
<1>5. Held' BY DEF Held
<1>6. RootFits' BY DEF RootFits, Deployment
<1>7. LoaderClear' BY DEF LoaderClear, NoneMounted
<1> QED BY <1>1, <1>2, <1>3, <1>4, <1>5, <1>6, <1>7

\* Root files that are removed, kept, or put back to what is mounted.
LEMMA RootPut ==
  ASSUME RootFits, NEW g \in Games,
         \A h \in Games : mounted'[h] \in {mounted[h], None},
         \/ root' = None
         \/ root' = root /\ rootPending' = rootPending
         \/ /\ mounted[g] # None /\ rootPending' = rootPending
            /\ root' = Deployment(g, mounted[g])
  PROVE  RootFits'
BY DEF RootFits, Deployment

\* The units of a recovery, and the replay after it.
LEMMA RecoversSafe ==
  ASSUME SInv, NEW w \in Workers, Recovers(w)
  PROVE  Safe
<1> USE SessionAssumption, JobFacts, AloneExcludes, StepAt, EndAt
    DEF Workers, Jobs, Stages, Recoveries, At, Alone, ExclusiveEnds, SInv, LInv, Safe, KeepsMods,
        Recorded, Watched, Emptied, Recovering, Held, RootFits, LoaderClear,
        NobodyReads, NoneMounted, Cleared, Working, Ticketed, Handing, FreshLaunch
<1>1. CASE RetryIdle(w) BY <1>1, IdleUnread DEF RetryIdle
<1>2. CASE RecoverLoader(w) BY <1>2 DEF RecoverLoader
<1>3. CASE RecoverRoot(w) BY <1>3 DEF RecoverRoot
<1>4. CASE RecoverData(w) BY <1>4 DEF RecoverData
<1>5. CASE RecoverHeldLoader(w) BY <1>5 DEF RecoverHeldLoader
<1>6. CASE RecoverOrphans(w) BY <1>6 DEF RecoverOrphans
<1>7. CASE RetryEnd(w) BY <1>7 DEF RetryEnd
<1>8. CASE Release(w) BY <1>8, SMTT(60) DEF Release
<1>9. CASE ReplayBegin(w) BY <1>9 DEF ReplayBegin
<1>10. CASE ReplayTake(w) BY <1>10 DEF ReplayTake
<1> QED BY <1>1, <1>2, <1>3, <1>4, <1>5, <1>6, <1>7, <1>8, <1>9, <1>10 DEF Recovers

\* A restore the user has confirmed.
LEMMA RestoresSafe ==
  ASSUME SInv, NEW c \in Clients, Restores(c)
  PROVE  Safe
<1> USE SessionAssumption, JobFacts, AloneExcludes, StepAt, EndAt
    DEF Workers, Jobs, Stages, At, Alone, ExclusiveEnds, SInv, LInv, Safe, KeepsMods,
        Recorded, Watched, Emptied, Recovering, Held, RootFits, LoaderClear,
        NobodyReads, NoneMounted, Cleared, Working, Ticketed, Handing, FreshLaunch
<1>1. CASE RestoreIdle(c) BY <1>1, IdleUnread DEF RestoreIdle
<1>2. CASE RestoreLoader(c)
  <2>1. UNCHANGED <<farm, root, ticket, world, life, deferred, flag, mounted, rootPending>>
    BY <1>2 DEF RestoreLoader
  <2>2. intent' => intent
    BY <1>2, Zenon DEF RestoreLoader
  <2> QED BY <1>2, <2>1, <2>2, OnlyWorks DEF RestoreLoader
<1>3. CASE RestoreRoot(c) BY <1>3 DEF RestoreRoot
<1>4. CASE RestoreData(c)
  <2>1. /\ NobodyReads /\ UNCHANGED <<starting, running, ticket, up, stopping, deferred, intent>>
        /\ \A d \in Clients : job[d].kind # "launch"
    BY <1>4 DEF RestoreData
  <2>2. /\ \A v \in Workers \ {c} : job'[v] = job[v]
        /\ job'[c].kind \in {"none", "restore"}
    BY <1>4 DEF RestoreData
  <2>3. \A g \in Games : mounted'[g] \in {mounted[g], None}
    BY <1>4 DEF RestoreData, Unmounts, IInv, Typed
  <2>4. \/ farm' = None /\ root' = None
        \/ /\ farm' = farm /\ mounted' = mounted
           /\ \/ root' = None
              \/ root' = root /\ rootPending' = rootPending
              \/ /\ mounted[job[c].game] # None /\ rootPending' = rootPending
                 /\ root' = Deployment(job[c].game, mounted[job[c].game])
    BY <1>4, Zenon DEF RestoreData
  <2>5. Recorded' /\ Watched' /\ Emptied' /\ Held' /\ KeepsMods BY <2>1, <2>2
  <2>6. Recovering' BY <2>1, <2>2, <2>3
  <2>7. job[c].game \in Games BY <1>4, JobGame DEF RestoreData
  <2>8. RootFits' BY <2>3, <2>4, <2>7, RootPut
  <2>9. LoaderClear' BY <2>1, <2>2, <2>3, <2>4, <2>7
  <2> QED BY <2>5, <2>6, <2>8, <2>9
<1>5. CASE RestoreTicket(c) BY <1>5 DEF RestoreTicket
<1> QED BY <1>1, <1>2, <1>3, <1>4, <1>5 DEF Restores

\* A change of the mod loader.
LEMMA LoaderWorksSafe ==
  ASSUME SInv, NEW c \in Clients, LoaderWorks(c)
  PROVE  Safe
<1> USE SessionAssumption, JobFacts, AloneExcludes, StepAt, EndAt
    DEF Workers, Jobs, Stages, At, Alone, ExclusiveEnds, SInv, LInv, Safe, KeepsMods,
        Recorded, Watched, Emptied, Recovering, Held, RootFits, LoaderClear,
        NobodyReads, NoneMounted, Cleared, Working, Ticketed, Handing, FreshLaunch
<1>1. CASE LoaderPrepare(c)
  <2>1. /\ UNCHANGED <<farm, root, ticket, world, life, deferred, flag, mounted, rootPending>>
        /\ intent' => intent
    BY <1>1, Zenon DEF LoaderPrepare
  <2> QED BY <1>1, <2>1, OnlyWorks DEF LoaderPrepare
<1>2. CASE LoaderFails(c) BY <1>2 DEF LoaderFails
<1>3. CASE LoaderRun(c) BY <1>3 DEF LoaderRun
<1>4. CASE LoaderEnd(c)
  <2>1. UNCHANGED <<farm, root, ticket, world, life, deferred, flag, mounted, rootPending>>
    BY <1>4 DEF LoaderEnd
  <2>2. intent' => intent
    BY <1>4, Zenon DEF LoaderEnd
  <2> QED BY <1>4, <2>1, <2>2, OnlyWorks DEF LoaderEnd
<1> QED BY <1>1, <1>2, <1>3, <1>4 DEF LoaderWorks

\* Startup recovery.
LEMMA BootsSafe ==
  ASSUME SInv, Boots
  PROVE  Safe
<1> USE SessionAssumption, JobFacts, AloneExcludes, StepAt, EndAt
    DEF Workers, Jobs, Stages, At, Alone, ExclusiveEnds, SInv, LInv, Safe, KeepsMods,
        Recorded, Watched, Emptied, Recovering, Held, RootFits, LoaderClear,
        NobodyReads, NoneMounted, Cleared, Working, Ticketed, Handing, FreshLaunch
<1>1. CASE BootFence BY <1>1 DEF BootFence
<1>2. CASE BootIdle BY <1>2, IdleUnread DEF BootIdle
<1>3. CASE BootEnd BY <1>3 DEF BootEnd
<1> QED BY <1>1, <1>2, <1>3 DEF Boots

-----------------------------------------------------------------------------
(* Requests that hold session.mu to their end: nobody reads the mods they   *)
(* change, and no launch is under way but the one that asks.                *)

\* What a request does while nobody reads and no launch is under way.
LEMMA FarmChange ==
  ASSUME SInv, NobodyReads, exclusive = None, \A c \in Clients : job[c].kind # "launch",
         UNCHANGED <<job, world, life, deferred, intent>>, RootFits',
         intent => root' \in {root, None} /\ farm' \in {farm, None} /\ mounted' = mounted,
         mounted' = mounted \/ NoneMounted' \/ (~deferred /\ up = "ready")
  PROVE  Safe
<1> USE DEF SInv, LInv, Safe
<1>1. \A w \in Workers : ~Alone(w) /\ ~Cleared(w) /\ job[w].kind # "loader" BY SharedExcludes
<1>2. NobodyReads' BY DEF NobodyReads
<1>3. Recorded' BY <1>2 DEF Recorded, Ticketed, At, NobodyReads
<1>4. Watched' BY <1>2 DEF Watched, NobodyReads
<1>5. Emptied' BY <1>2 DEF Emptied
<1>6. Recovering' BY <1>1 DEF Recovering, Alone, NoneMounted
<1>7. Held' BY DEF Held
<1>8. LoaderClear' BY <1>1 DEF LoaderClear, NoneMounted
<1>9. KeepsMods BY DEF KeepsMods, NobodyReads
<1> QED BY <1>3, <1>4, <1>5, <1>6, <1>7, <1>8, <1>9

\* Without holders there is no launch.
LEMMA NoHolders ==
  ASSUME SInv, NEW owner, LaunchHolders \subseteq owner
  PROVE  \A c \in Clients \ owner : job[c].kind # "launch"
BY HoldersAreAll

\* A mount and a profile switch: nobody reads, and one game stays mounted.
LEMMA MountsFit ==
  ASSUME SInv, NEW owner, NEW g \in Games, NEW p \in Profiles, NEW ok \in BOOLEAN,
         MountVFSOwned(owner, g, p, ok), mounted[g] # p,
         \A c \in Clients \cap owner : ~Handing(c)
  PROVE  /\ NobodyReads /\ ~deferred /\ up = "ready" /\ ~intent /\ exclusive = None
         /\ UNCHANGED <<ticket, flag, world, life, deferred, intent>>
         /\ ok => mounted'[g] = p /\ rootPending' = rootPending
         /\ RootFits'
         /\ \A c \in Clients \ owner : job[c].kind # "launch"
<1> USE DEF SInv, IInv
<1>1. /\ ~deferred /\ up = "ready" /\ ~intent /\ exclusive = None /\ Conflicts(g) = {}
      /\ LaunchHolders \subseteq owner /\ ~UnmountRunning
      /\ UNCHANGED <<ticket, flag, world, life, deferred, intent>>
      /\ (mounted[g] = None /\ Mounts(g, p, ok)) \/ Retargets(g, p, ok)
  BY DEF MountVFSOwned, MayMount, CanShare, Ready, Mounts, Retargets
<1>2. \A c \in Clients \ owner : job[c].kind # "launch" BY <1>1, NoHolders
<1>3. NobodyReads
  <2>1. \A c \in Clients : ~Handing(c) BY <1>2 DEF Handing, At
  <2> QED BY <1>1, <2>1, Unread
<1>4. mounted \in [Games -> Profiles \cup {None}] BY DEF Typed
<1>5. \A h \in Games \ {g} : mounted[h] = None BY <1>1 DEF Conflicts
<1>6. CASE mounted[g] = None /\ Mounts(g, p, ok)
  <2>1. ok => mounted'[g] = p /\ rootPending' = rootPending BY <1>4, <1>6 DEF Mounts
  <2>2. \/ mounted' = mounted
        \/ mounted' = [mounted EXCEPT ![g] = p] /\ root' = Deployment(g, p)
    BY <1>6, Zenon DEF Mounts
  <2>3. RootFits' BY <1>4, <1>5, <1>6, <2>2 DEF RootFits
  <2> QED BY <1>1, <1>2, <1>3, <2>1, <2>3
<1>7. CASE Retargets(g, p, ok)
  <2>1. ok => mounted'[g] = p /\ rootPending' = rootPending BY <1>4, <1>7 DEF Retargets
  <2>2. \/ UNCHANGED <<mounted, root, rootPending>>
        \/ mounted' = mounted /\ rootPending' = rootPending \cup {g}
        \/ mounted' = [mounted EXCEPT ![g] = p] /\ root' = Deployment(g, p)
    BY <1>7, Zenon DEF Retargets
  <2>3. RootFits' BY <1>4, <1>5, <2>2 DEF RootFits, LInv, Deployment
  <2> QED BY <1>1, <1>2, <1>3, <2>1, <2>3
<1> QED BY <1>1, <1>6, <1>7

\* An apply: nobody reads, and what is mounted stays.
LEMMA RebuildsFit ==
  ASSUME SInv, NEW g \in Games, NEW ok \in BOOLEAN, mounted[g] # None, exclusive = None,
         ~UnmountRunning, \A c \in Clients : ~Handing(c), Rebuilds(g, ok)
  PROVE  /\ NobodyReads /\ ~deferred /\ up = "ready" /\ ~intent
         /\ UNCHANGED <<farm, ticket, mounted, rootPending>>
         /\ RootFits'
<1>1. ~deferred /\ up = "ready" /\ ~intent
  BY DEF SInv, LInv, Recovering, LoaderClear, NoneMounted
<1>2. NobodyReads BY <1>1, Unread
<1>3. UNCHANGED <<farm, ticket, mounted, rootPending>> /\ root' \in {root, Deployment(g, mounted[g])}
  BY DEF Rebuilds
<1>4. RootFits' BY <1>3, RootPut DEF SInv, LInv
<1> QED BY <1>1, <1>2, <1>3, <1>4

\* A teardown only unmounts, and its root files fit.
LEMMA TearsDownFits ==
  ASSUME SInv, NEW g \in Games, NEW ok \in BOOLEAN, UNCHANGED rootPending,
         \/ mounted[g] # None /\ TearsDown(g, ok)
         \/ TearsDownLeftovers(ok)
  PROVE  /\ RootFits'
         /\ \A h \in Games : mounted'[h] \in {mounted[h], None}
         /\ intent => root' \in {root, None} /\ farm' \in {farm, None} /\ mounted' = mounted
<1>1. mounted \in [Games -> Profiles \cup {None}] BY DEF SInv, IInv, Typed
<1>2. CASE mounted[g] # None /\ TearsDown(g, ok)
  <2>1. \A h \in Games : mounted'[h] \in {mounted[h], None} BY <1>1, <1>2 DEF TearsDown, Unmounts
  <2>2. root' \in {root, None, Deployment(g, mounted[g])} BY <1>2 DEF TearsDown
  <2>3. RootFits' BY <1>2, <2>1, <2>2, RootPut DEF SInv, LInv
  <2>4. ~intent BY <1>2 DEF SInv, LInv, LoaderClear, NoneMounted
  <2> QED BY <2>1, <2>3, <2>4
<1>3. CASE TearsDownLeftovers(ok)
  <2>1. mounted' = mounted /\ root' \in {root, None} /\ farm' \in {farm, None}
    BY <1>3 DEF TearsDownLeftovers
  <2>2. RootFits' BY <2>1, RootPut DEF SInv, LInv
  <2> QED BY <2>1, <2>2
<1> QED BY <1>2, <1>3

\* A swap takes one farm away and puts the other in its place.
LEMMA SwapsFit ==
  ASSUME SInv, NEW g \in Games, NEW p \in Profiles, NEW h \in Games, g # h,
         mounted[h] # None, Swaps(g, p, h), UNCHANGED rootPending
  PROVE  RootFits'
<1>1. mounted \in [Games -> Profiles \cup {None}] BY DEF SInv, IInv, Typed
<1>2. \A f \in Games \ {h} : mounted[f] = None BY DEF SInv, LInv, RootFits
<1>3. CASE TearsDown(h, FALSE) BY <1>3, TearsDownFits
<1>4. CASE mounted' = [mounted EXCEPT ![h] = None]
  BY <1>1, <1>2, <1>4 DEF RootFits
<1>5. CASE mounted' = [mounted EXCEPT ![h] = None, ![g] = p] /\ root' = Deployment(g, p)
  BY <1>1, <1>2, <1>5 DEF RootFits, Deployment
<1> QED BY <1>3, <1>4, <1>5, Zenon DEF Swaps

\* Requests under the lock.
LEMMA LockedSafe ==
  ASSUME SInv, Locked
  PROVE  Safe
<1>1. ASSUME NEW g \in Games, NEW p \in Profiles, MountVFS(g, p), MountVFSWithSwap(g, p)
      PROVE  Safe
  <2>1. PICK h \in Conflicts(g) : ~TeardownBusy(h) /\ Swaps(g, p, h) BY <1>1 DEF MountVFSWithSwap
  <2>2. h \in Games /\ g # h /\ mounted[h] # None BY DEF Conflicts
  <2>3. /\ ~deferred /\ up = "ready" /\ ~intent /\ exclusive = None
        /\ LaunchHolders \subseteq {} /\ UNCHANGED rootPending
        /\ UNCHANGED <<job, world, life, deferred, intent>>
    BY <1>1 DEF MountVFS, MountVFSWithSwap, MayMount, CanShare, Ready
  <2>4. \A c \in Clients : job[c].kind # "launch" BY <2>3, NoHolders
  <2>5. NobodyReads
    BY <2>1, <2>3, <2>4, Unread DEF TeardownBusy, UnmountRunning, FreshLaunch, Handing, At
  <2>6. RootFits' BY <2>1, <2>2, <2>3, SwapsFit
  <2> QED BY <2>3, <2>4, <2>5, <2>6, FarmChange
<1>2. ASSUME NEW g \in Games, NEW p \in Profiles, MountVFS(g, p),
             NEW ok \in BOOLEAN, MountVFSOwned({}, g, p, ok)
      PROVE  Safe
  <2>1. mounted[g] # p /\ UNCHANGED job BY <1>2 DEF MountVFS
  <2> QED BY <1>2, <2>1, MountsFit, FarmChange
<1>3. ASSUME NEW g \in Games, RebuildVFS(g) PROVE Safe
  <2>1. PICK ok \in BOOLEAN : RebuildVFSOwned({}, g, ok) BY <1>3 DEF RebuildVFS
  <2>2. /\ mounted[g] # None /\ exclusive = None /\ ~UnmountRunning /\ Rebuilds(g, ok)
        /\ UNCHANGED <<job, world, life, deferred, intent>>
    BY <1>3, <2>1
       DEF RebuildVFS, RebuildVFSOwned, CanShare, ApplyBusy, HolderBusy, UnmountRunning
  <2>3. \A c \in Clients : job[c].kind # "launch" BY <2>1, NoHolders DEF RebuildVFSOwned
  <2>4. \A c \in Clients : ~Handing(c) BY <2>3 DEF Handing, At
  <2> QED BY <2>2, <2>3, <2>4, RebuildsFit, FarmChange
<1>4. ASSUME NEW g \in Games, ModChange(g) PROVE Safe
  <2>1. PICK ok \in BOOLEAN : Rebuilds(g, ok) BY <1>4 DEF ModChange
  <2>2. /\ mounted[g] # None /\ exclusive = None /\ ~UnmountRunning
        /\ LaunchHolders \subseteq {} /\ UNCHANGED <<job, world, life, deferred, intent>>
    BY <1>4 DEF ModChange, CanShare
  <2>3. \A c \in Clients : job[c].kind # "launch" BY <2>2, NoHolders
  <2>4. \A c \in Clients : ~Handing(c) BY <2>3 DEF Handing, At
  <2> QED BY <2>1, <2>2, <2>3, <2>4, RebuildsFit, FarmChange
<1>5. ASSUME NEW g \in Games, UnmountVFS(g) PROVE Safe
  <2>1. PICK ok \in BOOLEAN :
          (mounted[g] # None /\ TearsDown(g, ok)) \/ (mounted[g] = None /\ TearsDownLeftovers(ok))
    BY <1>5, Zenon DEF UnmountVFS
  <2>2. /\ ~deferred /\ up = "ready" /\ exclusive = None /\ ~UnmountRunning
        /\ LaunchHolders \subseteq {} /\ UNCHANGED rootPending
        /\ UNCHANGED <<job, world, life, deferred, intent>>
    BY <1>5 DEF UnmountVFS, CanShare, Ready
  <2>3. \A c \in Clients : job[c].kind # "launch" BY <2>2, NoHolders
  <2>4. NobodyReads BY <2>2, <2>3, Unread DEF Handing, At
  <2>5. /\ RootFits'
        /\ intent => root' \in {root, None} /\ farm' \in {farm, None} /\ mounted' = mounted
    BY <2>1, <2>2, TearsDownFits
  <2> QED BY <2>2, <2>3, <2>4, <2>5, FarmChange
<1>6. ASSUME NEW g \in Games, Edit(g) PROVE Safe
  BY <1>6, UnchangedSafe DEF Edit
<1>7. CASE FlagsSwept
  BY <1>7, UnchangedSafe DEF FlagsSwept, HolderBusy
<1> QED BY <1>1, <1>2, <1>3, <1>4, <1>5, <1>6, <1>7 DEF Locked, MountVFS

-----------------------------------------------------------------------------
(* A launch: it holds the install with its like, and it mounts, applies and *)
(* deploys before its game is handed over.                                  *)

\* What a launch does to the farm while no other launch is under way.
LEMMA LaunchChange ==
  ASSUME SInv, NEW c \in Clients, job[c].kind = "launch",
         \A w \in Workers \ {c} : job'[w] = job[w],
         \A d \in Clients \ {c} : job[d].kind # "launch",
         job'[c].kind \in {"none", "launch"}, job'[c].at \notin {"ticketed", "handed"},
         NobodyReads, ~deferred, up = "ready", ~intent, exclusive = None,
         UNCHANGED <<world, life, deferred, intent>>, RootFits',
         job'[c].kind = "launch" => /\ job'[c].game \notin rootPending'
                                    /\ job'[c].at \in {"apply", "deploy"} /\ job'[c].profile # None
                                         => mounted'[job'[c].game] = job'[c].profile
  PROVE  Safe
<1> USE SessionAssumption DEF SInv, LInv, Safe, Workers
<1>1. \A w \in Workers : ~Alone(w) /\ ~Cleared(w) /\ job[w].kind # "loader" BY SharedExcludes
<1>2. NobodyReads' BY DEF NobodyReads
<1>3. Recorded' BY <1>2 DEF Recorded, Ticketed, At, NobodyReads
<1>4. Watched' BY <1>2 DEF Watched, NobodyReads
<1>5. Emptied' BY <1>2 DEF Emptied
<1>6. Recovering' BY <1>1 DEF Recovering, Alone, NoneMounted
<1>7. Held' BY DEF Held
<1>8. LoaderClear' BY <1>1 DEF LoaderClear, NoneMounted
<1>9. KeepsMods BY DEF KeepsMods, NobodyReads
<1> QED BY <1>3, <1>4, <1>5, <1>6, <1>7, <1>8, <1>9

\* A launch that fails gives back what it holds.
LEMMA LeaveAt ==
  ASSUME SInv, NEW c \in Clients, SharedEnds(c)
  PROVE  /\ \A w \in Workers \ {c} : job'[w] = job[w]
         /\ job'[c].kind = "none" /\ job'[c].at = "none"
BY JobFacts DEF SharedEnds, JobEnds, NoJob, Workers, JobsFit

\* A launch goes on.
LEMMA GoesOn ==
  ASSUME SInv, NEW c \in Clients, job[c].kind = "launch", NEW s \in Stages, Step(c, s)
  PROVE  /\ \A w \in Workers \ {c} : job'[w] = job[w]
         /\ job'[c].kind = "launch" /\ job'[c].at = s
         /\ job'[c].game = job[c].game /\ job'[c].profile = job[c].profile
         /\ job'[c].tool = job[c].tool
BY JobFacts, StepAt DEF Step, Workers, JobsFit, Jobs

\* A step of a launch that leaves what the invariant is about.
LEMMA LaunchWaits ==
  ASSUME SInv, NEW c \in Clients, job[c].kind = "launch",
         job[c].at \notin {"handed"},
         \A w \in Workers \ {c} : job'[w] = job[w],
         UNCHANGED <<farm, root, ticket, intent, world, life, deferred, flag, mounted, rootPending>>,
         job'[c].kind \in {"none", "launch"}, job'[c].at \notin {"ticketed", "handed"},
         job'[c].kind = "launch" => /\ job'[c].game = job[c].game
                                    /\ job'[c].at \in {"apply", "deploy"} /\ job'[c].profile # None
                                         => mounted[job[c].game] = job'[c].profile
  PROVE  Safe
<1> USE SessionAssumption DEF SInv, LInv, Safe, KeepsMods, Workers
<1>1. Recorded' BY DEF Recorded, Ticketed, At
<1>2. Watched' BY DEF Watched, Handing, At, FreshLaunch
<1>3. Emptied' BY DEF Emptied, Cleared, Working, Alone, NobodyReads
<1>4. Recovering' BY DEF Recovering, NoneMounted, Alone
<1>5. Held' BY DEF Held
<1>6. RootFits' BY DEF RootFits, Deployment
<1>7. LoaderClear' BY DEF LoaderClear, NoneMounted
<1> QED BY <1>1, <1>2, <1>3, <1>4, <1>5, <1>6, <1>7

LEMMA LaunchMountSafe ==
  ASSUME SInv, NEW c \in Clients, LaunchMount(c)
  PROVE  Safe
<1>1. At(c, {"launch"}, "mount") /\ job[c].kind = "launch" /\ job[c].at = "mount" /\ c \in Workers
  BY SessionAssumption DEF LaunchMount, At, Workers
<1>2. job[c].game \in Games /\ job[c].profile \in Profiles \cup {None}
      /\ job[c].game \notin rootPending
  BY <1>1, JobGame DEF SInv, LInv, Held
<1>3. ~Handing(c) BY <1>1 DEF Handing, At
<1>4. CASE job[c].profile = None /\ Step(c, "apply") /\ UNCHANGED <<disk, memory, world, life, deferred>>
  <2>1. "apply" \in Stages BY DEF Stages
  <2> QED BY <1>1, <1>4, <2>1, GoesOn, LaunchWaits
<1>5. ASSUME NEW ok \in BOOLEAN, job[c].profile # None, mounted[job[c].game] # job[c].profile,
             MountVFSOwned({c}, job[c].game, job[c].profile, ok),
             (ok /\ Step(c, "apply")) \/ (~ok /\ SharedEnds(c))
      PROVE  Safe
  <2>1. /\ NobodyReads /\ ~deferred /\ up = "ready" /\ ~intent /\ exclusive = None
        /\ UNCHANGED <<ticket, flag, world, life, deferred, intent>>
        /\ ok => mounted'[job[c].game] = job[c].profile /\ rootPending' = rootPending
        /\ RootFits'
        /\ \A d \in Clients \ {c} : job[d].kind # "launch"
    BY <1>2, <1>3, <1>5, MountsFit
  <2>2. CASE ok /\ Step(c, "apply")
    <3>1. "apply" \in Stages BY DEF Stages
    <3> QED BY <1>1, <1>2, <2>1, <2>2, <3>1, GoesOn, LaunchChange
  <2>3. CASE ~ok /\ SharedEnds(c)
    BY <1>1, <2>1, <2>3, LeaveAt, LaunchChange
  <2> QED BY <1>5, <2>2, <2>3
<1>6. ASSUME NEW ok \in BOOLEAN, job[c].profile # None, mounted[job[c].game] = job[c].profile,
             MountVFSOwned({c}, job[c].game, job[c].profile, ok),
             (ok /\ Step(c, "apply")) \/ (~ok /\ SharedEnds(c))
      PROVE  Safe
  <2>1. /\ ok
        /\ UNCHANGED <<farm, root, ticket, intent, world, life, deferred, flag, mounted, rootPending>>
    BY <1>2, <1>6, SessionAssumption DEF MountVFSOwned
  <2>2. "apply" \in Stages BY DEF Stages
  <2> QED BY <1>1, <1>6, <2>1, <2>2, GoesOn, LaunchWaits
<1> QED BY <1>4, <1>5, <1>6 DEF LaunchMount

LEMMA LaunchApplySafe ==
  ASSUME SInv, NEW c \in Clients, LaunchApply(c)
  PROVE  Safe
<1>1. /\ job[c].kind = "launch" /\ job[c].at = "apply" /\ c \in Workers
      /\ "deploy" \in Stages
  BY SessionAssumption DEF LaunchApply, At, Workers, Stages
<1>2. /\ job[c].game \in Games /\ job[c].game \notin rootPending
      /\ job[c].profile # None => mounted[job[c].game] = job[c].profile
  BY <1>1, JobGame DEF SInv, LInv, Held
<1>3. CASE Step(c, "deploy") /\ UNCHANGED <<disk, memory, world, life, deferred>>
  BY <1>1, <1>2, <1>3, GoesOn, LaunchWaits
<1>4. ASSUME NEW ok \in BOOLEAN, RebuildVFSOwned({c}, job[c].game, ok),
             (ok /\ Step(c, "deploy")) \/ (~ok /\ SharedEnds(c))
      PROVE  Safe
  <2>1. /\ mounted[job[c].game] # None /\ exclusive = None /\ ~UnmountRunning
        /\ Rebuilds(job[c].game, ok) /\ LaunchHolders \subseteq {c}
        /\ UNCHANGED <<world, life, deferred, intent>>
    BY <1>4 DEF RebuildVFSOwned, CanShare, ApplyBusy, HolderBusy, UnmountRunning
  <2>2. \A d \in Clients \ {c} : job[d].kind # "launch" BY <2>1, NoHolders
  <2>3. \A d \in Clients : ~Handing(d) BY <1>1, <2>2 DEF Handing, At
  <2>4. /\ NobodyReads /\ ~deferred /\ up = "ready" /\ ~intent
        /\ UNCHANGED <<farm, ticket, mounted, rootPending>> /\ RootFits'
    BY <1>2, <2>1, <2>3, RebuildsFit
  <2>5. CASE ok /\ Step(c, "deploy")
    BY <1>1, <1>2, <2>1, <2>2, <2>4, <2>5, GoesOn, LaunchChange
  <2>6. CASE ~ok /\ SharedEnds(c)
    BY <1>1, <2>1, <2>2, <2>4, <2>6, LeaveAt, LaunchChange
  <2> QED BY <1>4, <2>5, <2>6
<1> QED BY <1>3, <1>4 DEF LaunchApply

LEMMA LaunchDeploySafe ==
  ASSUME SInv, NEW c \in Clients, LaunchDeploy(c)
  PROVE  Safe
<1> USE SessionAssumption DEF SInv, LInv, Safe, Workers
<1>1. /\ job[c].kind = "launch" /\ job[c].at = "deploy" /\ "record" \in Stages
      /\ UNCHANGED <<farm, ticket, intent, world, life, deferred, flag, mounted, rootPending>>
  BY DEF LaunchDeploy, At, Stages
<1>2. /\ \A w \in Workers \ {c} : job'[w] = job[w]
      /\ job'[c].kind = "launch" /\ job'[c].at = "record" /\ job'[c].game = job[c].game
  BY <1>1, GoesOn DEF LaunchDeploy
<1>3. /\ job[c].game \in Games /\ job[c].game \notin rootPending
      /\ job[c].profile # None => mounted[job[c].game] = job[c].profile
  BY <1>1, JobGame DEF Held
<1>4. \/ root' = root
      \/ /\ mounted[job[c].game] # None /\ root' = Deployment(job[c].game, mounted[job[c].game])
         /\ root # None => root' = root
  BY <1>3 DEF LaunchDeploy, RootFits
<1>5. KeepsMods BY <1>1, <1>4 DEF KeepsMods
<1>6. Recorded' BY <1>1, <1>2 DEF Recorded, Ticketed, At
<1>7. Watched' BY <1>1, <1>2 DEF Watched, Handing, At, FreshLaunch
<1>8. Emptied' BY <1>1, <1>2 DEF Emptied, Cleared, Working, Alone, NobodyReads
<1>9. Recovering' BY <1>1, <1>2 DEF Recovering, NoneMounted, Alone
<1>10. Held' BY <1>1, <1>2, <1>3 DEF Held
<1>11. RootFits' BY <1>1, <1>3, <1>4 DEF RootFits, Deployment
<1>12. LoaderClear' BY <1>1, <1>2, <1>3, <1>4 DEF LoaderClear, NoneMounted
<1> QED BY <1>5, <1>6, <1>7, <1>8, <1>9, <1>10, <1>11, <1>12

LEMMA LaunchTicketSafe ==
  ASSUME SInv, NEW c \in Clients, LaunchTicket(c)
  PROVE  Safe
<1> USE SessionAssumption DEF SInv, LInv, Safe, Workers
<1>1. /\ job[c].kind = "launch" /\ job[c].at = "record" /\ "ticketed" \in Stages /\ ticket' = "fresh"
      /\ UNCHANGED <<farm, root, intent, world, life, deferred, flag, mounted, rootPending>>
  BY DEF LaunchTicket, At, Stages
<1>2. /\ \A w \in Workers \ {c} : job'[w] = job[w]
      /\ job'[c].kind = "launch" /\ job'[c].at = "ticketed" /\ job'[c].game = job[c].game
  BY <1>1, GoesOn DEF LaunchTicket
<1>3. KeepsMods BY <1>1 DEF KeepsMods
<1>4. Recorded' BY <1>1 DEF Recorded
<1>5. Watched' BY <1>1, <1>2 DEF Watched, Handing, At, FreshLaunch
<1>6. Emptied' BY <1>1, <1>2 DEF Emptied, Cleared, Working, Alone, NobodyReads
<1>7. Recovering' BY <1>1, <1>2 DEF Recovering, NoneMounted, Alone
<1>8. Held' BY <1>1, <1>2 DEF Held
<1>9. RootFits' BY <1>1 DEF RootFits, Deployment
<1>10. LoaderClear' BY <1>1, <1>2 DEF LoaderClear, NoneMounted
<1> QED BY <1>3, <1>4, <1>5, <1>6, <1>7, <1>8, <1>9, <1>10

LEMMA LaunchHandOverSafe ==
  ASSUME SInv, NEW c \in Clients, LaunchHandOver(c)
  PROVE  Safe
<1> USE SessionAssumption DEF SInv, LInv, Safe, Workers
<1>1. /\ job[c].kind = "launch" /\ job[c].at = "ticketed" /\ "handed" \in Stages
      /\ UNCHANGED <<disk, life, deferred, flag, mounted, rootPending>>
      /\ job[c].tool \/ ~job[c].tool
      /\ job[c].tool => starting' = starting
  BY DEF LaunchHandOver, At, Stages
<1>2. /\ \A w \in Workers \ {c} : job'[w] = job[w]
      /\ job'[c].kind = "launch" /\ job'[c].at = "handed" /\ job'[c].game = job[c].game
      /\ job'[c].tool = job[c].tool
  BY <1>1, GoesOn DEF LaunchHandOver
<1>3. \A w \in Workers : ~Alone(w) /\ ~Cleared(w) /\ job[w].kind # "loader"
  BY <1>1, HoldersAreAll, SharedExcludes
<1>4. ticket = "fresh" BY <1>1 DEF Recorded, Ticketed, At
<1>5. KeepsMods BY <1>1 DEF KeepsMods
<1>6. Recorded' BY <1>1, <1>4 DEF Recorded
<1>7. Watched'
  <2>1. CASE job[c].tool BY <1>1, <1>2, <2>1 DEF Watched, Handing, At, FreshLaunch
  <2>2. CASE ~job[c].tool BY <1>1, <1>2, <2>2 DEF Watched, Handing, At
  <2> QED BY <2>1, <2>2
<1>8. Emptied' BY <1>2, <1>3 DEF Emptied, Cleared, Working, Alone
<1>9. Recovering' BY <1>1, <1>2, <1>3 DEF Recovering, NoneMounted, Alone
<1>10. Held' BY <1>1, <1>2 DEF Held
<1>11. RootFits' BY <1>1 DEF RootFits, Deployment
<1>12. LoaderClear' BY <1>1, <1>2 DEF LoaderClear, NoneMounted
<1> QED BY <1>5, <1>6, <1>7, <1>8, <1>9, <1>10, <1>11, <1>12

LEMMA LaunchRecordSafe ==
  ASSUME SInv, NEW c \in Clients, LaunchRecord(c)
  PROVE  Safe
<1> USE SessionAssumption DEF SInv, LInv, Safe, Workers
<1>1. /\ job[c].kind = "launch" /\ job[c].at = "handed" /\ SharedEnds(c)
      /\ UNCHANGED <<disk, world, life, deferred, mounted, rootPending>>
  BY DEF LaunchRecord, At
<1>2. \A w \in Workers \ {c} : job'[w] = job[w]
  BY <1>1, LeaveAt
<1>3. job'[c].kind = "none" /\ job'[c].at = "none"
  BY <1>1, LeaveAt
<1>4. KeepsMods BY <1>1 DEF KeepsMods
<1>5. Recorded' BY <1>1, <1>2, <1>3 DEF Recorded, Ticketed, At
<1>6. Watched'
  <2>1. CASE job[c].tool /\ flag' = flag
    BY <1>1, <1>2, <2>1 DEF Watched, Handing, At, FreshLaunch
  <2>2. CASE flag' = [flag EXCEPT ![job[c].game] = "fresh"]
    <3>1. job[c].game \in Games /\ flag \in [Games -> Ages] BY <1>1, JobGame DEF IInv, Typed
    <3>2. FreshLaunch' BY <2>2, <3>1 DEF FreshLaunch
    <3> QED BY <3>2 DEF Watched
  <2> QED BY <2>1, <2>2, Zenon DEF LaunchRecord
<1>7. Emptied' BY <1>1, <1>2, <1>3 DEF Emptied, Cleared, Working, Alone, NobodyReads
<1>8. Recovering' BY <1>1, <1>2, <1>3 DEF Recovering, NoneMounted, Alone
<1>9. Held' BY <1>1, <1>2, <1>3 DEF Held
<1>10. RootFits' BY <1>1 DEF RootFits, Deployment
<1>11. LoaderClear' BY <1>1, <1>2, <1>3 DEF LoaderClear, NoneMounted
<1> QED BY <1>4, <1>5, <1>6, <1>7, <1>8, <1>9, <1>10, <1>11

LEMMA LaunchesSafe ==
  ASSUME SInv, NEW c \in Clients, Launches(c)
  PROVE  Safe
<1>1. CASE LaunchFails(c)
  <2>1. /\ job[c].kind = "launch" /\ job[c].at # "handed"
        /\ UNCHANGED <<farm, root, ticket, intent, world, life, deferred, flag, mounted, rootPending>>
        /\ SharedEnds(c)
    BY <1>1 DEF LaunchFails, At, Refused, launching
  <2> QED BY <2>1, LeaveAt, LaunchWaits
<1>2. CASE LaunchPreflight(c)
  <2>1. /\ job[c].kind = "launch" /\ job[c].at = "admitted" /\ Step(c, "mount") /\ "mount" \in Stages
        /\ UNCHANGED <<farm, root, ticket, intent, world, life, deferred, flag, mounted, rootPending>>
    BY <1>2 DEF LaunchPreflight, At, Stages
  <2> QED BY <2>1, GoesOn, LaunchWaits
<1>3. CASE LaunchMount(c) BY <1>3, LaunchMountSafe
<1>4. CASE LaunchApply(c) BY <1>4, LaunchApplySafe
<1>5. CASE LaunchDeploy(c) BY <1>5, LaunchDeploySafe
<1>6. CASE LaunchTicket(c) BY <1>6, LaunchTicketSafe
<1>7. CASE LaunchHandOver(c) BY <1>7, LaunchHandOverSafe
<1>8. CASE LaunchRecord(c) BY <1>8, LaunchRecordSafe
<1> QED BY <1>1, <1>2, <1>3, <1>4, <1>5, <1>6, <1>7, <1>8 DEF Launches

-----------------------------------------------------------------------------
(* Requests, the daemon's start and end, and the world around it.           *)

\* A retry that begins, of the timer or of a request.
LEMMA RetrySafe ==
  ASSUME SInv, NEW w \in Workers, RetryBegin(w)
  PROVE  Safe
<1>1. Begins(w, "retry", "fenced", None)
  BY JobFacts, BeginAt DEF RetryBegin, Kinds, Stages
<1>2. /\ job[w].kind = "none" /\ deferred
      /\ UNCHANGED <<farm, root, ticket, world, life, deferred, flag, mounted, rootPending>>
  BY DEF RetryBegin, Idle
<1>3. intent' => intent BY Zenon DEF RetryBegin
<1>4. ~Cleared(w)' BY <1>1 DEF Begins, Cleared, Working
<1>5. /\ \A v \in Workers \ {w} : job'[v] = job[v]
      /\ job'[w].kind = "retry" /\ job'[w].kind \notin {"launch", "boot", "loader"}
      /\ job[w].kind # "launch"
  BY <1>1, <1>2 DEF Begins
<1> QED BY <1>2, <1>3, <1>4, <1>5, OnlyWorks DEF Cleared, Working, Alone

LEMMA LoaderAdmitSafe ==
  ASSUME SInv, NEW c \in Clients, LoaderAdmit(c)
  PROVE  Safe
<1> USE SessionAssumption DEF SInv, LInv, Safe, Workers
<1>1. Begins(c, "loader", "fenced", None)
  BY JobFacts, BeginAt DEF LoaderAdmit, Kinds, Stages
<1>2. /\ up = "ready" /\ ~deferred /\ exclusive = None /\ shared = {} /\ ~UnmountRunning
      /\ NoneMounted /\ root = None
      /\ UNCHANGED <<disk, mounted, rootPending, world, life, deferred>>
  BY DEF LoaderAdmit, Ready, CanRecover, NoneMounted, HolderBusy, UnmountRunning
<1>3. \A d \in Clients : job[d].kind # "launch"
  BY <1>2, HoldersAreAll DEF LaunchHolders
<1>4. NobodyReads BY <1>2, <1>3, Unread DEF Handing, At
<1>5. KeepsMods BY <1>2 DEF KeepsMods
<1>6. Recorded' BY <1>1, <1>2 DEF Recorded, Ticketed, At, Begins
<1>7. Watched' BY <1>2, <1>4 DEF Watched, NobodyReads
<1>8. Emptied' BY <1>2, <1>4 DEF Emptied, NobodyReads
<1>9. Recovering' BY <1>1, <1>2 DEF Recovering, NoneMounted, Alone, Begins
<1>10. Held' BY <1>1, <1>2 DEF Held, Begins
<1>11. RootFits' BY <1>2 DEF RootFits, Deployment
<1>12. LoaderClear' BY <1>2 DEF LoaderClear, NoneMounted
<1> QED BY <1>5, <1>6, <1>7, <1>8, <1>9, <1>10, <1>11, <1>12

LEMMA LaunchAdmitSafe ==
  ASSUME SInv, NEW c \in Clients, NEW g \in Games, NEW p \in Profiles \cup {None},
         NEW tool \in BOOLEAN, LaunchAdmit(c, g, p, tool)
  PROVE  Safe
<1> USE SessionAssumption DEF SInv, LInv, Safe, Workers
<1>1. /\ \A w \in Workers \ {c} : job'[w] = job[w]
      /\ job'[c].kind = "launch" /\ job'[c].at = "admitted" /\ job'[c].game = g
      /\ job[c].kind = "none"
  BY JobFacts DEF LaunchAdmit, Idle, JobsFit, NoJob
<1>2. /\ g \notin rootPending
      /\ UNCHANGED <<disk, flag, mounted, rootPending, world, life, deferred>>
  BY DEF LaunchAdmit, PendingFor
<1>3. KeepsMods BY <1>2 DEF KeepsMods
<1>4. Recorded' BY <1>1, <1>2 DEF Recorded, Ticketed, At
<1>5. Watched' BY <1>1, <1>2 DEF Watched, Handing, At, FreshLaunch
<1>6. Emptied' BY <1>1, <1>2 DEF Emptied, Cleared, Working, Alone, NobodyReads
<1>7. Recovering' BY <1>1, <1>2 DEF Recovering, NoneMounted, Alone
<1>8. Held' BY <1>1, <1>2 DEF Held
<1>9. RootFits' BY <1>2 DEF RootFits, Deployment
<1>10. LoaderClear' BY <1>1, <1>2 DEF LoaderClear, NoneMounted
<1> QED BY <1>3, <1>4, <1>5, <1>6, <1>7, <1>8, <1>9, <1>10

LEMMA RequestsSafe ==
  ASSUME SInv, NEW c \in Clients, Requests(c)
  PROVE  Safe
<1>1. CASE RetryBegin(c) BY <1>1, RetrySafe DEF Workers
<1>2. CASE LoaderAdmit(c) BY <1>2, LoaderAdmitSafe
<1>3. ASSUME NEW g \in Games, RestoreBegin(c, g) PROVE Safe
  <2>1. Begins(c, "restore", "fenced", g)
    BY <1>3, JobFacts, BeginAt DEF RestoreBegin, Kinds, Stages, Workers
  <2>2. /\ job[c].kind = "none" /\ c \in Workers
        /\ UNCHANGED <<farm, root, ticket, world, life, deferred, flag, mounted, rootPending>>
    BY <1>3 DEF RestoreBegin, Idle, Workers
  <2>3. intent' => intent BY <1>3, Zenon DEF RestoreBegin
  <2>4. ~Cleared(c)' BY <2>1 DEF Begins, Cleared, Working
  <2>5. /\ \A v \in Workers \ {c} : job'[v] = job[v]
        /\ job'[c].kind \notin {"launch", "boot", "loader", "retry"} /\ job[c].kind # "launch"
    BY <2>1, <2>2 DEF Begins
  <2> QED BY <2>2, <2>3, <2>4, <2>5, OnlyWorks DEF Cleared, Working, Alone
<1>4. ASSUME NEW g \in Games, NEW p \in Profiles \cup {None}, NEW tool \in BOOLEAN,
             LaunchAdmit(c, g, p, tool)
      PROVE  Safe
  BY <1>4, LaunchAdmitSafe
<1> QED BY <1>1, <1>2, <1>3, <1>4 DEF Requests

\* The daemon starts: a ticket that it finds fresh defers its recovery.
LEMMA StartSafe ==
  ASSUME SInv, Start
  PROVE  Safe
<1> USE SessionAssumption DEF SInv, LInv, Safe, Workers
<1>1. Begins(Boot, "boot", "start", None)
  BY JobFacts, BeginAt DEF Start, Kinds, Stages
<1>2. /\ up = "down" /\ up' = "starting" /\ \A w \in Workers : job[w].kind = "none"
      /\ UNCHANGED <<disk, flag, mounted, rootPending, world, stopping>>
  BY JobFacts DEF Start, JobsFit
<1>3. starting # {} => deferred' BY DEF Start, Recorded, RecoveryIdle
<1>4. KeepsMods BY <1>2 DEF KeepsMods
<1>5. Recorded' BY <1>1, <1>2 DEF Recorded, Ticketed, At, Begins
<1>6. Watched' BY <1>2, <1>3 DEF Watched
<1>7. Emptied' BY <1>1, <1>2 DEF Emptied, Cleared, Working, Alone, Begins
<1>8. Recovering' BY <1>1, <1>2 DEF Recovering, NoneMounted, Alone, Begins
<1>9. Held' BY <1>1, <1>2 DEF Held, Begins
<1>10. RootFits' BY <1>2 DEF RootFits, Deployment
<1>11. LoaderClear' BY <1>1, <1>2 DEF LoaderClear, NoneMounted, Begins
<1> QED BY <1>4, <1>5, <1>6, <1>7, <1>8, <1>9, <1>10, <1>11

LEMMA DaemonSafe ==
  ASSUME SInv, Daemon
  PROVE  Safe
<1>1. CASE Start BY <1>1, StartSafe
<1>2. CASE BeginShutdown
  <2> USE DEF SInv, LInv, Safe
  <2>1. /\ up # "down" /\ up' = up
        /\ UNCHANGED <<disk, flag, mounted, rootPending, world, deferred, job>>
    BY <1>2 DEF BeginShutdown
  <2>2. Recorded' /\ KeepsMods BY <2>1 DEF Recorded, Ticketed, At, KeepsMods
  <2>3. Watched' BY <2>1 DEF Watched, Handing, At, FreshLaunch
  <2>4. Emptied' BY <2>1 DEF Emptied, Cleared, Working, Alone, NobodyReads
  <2>5. Recovering' BY <2>1 DEF Recovering, NoneMounted, Alone
  <2>6. Held' /\ RootFits' /\ LoaderClear'
    BY <2>1 DEF Held, RootFits, Deployment, LoaderClear, NoneMounted
  <2> QED BY <2>2, <2>3, <2>4, <2>5, <2>6
<1>3. CASE Down
  <2>1. /\ up' = "down" /\ ~stopping' /\ UNCHANGED <<disk, world>>
        /\ \A w \in Workers : job'[w].kind = "none"
        /\ \A g \in Games : mounted'[g] = None
    BY <1>3, NoJobFits DEF Down
  <2> QED BY <2>1, SessionAssumption
          DEF SInv, LInv, Safe, KeepsMods, Recorded, Watched, Emptied, Recovering, Held, RootFits,
              LoaderClear, Ticketed, At, Cleared, Working, Alone, NoneMounted, Workers
<1>4. ASSUME NEW g \in Games, ShutdownFarm(g) PROVE Safe
  <2>1. PICK ok \in BOOLEAN : TearsDown(g, ok) BY <1>4 DEF ShutdownFarm
  <2>2. /\ mounted[g] # None /\ ~deferred /\ exclusive = None /\ ~UnmountRunning
        /\ LaunchHolders \subseteq {} /\ UNCHANGED rootPending
        /\ UNCHANGED <<job, world, life, deferred, intent>>
    BY <1>4 DEF ShutdownFarm, TeardownBusy, UnmountRunning, FreshLaunch
  <2>3. up = "ready" BY <2>2 DEF SInv, LInv, Recovering, NoneMounted
  <2>4. \A c \in Clients : job[c].kind # "launch" BY <2>2, NoHolders
  <2>5. NobodyReads BY <2>2, <2>3, <2>4, Unread DEF Handing, At
  <2>6. /\ RootFits'
        /\ intent => root' \in {root, None} /\ farm' \in {farm, None} /\ mounted' = mounted
    BY <2>1, <2>2, TearsDownFits
  <2> QED BY <2>2, <2>3, <2>4, <2>5, <2>6, FarmChange
<1> QED BY <1>1, <1>2, <1>3, <1>4 DEF Daemon

\* Steam, the games and time: the moment between a check and the work it
\* allows is over before a game starts by itself.
LEMMA WorldSafe ==
  ASSUME SInv, World
  PROVE  Safe
<1> USE DEF world_only, SInv, LInv, Safe, KeepsMods
<1> DEFINE Same == UNCHANGED <<farm, root, intent, life, deferred, mounted, rootPending, job>>
<1>1. ASSUME Same, NEW g \in Games,
             \/ AgeTicket
             \/ UNCHANGED ticket /\ AgeFlag(g)
             \/ UNCHANGED <<ticket, flag>> /\ (Appear(g) \/ NeverStarts(g) \/ Exit(g) \/ StartOutside(g))
      PROVE  Safe
  <2>1. Recorded' BY <1>1 DEF Recorded, Ticketed, At, AgeTicket, AgeFlag, StillStarting,
                              Appear, NeverStarts, Exit, StartOutside
  <2>2. Watched'
    <3>1. CASE AgeTicket BY <1>1, <3>1 DEF AgeTicket, Watched, Handing, At, FreshLaunch
    <3>2. CASE AgeFlag(g) BY <3>2 DEF AgeFlag, Watched
    <3>3. CASE UNCHANGED flag /\ starting' \subseteq starting
      BY <1>1, <3>3 DEF Watched, Handing, At, FreshLaunch
    <3> QED BY <1>1, <3>1, <3>2, <3>3 DEF Appear, NeverStarts, Exit, StartOutside
  <2>3. Emptied'
    <3>1. CASE UNCHANGED world \/ NeverStarts(g) \/ Exit(g)
      BY <1>1, <3>1 DEF Emptied, Cleared, Working, Alone, NobodyReads, NeverStarts, Exit
    <3>2. CASE Appear(g) BY <1>1, <3>2 DEF Emptied, Cleared, Working, Alone, NobodyReads, Appear
    <3>3. CASE StartOutside(g)
      <4>1. \A w \in Workers : ~Cleared(w)
        BY <3>3, AloneExcludes, SessionAssumption
           DEF StartOutside, BetweenCheckAndWork, At, Recoveries, Cleared, Working, Alone
      <4> QED BY <1>1, <4>1 DEF Emptied, Cleared, Working, Alone
    <3> QED BY <1>1, <3>1, <3>2, <3>3 DEF AgeTicket, AgeFlag
  <2>4. Recovering' BY <1>1 DEF Recovering, NoneMounted, Alone
  <2>5. Held' /\ RootFits' BY <1>1 DEF Held, RootFits, Deployment
  <2>6. LoaderClear' BY <1>1 DEF LoaderClear, NoneMounted
  <2>7. KeepsMods BY <1>1 DEF KeepsMods
  <2> QED BY <2>1, <2>2, <2>3, <2>4, <2>5, <2>6, <2>7
<1>2. CASE AgeTicket
  <2>1. Same BY <1>2 DEF AgeTicket
  <2>2. CASE Games = {} BY <1>2, <2>2 DEF AgeTicket, Recorded, Ticketed, At, StillStarting,
          Watched, Handing, FreshLaunch, Emptied, Cleared, Working, Alone, NobodyReads, Recovering,
          NoneMounted, Held, RootFits, Deployment, LoaderClear
  <2>3. CASE Games # {} BY <1>1, <1>2, <2>1, <2>3
  <2> QED BY <2>2, <2>3
<1>3. ASSUME NEW g \in Games, AgeFlag(g) PROVE Safe
  <2>1. Same /\ UNCHANGED ticket BY <1>3 DEF AgeFlag
  <2> QED BY <1>1, <1>3, <2>1
<1>4. ASSUME NEW g \in Games, Settles(g) \/ Exit(g) \/ StartOutside(g) PROVE Safe
  <2>1. Same /\ UNCHANGED <<ticket, flag>>
    BY <1>4 DEF Settles, Appear, NeverStarts, Exit, StartOutside
  <2> QED BY <1>1, <1>4, <2>1 DEF Settles
<1>5. ASSUME NEW g \in Games, TrackedExit(g) PROVE Safe
  BY <1>5, UnchangedSafe DEF TrackedExit
<1> QED BY <1>2, <1>3, <1>4, <1>5 DEF World, Grace

\* A landed download does not touch what is deployed.
LEMMA LandingsSafe ==
  ASSUME SInv, NEW g \in Games, Land(g) \/ Handles(g)
  PROVE  Safe
BY UnchangedSafe DEF Land, Handles, LandChecked, LandAdmitted, LandFenced, landing

-----------------------------------------------------------------------------
\* Every step preserves the invariant and keeps the mods of a game that starts or runs.
LEMMA NextSafe ==
  ASSUME SInv, [Next]_vars
  PROVE  SInv' /\ KeepsMods
<1>1. ASSUME Goroutines PROVE Safe
  <2>1. CASE Boots BY <2>1, BootsSafe
  <2>2. CASE RetryBegin(Ticker) BY <2>2, RetrySafe DEF Workers
  <2>3. ASSUME NEW w \in Workers, Recovers(w) PROVE Safe BY <2>3, RecoversSafe
  <2>4. ASSUME NEW c \in Clients, Restores(c) \/ Launches(c) \/ LoaderWorks(c) PROVE Safe
    BY <2>4, RestoresSafe, LaunchesSafe, LoaderWorksSafe
  <2> QED BY <1>1, <2>1, <2>2, <2>3, <2>4 DEF Goroutines
<1>2. ASSUME UNCHANGED vars PROVE Safe
  <2>1. UNCHANGED <<farm, root, ticket, intent, world, life, deferred, mounted, rootPending, job, flag>>
    BY <1>2, Zenon DEF vars
  <2> QED BY <2>1, UnchangedSafe
<1>3. Safe
  BY <1>1, <1>2, LockedSafe, DaemonSafe, WorldSafe, RequestsSafe, LandingsSafe DEF Next
<1>4. IInv' BY NextTyped DEF SInv
<1> QED BY <1>3, <1>4 DEF SInv, Safe

LEMMA InitSafe ==
  ASSUME Init
  PROVE  SInv
<1>1. Typed BY DEF Init, Typed, Ages
<1>2. Truths BY DEF Init, Truths
<1>3. FInv BY InitHolds
<1>4. \A w \in Workers : job[w].kind = "none" /\ ~Alone(w) BY NoJobFits DEF Init, Alone
<1>5. LInv
  BY <1>4, SessionAssumption
     DEF Init, LInv, Recorded, Watched, Emptied, Recovering, Held, RootFits, LoaderClear,
         Ticketed, At, Cleared, Working, NoneMounted, Workers
<1> QED BY <1>1, <1>2, <1>3, <1>5 DEF SInv, IInv

\* A game that is handed to Steam has its durable ticket, whichever daemon
\* handed it over (writeLaunchTicketForGame).
THEOREM StartsAreRecorded == Spec => []LaunchIsRecorded
<1>1. SInv => LaunchIsRecorded BY DEF SInv, LInv, Recorded, LaunchIsRecorded
<1> QED BY InitSafe, NextSafe, <1>1, PTL DEF Spec

\* No game starts or runs while its mods are recovered, restored or its loader
\* is changed (recoveryIdle and the reservations).
THEOREM RecoveryIsAlone == Spec => []NoReaderUnderRecovery
<1>1. SInv => NoReaderUnderRecovery
  BY DEF SInv, LInv, Emptied, Cleared, NobodyReads, NoReaderUnderRecovery
<1> QED BY InitSafe, NextSafe, <1>1, PTL DEF Spec

\* The loader changes the game's files, or leaves them half-changed, only while
\* no mod is deployed (reserveExclusiveLocked, refuseLoaderIntentLocked).
THEOREM LoaderIsAlone == Spec => []LoaderAlone
<1>1. SInv => LoaderAlone BY DEF SInv, LInv, LoaderClear, LoaderAlone
<1> QED BY InitSafe, NextSafe, <1>1, PTL DEF Spec

\* No step takes its mods from a game that starts or runs.
THEOREM GamesKeepMods == Spec => ReadersKeepMods
<1>1. SInv /\ [Next]_vars => [KeepsMods]_vars BY NextSafe
<1> QED BY InitSafe, NextSafe, <1>1, PTL DEF Spec, ReadersKeepMods

-----------------------------------------------------------------------------
(* What the session says is mounted is what is deployed, for an install     *)
(* that no other game shares (of games that do, session_sibling shows how   *)
(* a restore leaves a sibling mounted).                                     *)

OneGame == \A g, h \in Games : g = h

\* A farm or a mount that changes goes with the other.
Together == UNCHANGED <<farm, mounted>> \/ NoneMounted' \/ MountedIsReal'

LEMMA OwnedTogether ==
  ASSUME IInv, OneGame, NEW owner, NEW g \in Games, NEW p \in Profiles, NEW ok \in BOOLEAN,
         MountVFSOwned(owner, g, p, ok)
  PROVE  Together
<1> USE DEF Together, NoneMounted
<1>0. mounted \in [Games -> Profiles \cup {None}] BY DEF IInv, Typed
<1>1. CASE mounted[g] = None /\ Mounts(g, p, ok)
  <2>1. \/ mounted' = mounted
        \/ mounted' = [mounted EXCEPT ![g] = p] /\ farm' = Deployment(g, p)
    BY <1>1, Zenon DEF Mounts
  <2> QED BY <1>0, <1>1, <2>1 DEF OneGame, MountedIsReal, Deployment
<1>2. CASE Retargets(g, p, ok)
  <2>1. \/ UNCHANGED <<farm, mounted>>
        \/ mounted' = [mounted EXCEPT ![g] = p] /\ farm' = Deployment(g, p)
    BY <1>2, Zenon DEF Retargets
  <2> QED BY <1>0, <2>1 DEF OneGame, MountedIsReal, Deployment
<1>3. CASE UNCHANGED <<farm, mounts>> BY <1>3
<1> QED BY <1>1, <1>2, <1>3, Zenon DEF MountVFSOwned

LEMMA TearsDownTogether ==
  ASSUME IInv, OneGame, NEW g \in Games, NEW ok \in BOOLEAN,
         TearsDown(g, ok) \/ TearsDownLeftovers(ok)
  PROVE  Together
<1>0. mounted \in [Games -> Profiles \cup {None}] BY DEF IInv, Typed
<1>1. CASE TearsDown(g, ok)
  <2>1. UNCHANGED <<farm, mounted>> \/ mounted' = [mounted EXCEPT ![g] = None]
    BY <1>1 DEF TearsDown, Unmounts
  <2> QED BY <1>0, <2>1 DEF OneGame, Together, NoneMounted
<1>2. CASE TearsDownLeftovers(ok)
  BY <1>2 DEF TearsDownLeftovers, Together, NoneMounted
<1> QED BY <1>1, <1>2

\* Recovery removes a farm only while nothing is mounted.
LEMMA RecoverDataTogether ==
  ASSUME SInv, NEW w \in Workers, RecoverData(w)
  PROVE  Together
<1>1. NoneMounted /\ mounted' = mounted
  BY DEF RecoverData, At, Recoveries, SInv, LInv, Recovering, Alone
<1> QED BY <1>1 DEF Together, NoneMounted

LEMMA NextTogether ==
  ASSUME SInv, OneGame, [Next]_vars
  PROVE  Together
<1> USE DEF Together
<1>0. IInv BY DEF SInv
<1>1. ASSUME Goroutines PROVE Together
  <2>1. CASE Boots BY <2>1 DEF Boots, BootFence, BootIdle, BootEnd
  <2>2. CASE RetryBegin(Ticker) BY <2>2 DEF RetryBegin
  <2>3. ASSUME NEW w \in Workers, Recovers(w) PROVE Together
    <3>1. UNCHANGED <<farm, mounted>> \/ RecoverData(w)
      BY <2>3 DEF Recovers, RetryIdle, RecoverLoader, RecoverRoot, RecoverHeldLoader,
                  RecoverOrphans, RetryEnd, Release, ReplayBegin, ReplayTake
    <3> QED BY <3>1, RecoverDataTogether
  <2>4. ASSUME NEW c \in Clients, Restores(c) PROVE Together
    <3>1. CASE RestoreData(c)
      <4>1. job[c].game \in Games /\ mounted \in [Games -> Profiles \cup {None}]
        BY <1>0, <3>1, JobGame DEF RestoreData, At, Workers, IInv, Typed
      <4>2. UNCHANGED <<farm, mounted>> \/ mounted' = [mounted EXCEPT ![job[c].game] = None]
        BY <3>1, Zenon DEF RestoreData, Unmounts
      <4> QED BY <4>1, <4>2 DEF OneGame, NoneMounted
    <3>2. CASE RestoreIdle(c) \/ RestoreLoader(c) \/ RestoreRoot(c) \/ RestoreTicket(c)
      BY <3>2 DEF RestoreIdle, RestoreLoader, RestoreRoot, RestoreTicket
    <3> QED BY <2>4, <3>1, <3>2 DEF Restores
  <2>5. ASSUME NEW c \in Clients, Launches(c) PROVE Together
    <3>1. CASE LaunchMount(c)
      <4>1. job[c].game \in Games /\ job[c].profile \in Profiles \cup {None}
        BY <1>0, <3>1, JobGame DEF LaunchMount, At, Workers
      <4>2. \/ UNCHANGED <<farm, mounted>>
            \/ /\ job[c].profile # None
               /\ \E ok \in BOOLEAN : MountVFSOwned({c}, job[c].game, job[c].profile, ok)
        BY <3>1 DEF LaunchMount
      <4> QED BY <1>0, <4>1, <4>2, OwnedTogether
    <3>2. CASE LaunchApply(c)
      BY <3>2 DEF LaunchApply, RebuildVFSOwned, Rebuilds
    <3>3. CASE \/ LaunchFails(c) \/ LaunchPreflight(c) \/ LaunchDeploy(c)
               \/ LaunchTicket(c) \/ LaunchHandOver(c) \/ LaunchRecord(c)
      BY <3>3 DEF LaunchFails, Refused, LaunchPreflight, LaunchDeploy, LaunchTicket,
                  LaunchHandOver, LaunchRecord
    <3> QED BY <2>5, <3>1, <3>2, <3>3 DEF Launches
  <2>6. ASSUME NEW c \in Clients, LoaderWorks(c) PROVE Together
    BY <2>6 DEF LoaderWorks, LoaderPrepare, LoaderFails, LoaderRun, LoaderEnd
  <2> QED BY <1>1, <2>1, <2>2, <2>3, <2>4, <2>5, <2>6 DEF Goroutines
<1>2. ASSUME NEW c \in Clients, Requests(c) PROVE Together
  BY <1>2 DEF Requests, RetryBegin, LoaderAdmit, RestoreBegin, LaunchAdmit
<1>3. ASSUME Daemon PROVE Together
  <2>1. CASE Start \/ BeginShutdown BY <2>1 DEF Start, BeginShutdown
  <2>2. CASE Down BY <2>2 DEF Down, NoneMounted
  <2>3. ASSUME NEW g \in Games, ShutdownFarm(g) PROVE Together
    BY <1>0, <2>3, TearsDownTogether DEF ShutdownFarm
  <2> QED BY <1>3, <2>1, <2>2, <2>3 DEF Daemon
<1>4. ASSUME World PROVE Together
  BY <1>4 DEF World, Grace, AgeTicket, AgeFlag, Settles, Appear, NeverStarts, Exit, TrackedExit,
              StartOutside, world_only
<1>5. ASSUME NEW g \in Games, Land(g) \/ Handles(g) PROVE Together
  BY <1>5 DEF Land, Handles, LandChecked, LandAdmitted, LandFenced, landing
<1>6. ASSUME Locked PROVE Together
  <2>1. ASSUME NEW g \in Games, NEW p \in Profiles, MountVFS(g, p) PROVE Together
    <3>1. ~MountVFSWithSwap(g, p) BY DEF MountVFSWithSwap, Conflicts, OneGame
    <3> QED BY <1>0, <2>1, <3>1, OwnedTogether DEF MountVFS
  <2>2. ASSUME NEW g \in Games, UnmountVFS(g) PROVE Together
    BY <1>0, <2>2, TearsDownTogether DEF UnmountVFS
  <2>3. ASSUME NEW g \in Games, RebuildVFS(g) \/ ModChange(g) \/ Edit(g) PROVE Together
    BY <2>3 DEF RebuildVFS, RebuildVFSOwned, ModChange, Rebuilds, Edit
  <2>4. CASE FlagsSwept BY <2>4 DEF FlagsSwept
  <2> QED BY <1>6, <2>1, <2>2, <2>3, <2>4 DEF Locked
<1>7. CASE UNCHANGED vars BY <1>7 DEF vars
<1> QED BY <1>1, <1>2, <1>3, <1>4, <1>5, <1>6, <1>7 DEF Next

\* What the session says is mounted is what is deployed at Data, of an install
\* with one game (MountManager.Activate, clearMountedLocked).
THEOREM MountsAreReal == OneGame => (Spec => []MountedIsReal)
<1> SUFFICES ASSUME OneGame PROVE Spec => []MountedIsReal
  OBVIOUS
<1> DEFINE RInv == SInv /\ MountedIsReal
<1>1. Init => RInv BY InitSafe DEF Init, MountedIsReal
<1>2. RInv /\ [Next]_vars => RInv'
  BY NextSafe, NextTogether DEF Together, NoneMounted, MountedIsReal, Deployment
<1>3. RInv => MountedIsReal OBVIOUS
<1> HIDE DEF RInv
<1> QED BY <1>1, <1>2, <1>3, PTL DEF Spec
=============================================================================
