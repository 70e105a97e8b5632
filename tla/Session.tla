------------------------------ MODULE Session -------------------------------
(***************************************************************************)
(* Who may touch an install, and when: the session of internal/daemon for  *)
(* one physical install.  Requests of clients, startup recovery, its       *)
(* retries and the handlers of landed downloads run as goroutines; the     *)
(* session keeps them, and the game that may be running, apart with        *)
(*                                                                         *)
(*   - reservations of the install, shared or exclusive (fence.go),        *)
(*   - the process table, and a launch ticket and flags that stand in for  *)
(*     it while Steam is still starting the game (session_ticket.go),      *)
(*   - recoveries that are deferred or wait for the user (recovery.go).    *)
(*                                                                         *)
(* A critical section of session.mu is one step, and so is a check made    *)
(* without it; a request that spans several of them is a job.  What the    *)
(* farm operations do to the disk is abstracted to the profile deployed;   *)
(* module Farm has their steps.                                            *)
(*                                                                         *)
(* Games are the games that share the install (one, or a game and the      *)
(* games linked to it): they have one Data folder, one game-root manager,  *)
(* one fence key, and at most one of them may be mounted.                  *)
(***************************************************************************)
EXTENDS Naturals

CONSTANTS
  Games,        \* the games configured on the install
  Profiles,
  Clients,      \* concurrent requests
  Boot,         \* the goroutine of startup recovery
  Ticker,       \* the goroutine that retries deferred recoveries
  None,
  HasLoader,    \* the games have a managed mod loader
  Arriving,     \* the games for which a download lands
  MaxFaults     \* bound on operations that fail

Workers == Clients \cup {Boot, Ticker}

ASSUME SessionAssumption ==
  /\ Games \cap Workers = {}
  /\ Boot \notin Clients /\ Ticker \notin Clients /\ Boot # Ticker
  /\ None \notin Games \cup Profiles \cup Workers
  /\ HasLoader \in BOOLEAN
  /\ Arriving \subseteq Games
  /\ MaxFaults \in Nat

VARIABLES
  farm, root,    \* what is deployed at Data, and among the game's root files
  ticket,        \* the launch ticket beside Data
  intent,        \* the mod loader's intent file
  starting,      \* games handed over to Steam, with no process yet
  running,       \* games in the process table
  up, stopping,  \* the daemon
  mounted,       \* the profile each game's MountManager says is mounted
  dirty,         \* mounted games with mod changes that are not applied
  shared, exclusive,  \* who holds a reservation of the install
  flag,          \* Steam launches, by age
  tracked,       \* games with a process the daemon waits for
  deferred,      \* startup recovery waits until the game is gone
  dataPending, rootPending, loaderPending,  \* recoveries waiting for the user
  replayPending, replayRunning,
  land,          \* the handler of a landed download, by game
  job,           \* what each worker is doing
  faults

disk == <<farm, root, ticket, intent>>
mounts == <<mounted, dirty>>
world == <<starting, running>>
life == <<up, stopping>>
fence == <<shared, exclusive>>
launches == <<flag, tracked>>
pending == <<dataPending, rootPending, loaderPending>>
replays == <<replayPending, replayRunning, land>>
vars == <<disk, mounts, world, life, fence, launches, deferred, pending,
          replays, job, faults>>

Deployment(g, p) == [game |-> g, profile |-> p]
Deployments == [game : Games, profile : Profiles]
Ages == {"none", "fresh", "old"}

Stages == {"none",
           "start", "fenced", "loader", "root", "data", "again", "orphans",
           "recovered", "checked", "ticket", "release", "replay", "take",
           "admitted", "mount", "apply", "deploy", "record", "ticketed", "handed",
           "prepared", "changing"}
Kinds == {"none", "boot", "retry", "restore", "launch", "loader"}

Jobs == [kind : Kinds, at : Stages, game : Games \cup {None},
         profile : Profiles \cup {None}, tool : BOOLEAN,
         ok : BOOLEAN,     \* every recovery of this run succeeded so far
         held : BOOLEAN]   \* another process holds the loader's transaction
NoJob == [kind |-> "none", at |-> "none", game |-> None, profile |-> None,
          tool |-> FALSE, ok |-> TRUE, held |-> FALSE]

Landings == {"none", "landed", "held", "admitting", "fenced", "done",
             "skipped", "lost"}

TypeOK ==
  /\ farm \in Deployments \cup {None} /\ root \in Deployments \cup {None}
  /\ ticket \in Ages /\ intent \in BOOLEAN
  /\ starting \subseteq Games /\ running \subseteq Games
  /\ up \in {"down", "starting", "ready"} /\ stopping \in BOOLEAN
  /\ mounted \in [Games -> Profiles \cup {None}] /\ dirty \subseteq Games
  /\ shared \subseteq Clients \cup Games
  /\ exclusive \in Workers \cup {None}
  /\ flag \in [Games -> Ages] /\ tracked \subseteq Games
  /\ deferred \in BOOLEAN
  /\ dataPending \in BOOLEAN /\ rootPending \subseteq Games
  /\ loaderPending \in BOOLEAN
  /\ replayPending \in BOOLEAN /\ replayRunning \in BOOLEAN
  /\ land \in [Games -> Landings]
  /\ job \in [Workers -> Jobs]
  /\ faults \in Nat

Init ==
  /\ farm = None /\ root = None /\ ticket = "none" /\ intent = FALSE
  /\ starting = {} /\ running = {}
  /\ up = "down" /\ stopping = FALSE
  /\ mounted = [g \in Games |-> None] /\ dirty = {}
  /\ shared = {} /\ exclusive = None
  /\ flag = [g \in Games |-> "none"] /\ tracked = {}
  /\ deferred = FALSE /\ dataPending = FALSE /\ rootPending = {}
  /\ loaderPending = FALSE
  /\ replayPending = FALSE /\ replayRunning = FALSE
  /\ land = [g \in Games |-> "none"]
  /\ job = [w \in Workers |-> NoJob]
  /\ faults = 0

Fault == faults < MaxFaults /\ faults' = faults + 1

-----------------------------------------------------------------------------
(* What the session looks at before it lets a request touch the install.   *)

Ready == up = "ready"
Seen == running # {}
FreshLaunch == \E g \in Games : flag[g] = "fresh"

HolderBusy == Seen \/ FreshLaunch

\* Mutant: a launch that has no process yet does not count.
UnmountRunningSeen == Seen
UnmountRunning == Seen \/ FreshLaunch
ApplyBusy(g) == g \in tracked \/ HolderBusy

\* Mutant: only the game whose farm it is counts, not one that shares it.
TeardownBusyOwn(g) == g \in tracked \/ flag[g] # "none"
TeardownBusy(g) == g \in tracked \/ Seen \/ \E h \in Games : flag[h] # "none"

\* Mutants: the launch ticket does not count; a ticket never expires.
RecoveryIdleSeen == ~Seen
RecoveryIdleNoTicket == ~Seen /\ ticket = "none"
RecoveryIdle == ~Seen /\ ticket # "fresh"

\* Once nothing runs, a check of the holder forgets launches past their grace.
FlagsForgotten == flag' = [g \in Games |-> "none"]

PendingFor(g) == loaderPending \/ g \in rootPending \/ dataPending
AnyPending == \E g \in Games : PendingFor(g)
Conflicts(g) == {h \in Games \ {g} : mounted[h] # None}
LaunchHolders == {c \in shared : c \in Clients /\ job[c].kind = "launch"}


CanShare == ~stopping /\ ~deferred /\ exclusive = None

\* Mutant: recovery does not look at the shared reservations.
CanRecoverShared == ~stopping /\ exclusive = None
CanRecover == ~stopping /\ exclusive = None /\ shared = {}

-----------------------------------------------------------------------------
(* Jobs.                                                                    *)

Idle(w) == job[w].kind = "none"
At(w, kinds, s) == job[w].kind \in kinds /\ job[w].at = s
Step(w, s) == job' = [job EXCEPT ![w].at = s]
Begin(w, k, s, g) == job' = [job EXCEPT ![w] = [NoJob EXCEPT !.kind = k, !.at = s, !.game = g]]
JobEnds(w) == job' = [job EXCEPT ![w] = NoJob]

\* A worker that fails or is refused releases what it holds.
ExclusiveEnds(w) == exclusive' = None /\ JobEnds(w) /\ UNCHANGED shared
SharedEnds(w) == shared' = shared \ {w} /\ JobEnds(w) /\ UNCHANGED exclusive

-----------------------------------------------------------------------------
(* What an operation on the farm does to the install, and to what the       *)
(* session knows of it.  ok says whether the operation reports success.     *)

elsewhere == <<intent, world, life, tracked, deferred, loaderPending, replays>>

\* An operation on a farm that is not there fails, and any may.
FarmFails == \/ farm = None /\ UNCHANGED faults
             \/ farm # None /\ Fault

\* Mutant: the manager is not told that its farm is gone.
StaysMounted(g) == dirty' = dirty \ {g} /\ UNCHANGED mounted

\* clearMountedLocked
Unmounts(g) == mounted' = [mounted EXCEPT ![g] = None] /\ dirty' = dirty \ {g}

\* MountManager.Activate between rootManager.Apply and .Deactivate.
Mounts(g, p, ok) ==
  /\ UNCHANGED <<ticket, dirty, flag, dataPending, rootPending>>
  /\ \/ /\ ok /\ farm = None
        /\ farm' = Deployment(g, p) /\ root' = Deployment(g, p)
        /\ mounted' = [mounted EXCEPT ![g] = p]
        /\ UNCHANGED faults
     \/ /\ ~ok /\ farm # None      \* leftovers: Activate refuses
        /\ root' = None
        /\ UNCHANGED <<farm, mounted, faults>>
     \/ /\ ~ok /\ farm = None /\ Fault
        /\ root' \in {root, None, Deployment(g, p)}
        /\ farm' \in {None, Deployment(g, p)}
        /\ UNCHANGED mounted

Retargets(g, p, ok) ==
  /\ UNCHANGED <<ticket, flag>>
  /\ \/ /\ ok /\ farm # None
        /\ farm' = Deployment(g, p) /\ root' = Deployment(g, p)
        /\ mounted' = [mounted EXCEPT ![g] = p] /\ dirty' = dirty \ {g}
        /\ UNCHANGED <<dataPending, rootPending, faults>>
     \/ /\ ~ok /\ FarmFails        \* the old farm stays, cleanup may be due
        /\ \/ UNCHANGED <<root, rootPending>>
           \/ root' = Deployment(g, p) /\ rootPending' = rootPending \cup {g}
        /\ dataPending' \in {dataPending, TRUE}
        /\ UNCHANGED <<farm, mounted, dirty>>
     \/ /\ ~ok /\ farm # None /\ Fault        \* RetargetCommittedError
        /\ farm' = Deployment(g, p) /\ root' = Deployment(g, p)
        /\ mounted' = [mounted EXCEPT ![g] = p] /\ dirty' = dirty \ {g}
        /\ dataPending' = TRUE
        /\ UNCHANGED rootPending

Rebuilds(g, ok) ==
  /\ UNCHANGED <<farm, ticket, mounted, dataPending, rootPending>>
  /\ FlagsForgotten
  /\ \/ /\ ok /\ farm # None
        /\ root' = Deployment(g, mounted[g]) /\ dirty' = dirty \ {g}
        /\ UNCHANGED faults
     \/ /\ ~ok /\ FarmFails
        /\ root' \in {root, Deployment(g, mounted[g])}
        /\ dirty' \in {dirty, dirty \cup {g}}

\* rootManager.Deactivate, then MountManager.Deactivate, then what a failure
\* of either puts back.
TearsDown(g, ok) ==
  \/ /\ ok /\ farm # None
     /\ farm' = None /\ root' = None /\ ticket' = "none"
     /\ Unmounts(g)
     /\ UNCHANGED faults
  \/ /\ ~ok /\ FarmFails
     /\ root' \in {root, None, Deployment(g, mounted[g])}
     /\ UNCHANGED <<farm, ticket, mounted, dirty>>
  \/ /\ ~ok /\ farm # None /\ Fault        \* only the cleanup is unfinished
     /\ root' \in {None, Deployment(g, mounted[g])}
     /\ Unmounts(g)
     /\ UNCHANGED <<farm, ticket>>

\* The teardown of a game that is not mounted finishes one that was left
\* unfinished, or fails after the shared game-root deployment is gone.
TearsDownLeftovers(ok) ==
  /\ UNCHANGED <<mounted, dirty>>
  /\ \/ /\ ok /\ farm # None /\ \A g \in Games : mounted[g] = None
        /\ farm' = None /\ root' = None /\ ticket' = "none"
        /\ UNCHANGED faults
     \/ /\ ~ok /\ farm # None /\ \A g \in Games : mounted[g] = None
        /\ Fault /\ root' \in {root, None} /\ UNCHANGED <<farm, ticket>>
     \/ /\ ~ok /\ (farm = None \/ \E g \in Games : mounted[g] # None)
        /\ root' = None /\ UNCHANGED <<farm, ticket, faults>>

-----------------------------------------------------------------------------
(* Requests that hold session.mu from their checks to their end.            *)

\* Mutant: an unresolved loader transaction does not keep mods off.
MayMountInterrupted(g) == ~deferred /\ ~PendingFor(g) /\ CanShare

MayMount(g) == ~deferred /\ ~PendingFor(g) /\ ~intent /\ CanShare

\* mountVFSOwned with retarget; owner is the launch that asks for it.
MountVFSOwned(owner, g, p, ok) ==
  /\ Ready /\ MayMount(g) /\ Conflicts(g) = {}
  /\ UNCHANGED elsewhere
  /\ \/ /\ mounted[g] = None
        /\ LaunchHolders \subseteq owner
        /\ tracked = {} /\ ~UnmountRunning /\ RecoveryIdle
        /\ Mounts(g, p, ok)
     \/ /\ mounted[g] \notin {None, p}
        /\ LaunchHolders \subseteq owner
        /\ tracked = {} /\ ~UnmountRunning
        /\ Retargets(g, p, ok)
     \/ /\ mounted[g] = p /\ ok
        /\ UNCHANGED <<farm, root, ticket, mounts, flag, dataPending, rootPending, faults>>

\* The conflicting farm h is removed, then g's is deployed.
Swaps(g, p, h) ==
  \/ TearsDown(h, FALSE) /\ UNCHANGED flag
  \/ /\ farm # None /\ flag' = [flag EXCEPT ![h] = "none"] /\ dirty' = dirty \ {h}
     /\ \/ /\ \/ tracked # {} /\ ticket' = "none" /\ UNCHANGED faults
              \/ Fault /\ ticket' \in {ticket, "none"}
           /\ farm' = None /\ root' \in {None, Deployment(g, p)}
           /\ mounted' = [mounted EXCEPT ![h] = None]
        \/ /\ tracked = {} /\ ticket' = "none"
           /\ farm' = Deployment(g, p) /\ root' = Deployment(g, p)
           /\ mounted' = [mounted EXCEPT ![h] = None, ![g] = p]
           /\ UNCHANGED faults

\* Mutant: a launch that is being admitted does not stop a swap.
MountVFSWithSwapAnyway(g, p) ==
  /\ Ready /\ MayMount(g)
  /\ \E h \in Conflicts(g) : ~TeardownBusy(h) /\ Swaps(g, p, h)
  /\ UNCHANGED <<elsewhere, dataPending, rootPending>>

\* autoSwap: the sibling that is mounted makes room.
MountVFSWithSwap(g, p) ==
  /\ Ready /\ MayMount(g) /\ LaunchHolders = {}
  /\ \E h \in Conflicts(g) : ~TeardownBusy(h) /\ Swaps(g, p, h)
  /\ UNCHANGED <<elsewhere, dataPending, rootPending>>

\* MountVFSWithOptions: by itself, or with autoSwap in a sibling's place.
MountVFS(g, p) ==
  /\ mounted[g] # p
  /\ MountVFSWithSwap(g, p) \/ \E ok \in BOOLEAN : MountVFSOwned({}, g, p, ok)
  /\ UNCHANGED <<fence, job>>

RebuildVFSOwned(owner, g, ok) ==
  /\ Ready /\ CanShare /\ mounted[g] # None
  /\ LaunchHolders \subseteq owner
  /\ ~ApplyBusy(g)
  /\ Rebuilds(g, ok)
  /\ UNCHANGED elsewhere

RebuildVFS(g) ==
  /\ \E ok \in BOOLEAN : RebuildVFSOwned({}, g, ok)
  /\ UNCHANGED <<fence, job>>

\* An installed, changed or removed mod is put into the mounted farm at once.
ModChange(g) ==
  /\ Ready /\ CanShare /\ mounted[g] # None
  /\ ~PendingFor(g) /\ ~intent
  /\ LaunchHolders = {} /\ ~ApplyBusy(g) /\ ~UnmountRunning
  /\ \E ok \in BOOLEAN : Rebuilds(g, ok)
  /\ UNCHANGED <<elsewhere, fence, job>>

UnmountVFS(g) ==
  /\ Ready /\ CanShare /\ LaunchHolders = {}
  /\ g \notin tracked /\ ~UnmountRunning
  /\ \E ok \in BOOLEAN :
       /\ \/ mounted[g] # None /\ TearsDown(g, ok)
          \/ mounted[g] = None /\ TearsDownLeftovers(ok)
       /\ flag' = IF ok THEN [flag EXCEPT ![g] = "none"] ELSE flag
  /\ UNCHANGED <<elsewhere, dataPending, rootPending, fence, job>>

\* A profile is edited while its farm is mounted.
Edit(g) ==
  /\ Ready /\ mounted[g] # None /\ dirty' = dirty \cup {g} /\ dirty' # dirty
  /\ UNCHANGED <<disk, mounted, world, life, fence, launches, deferred, pending,
                 replays, job, faults>>

\* Any check of the holder that finds nothing running, of whatever request.
FlagsSwept ==
  /\ Ready /\ ~HolderBusy /\ FlagsForgotten /\ flag' # flag
  /\ UNCHANGED <<disk, mounts, world, life, fence, tracked, deferred, pending,
                 replays, job, faults>>

-----------------------------------------------------------------------------
(* Startup recovery, and its later attempts.                                *)

memory == <<mounts, launches, pending>>

Start ==
  /\ up = "down" /\ up' = "starting"
  /\ deferred' = ~RecoveryIdle
  /\ Begin(Boot, "boot", "start", None)
  /\ UNCHANGED <<disk, memory, world, stopping, fence, replays, faults>>

BootFence ==
  /\ At(Boot, {"boot"}, "start")
  /\ \/ /\ deferred \/ ~CanRecover
        /\ deferred' = TRUE /\ up' = "ready" /\ JobEnds(Boot)
        /\ UNCHANGED exclusive
     \/ /\ ~deferred /\ CanRecover
        /\ exclusive' = Boot /\ Step(Boot, "fenced")
        /\ UNCHANGED <<deferred, up>>
  /\ UNCHANGED <<disk, memory, world, stopping, shared, replays, faults>>

BootIdle ==
  /\ At(Boot, {"boot"}, "fenced")
  /\ \/ RecoveryIdle /\ Step(Boot, "loader") /\ UNCHANGED deferred
     \/ ~RecoveryIdle /\ Step(Boot, "recovered") /\ deferred' = TRUE
  /\ UNCHANGED <<disk, memory, world, life, fence, replays, faults>>

\* What recoverUnits reports is not looked at.
BootEnd ==
  /\ At(Boot, {"boot"}, "recovered")
  /\ up' = "ready" /\ ExclusiveEnds(Boot)
  /\ UNCHANGED <<disk, memory, world, stopping, deferred, replays, faults>>

RetryBegin(w) ==
  /\ Ready /\ Idle(w) /\ deferred /\ CanRecover
  /\ exclusive' = w /\ Begin(w, "retry", "fenced", None)
  /\ UNCHANGED <<disk, memory, world, life, shared, deferred, replays, faults>>

RetryIdle(w) ==
  /\ At(w, {"retry"}, "fenced")
  /\ \/ RecoveryIdle /\ ~stopping /\ Step(w, "loader") /\ UNCHANGED fence
     \/ ~RecoveryIdle /\ ExclusiveEnds(w)
     \/ stopping /\ ExclusiveEnds(w)
  /\ UNCHANGED <<disk, memory, world, life, deferred, replays, faults>>

Recoveries == {"boot", "retry"}

\* recoverLoaderGames
RecoverLoader(w) ==
  /\ At(w, Recoveries, "loader")
  /\ \/ intent' = FALSE /\ Step(w, "root") /\ UNCHANGED <<loaderPending, faults>>
     \/ /\ intent /\ Fault /\ loaderPending' = TRUE /\ Step(w, "root")
        /\ UNCHANGED intent
     \/ /\ intent /\ Fault        \* ErrTransactionActive
        /\ job' = [job EXCEPT ![w].at = "root", ![w].held = TRUE]
        /\ UNCHANGED <<intent, loaderPending>>
  /\ UNCHANGED <<farm, root, ticket, mounts, world, life, fence, launches,
                 deferred, dataPending, rootPending, replays>>

\* recoverRootDeployments
RecoverRoot(w) ==
  /\ At(w, Recoveries, "root")
  /\ \/ Step(w, "data") /\ UNCHANGED <<rootPending, faults>>
     \/ /\ Fault /\ job' = [job EXCEPT ![w].at = "data", ![w].ok = FALSE]
        /\ UNCHANGED rootPending
     \/ root # None /\ Fault /\ rootPending' = Games /\ Step(w, "data")
  /\ UNCHANGED <<disk, mounts, world, life, fence, launches, deferred,
                 dataPending, loaderPending, replays>>

\* recoverDataFarms
RecoverData(w) ==
  /\ At(w, Recoveries, "data")
  /\ \/ /\ farm = None /\ Step(w, "again")
        /\ UNCHANGED <<farm, ticket, dataPending, faults>>
     \/ /\ farm # None /\ Step(w, "again")
        /\ farm' = None /\ ticket' = "none"
        /\ UNCHANGED <<dataPending, faults>>
     \/ /\ Fault /\ job' = [job EXCEPT ![w].at = "again", ![w].ok = FALSE]
        /\ UNCHANGED <<farm, ticket, dataPending>>
     \/ /\ farm # None /\ Fault /\ dataPending' = TRUE /\ Step(w, "again")
        /\ UNCHANGED <<farm, ticket>>
  /\ UNCHANGED <<root, intent, mounts, world, life, fence, launches, deferred,
                 rootPending, loaderPending, replays>>

\* retryDeferredLoaderRecovery
RecoverHeldLoader(w) ==
  /\ At(w, Recoveries, "again")
  /\ \/ /\ ~job[w].held /\ Step(w, "orphans")
        /\ UNCHANGED <<intent, loaderPending, faults>>
     \/ /\ job[w].held /\ intent' = FALSE
        /\ job' = [job EXCEPT ![w].at = "orphans", ![w].held = FALSE]
        /\ UNCHANGED <<loaderPending, faults>>
     \/ /\ job[w].held /\ Fault /\ loaderPending' = TRUE
        /\ job' = [job EXCEPT ![w].at = "orphans", ![w].held = FALSE]
        /\ UNCHANGED intent
     \/ /\ job[w].held /\ Fault /\ Step(w, "orphans")
        /\ UNCHANGED <<intent, loaderPending>>
  /\ UNCHANGED <<farm, root, ticket, mounts, world, life, fence, launches,
                 deferred, dataPending, rootPending, replays>>

RootInUse == AnyPending \/ \E g \in Games : mounted[g] # None

\* deactivateOrphanedRootDeployments
RecoverOrphans(w) ==
  /\ At(w, Recoveries, "orphans")
  /\ \/ /\ RootInUse \/ job[w].held
        /\ Step(w, "recovered") /\ UNCHANGED <<root, faults>>
     \/ /\ ~RootInUse /\ ~job[w].held
        /\ root' = None /\ Step(w, "recovered") /\ UNCHANGED faults
     \/ /\ ~RootInUse /\ ~job[w].held /\ Fault
        /\ job' = [job EXCEPT ![w].at = "recovered", ![w].ok = FALSE]
        /\ UNCHANGED root
  /\ UNCHANGED <<farm, ticket, intent, mounts, world, life, fence, launches,
                 deferred, pending, replays>>

RetryEnd(w) ==
  /\ At(w, {"retry"}, "recovered")
  /\ \/ /\ job[w].ok /\ ~job[w].held /\ ~stopping
        /\ deferred' = FALSE /\ replayPending' = TRUE
        /\ Step(w, "release") /\ UNCHANGED fence
     \/ /\ ~job[w].ok \/ job[w].held \/ stopping
        /\ ExclusiveEnds(w) /\ UNCHANGED <<deferred, replayPending>>
  /\ UNCHANGED <<disk, memory, world, life, replayRunning, land, faults>>

\* Mutant: only a retry replays the downloads that were held back.
ReleaseQuietly(w) ==
  /\ At(w, {"retry", "restore"}, "release") /\ exclusive' = None
  /\ job' = IF job[w].kind = "retry" THEN [job EXCEPT ![w].at = "replay"]
             ELSE [job EXCEPT ![w] = NoJob]
  /\ UNCHANGED <<disk, memory, world, life, shared, deferred, replays, faults>>

Release(w) ==
  /\ At(w, {"retry", "restore"}, "release")
  /\ exclusive' = None /\ Step(w, "replay")
  /\ UNCHANGED <<disk, memory, world, life, shared, deferred, replays, faults>>

\* replayDeferredLandings
MayReplay == ~stopping /\ ~AnyPending /\ replayPending /\ ~replayRunning

ReplayBegin(w) ==
  /\ At(w, {"retry", "restore"}, "replay")
  /\ \/ MayReplay /\ replayRunning' = TRUE /\ Step(w, "take")
     \/ ~MayReplay /\ JobEnds(w) /\ UNCHANGED replayRunning
  /\ UNCHANGED <<disk, memory, world, life, fence, deferred, replayPending, land, faults>>

ReplayTake(w) ==
  /\ At(w, {"retry", "restore"}, "take")
  /\ replayPending' = FALSE /\ replayRunning' = FALSE /\ JobEnds(w)
  /\ land' = [g \in Games |->
                IF land[g] # "held" THEN land[g]
                ELSE IF stopping THEN "lost" ELSE "landed"]
  /\ UNCHANGED <<disk, memory, world, life, fence, deferred, faults>>

-----------------------------------------------------------------------------
(* RestoreFromBackup: the user confirms a pending recovery.                 *)

RestoreBegin(c, g) ==
  /\ Ready /\ Idle(c) /\ ~deferred /\ CanRecover
  /\ exclusive' = c /\ Begin(c, "restore", "fenced", g)
  /\ UNCHANGED <<disk, memory, world, life, shared, deferred, replays, faults>>

RestoreIdle(c) ==
  /\ At(c, {"restore"}, "fenced")
  /\ LET may == RecoveryIdle /\ PendingFor(job[c].game)
     IN \/ may /\ Step(c, "checked") /\ UNCHANGED fence
        \/ ~may /\ ExclusiveEnds(c)
  /\ UNCHANGED <<disk, memory, world, life, deferred, replays, faults>>

RestoreLoader(c) ==
  /\ At(c, {"restore"}, "checked") /\ loaderPending
  /\ \/ /\ intent' = FALSE /\ loaderPending' = FALSE
        /\ Step(c, "release") /\ UNCHANGED <<fence, faults>>
     \/ Fault /\ ExclusiveEnds(c) /\ UNCHANGED <<intent, loaderPending>>
  /\ UNCHANGED <<farm, root, ticket, mounts, world, life, launches, deferred,
                 dataPending, rootPending, replays>>

RestoreRoot(c) ==
  /\ At(c, {"restore"}, "checked")
  /\ ~loaderPending /\ job[c].game \in rootPending
  /\ \/ /\ root' = None /\ rootPending' = {}
        /\ Step(c, "release") /\ UNCHANGED <<fence, faults>>
     \/ Fault /\ ExclusiveEnds(c) /\ UNCHANGED <<root, rootPending>>
  /\ UNCHANGED <<farm, ticket, intent, mounts, world, life, launches, deferred,
                 dataPending, loaderPending, replays>>

\* Only the manager of the game that is confirmed forgets its mount.
RestoreData(c) ==
  LET g == job[c].game
      busy == tracked # {} \/ UnmountRunning
  IN
  /\ At(c, {"restore"}, "checked")
  /\ ~loaderPending /\ g \notin rootPending
  /\ \/ /\ busy /\ ExclusiveEnds(c)
        /\ UNCHANGED <<farm, root, mounts, flag, rootPending, faults>>
     \/ /\ ~busy /\ farm # None
        /\ farm' = None /\ root' = None
        /\ Unmounts(g)
        /\ flag' = [flag EXCEPT ![g] = "none"]
        /\ Step(c, "ticket")
        /\ UNCHANGED <<fence, rootPending, faults>>
     \/ /\ ~busy /\ FarmFails /\ ExclusiveEnds(c)
        /\ \/ root' \in {root, None} /\ UNCHANGED rootPending
           \/ /\ mounted[g] # None
              /\ \/ root' = Deployment(g, mounted[g]) /\ UNCHANGED rootPending
                 \/ root' = None /\ rootPending' = rootPending \cup {g}
        /\ UNCHANGED <<farm, mounts, flag>>
  /\ UNCHANGED <<ticket, intent, world, life, tracked, deferred, dataPending,
                 loaderPending, replays>>

RestoreTicket(c) ==
  /\ At(c, {"restore"}, "ticket")
  /\ ticket' = "none" /\ dataPending' = FALSE /\ Step(c, "release")
  /\ UNCHANGED <<farm, root, intent, mounts, world, life, fence, launches,
                 deferred, rootPending, loaderPending, replays, faults>>

-----------------------------------------------------------------------------
(* LaunchGame: the game is started through Steam, or by its script extender *)
(* (tool), from the profile given, or from what is mounted.                 *)

Refused(c) == SharedEnds(c) /\ UNCHANGED <<disk, mounts, flag, pending, faults>>
launching == <<world, life, tracked, deferred, replays>>

LaunchAdmit(c, g, p, tool) ==
  /\ Ready /\ Idle(c) /\ ~PendingFor(g) /\ Conflicts(g) = {} /\ CanShare
  /\ shared' = shared \cup {c}
  /\ job' = [job EXCEPT ![c] = [NoJob EXCEPT !.kind = "launch", !.at = "admitted",
                                             !.game = g, !.profile = p, !.tool = tool]]
  /\ UNCHANGED <<disk, memory, world, life, exclusive, deferred, replays, faults>>

\* A check in between refuses, or a step fails, before the game is handed over.
LaunchFails(c) ==
  /\ \E s \in {"admitted", "mount", "apply", "deploy", "record", "ticketed"} :
       At(c, {"launch"}, s)
  /\ Refused(c) /\ UNCHANGED launching

LaunchPreflight(c) ==
  /\ At(c, {"launch"}, "admitted") /\ (HasLoader => ~intent)
  /\ Step(c, "mount")
  /\ UNCHANGED <<disk, memory, world, life, fence, deferred, replays, faults>>

\* Mutant: a launch without a profile mounts, too.
LaunchMountUnnamed(c) ==
  /\ At(c, {"launch"}, "mount") /\ Step(c, "apply")
  /\ MountVFSOwned({c}, job[c].game, job[c].profile, TRUE) /\ UNCHANGED fence

LaunchMount(c) ==
  LET g == job[c].game
      p == job[c].profile
  IN
  /\ At(c, {"launch"}, "mount")
  /\ \/ /\ p = None /\ Step(c, "apply")
        /\ UNCHANGED <<disk, memory, world, life, fence, deferred, replays, faults>>
     \/ /\ p # None /\ MountVFSOwned({c}, g, p, TRUE)
        /\ Step(c, "apply") /\ UNCHANGED fence
     \/ p # None /\ MountVFSOwned({c}, g, p, FALSE) /\ SharedEnds(c)

\* Changes that are not applied must be, before the game reads the farm.
LaunchApply(c) ==
  LET g == job[c].game
  IN
  /\ At(c, {"launch"}, "apply")
  /\ \/ /\ mounted[g] = None \/ g \notin dirty
        /\ Step(c, "deploy")
        /\ UNCHANGED <<disk, memory, world, life, fence, deferred, replays, faults>>
     \/ /\ g \in dirty /\ RebuildVFSOwned({c}, g, TRUE)
        /\ Step(c, "deploy") /\ UNCHANGED fence
     \/ g \in dirty /\ RebuildVFSOwned({c}, g, FALSE) /\ SharedEnds(c)

LaunchDeploy(c) ==
  LET g == job[c].game
      p == job[c].profile
  IN
  /\ At(c, {"launch"}, "deploy") /\ Step(c, "record")
  /\ root' = IF mounted[g] # None /\ p # None THEN Deployment(g, p) ELSE root
  /\ UNCHANGED <<farm, ticket, intent, memory, world, life, fence, deferred,
                 replays, faults>>

\* Mutant: a ticket that is there is not renewed.
LaunchTicketOnce(c) ==
  /\ At(c, {"launch"}, "record") /\ Step(c, "ticketed")
  /\ ticket' = IF ticket = "none" THEN "fresh" ELSE ticket
  /\ UNCHANGED <<farm, root, intent, memory, world, life, fence, deferred,
                 replays, faults>>

LaunchTicket(c) ==
  /\ At(c, {"launch"}, "record")
  /\ ticket' = "fresh" /\ Step(c, "ticketed")
  /\ UNCHANGED <<farm, root, intent, memory, world, life, fence, deferred,
                 replays, faults>>

LaunchHandOver(c) ==
  /\ At(c, {"launch"}, "ticketed") /\ Step(c, "handed")
  /\ \/ job[c].tool /\ running' = running \cup {job[c].game} /\ UNCHANGED starting
     \/ ~job[c].tool /\ starting' = starting \cup {job[c].game} /\ UNCHANGED running
  /\ UNCHANGED <<disk, memory, life, fence, deferred, replays, faults>>

LaunchRecord(c) ==
  /\ At(c, {"launch"}, "handed") /\ SharedEnds(c)
  /\ \/ job[c].tool /\ tracked' = tracked \cup {job[c].game} /\ UNCHANGED flag
     \/ ~job[c].tool /\ flag' = [flag EXCEPT ![job[c].game] = "fresh"] /\ UNCHANGED tracked
  /\ UNCHANGED <<disk, mounts, pending, world, life, deferred, replays, faults>>

-----------------------------------------------------------------------------
(* Install, removal and rollback of the mod loader: a transaction over the  *)
(* game's own files, under the exclusive reservation.                       *)

LoaderAdmit(c) ==
  /\ HasLoader /\ Ready /\ Idle(c) /\ CanRecover
  /\ ~deferred /\ ~AnyPending
  /\ \A g \in Games : mounted[g] = None
  /\ tracked = {} /\ root = None /\ ~HolderBusy
  /\ FlagsForgotten
  /\ exclusive' = c /\ Begin(c, "loader", "fenced", None)
  /\ UNCHANGED <<disk, mounts, pending, tracked, world, life, shared, deferred,
                 replays, faults>>

\* A transaction that was interrupted is recovered first.
LoaderPrepare(c) ==
  /\ At(c, {"loader"}, "fenced")
  /\ \/ /\ intent' = FALSE /\ Step(c, "prepared")
        /\ UNCHANGED <<fence, loaderPending, faults>>
     \/ /\ intent /\ Fault /\ loaderPending' \in {loaderPending, TRUE}
        /\ ExclusiveEnds(c) /\ UNCHANGED intent
  /\ UNCHANGED <<farm, root, ticket, mounts, world, life, launches, deferred,
                 dataPending, rootPending, replays>>

LoaderFails(c) ==
  /\ At(c, {"loader"}, "prepared") /\ ExclusiveEnds(c)
  /\ UNCHANGED <<disk, memory, world, life, deferred, replays, faults>>

LoaderRun(c) ==
  /\ At(c, {"loader"}, "prepared") /\ farm = None
  /\ intent' = TRUE /\ Step(c, "changing")
  /\ UNCHANGED <<farm, root, ticket, memory, world, life, fence, deferred,
                 replays, faults>>

\* Committed or rolled back; or interrupted, and its recovery failed too.
LoaderEnd(c) ==
  /\ At(c, {"loader"}, "changing") /\ ExclusiveEnds(c)
  /\ \/ intent' = FALSE /\ UNCHANGED <<loaderPending, faults>>
     \/ Fault /\ loaderPending' \in {loaderPending, TRUE} /\ UNCHANGED intent
  /\ UNCHANGED <<farm, root, ticket, mounts, world, life, launches, deferred,
                 dataPending, rootPending, replays>>

-----------------------------------------------------------------------------
(* handleLandedArchiveMode: a download has landed and waits for an install  *)
(* that nobody recovers.                                                    *)

Goes(g, s) == land' = [land EXCEPT ![g] = s]
landing == <<disk, memory, world, life, deferred, replayPending, replayRunning,
             job, faults>>
Hold == deferred \/ replayPending \/ replayRunning
RecoveryHolds == exclusive # None /\ job[exclusive].kind \in Recoveries \cup {"restore"}

Land(g) ==
  /\ g \in Arriving /\ up # "down" /\ land[g] = "none" /\ Goes(g, "landed")
  /\ UNCHANGED <<landing, fence>>

LandChecked(g) ==
  /\ land[g] = "landed" /\ Ready
  /\ Goes(g, IF Hold THEN "held" ELSE "admitting")
  /\ UNCHANGED <<landing, fence>>

\* It waits out a recovery, and gives up on anything else.
LandAdmitted(g) ==
  /\ land[g] = "admitting"
  /\ \/ CanShare /\ shared' = shared \cup {g} /\ Goes(g, "fenced")
     \/ ~CanShare /\ ~RecoveryHolds /\ Goes(g, "skipped") /\ UNCHANGED shared
     \/ stopping /\ Goes(g, "skipped") /\ UNCHANGED shared
  /\ UNCHANGED <<landing, exclusive>>

LandFenced(g) ==
  /\ land[g] = "fenced"
  /\ \/ Hold /\ Goes(g, "held")
     \/ ~Hold /\ PendingFor(g) /\ Goes(g, "skipped")
     \/ ~Hold /\ ~PendingFor(g) /\ Goes(g, "done")
  /\ shared' = shared \ {g}
  /\ UNCHANGED <<landing, exclusive>>

-----------------------------------------------------------------------------
(* The daemon's end.                                                        *)

BeginShutdown ==
  /\ up # "down" /\ ~stopping /\ stopping' = TRUE
  /\ UNCHANGED <<disk, memory, world, up, fence, deferred, replays, job, faults>>

\* deactivateIdleFarms, for a farm it has no reason to keep.
ShutdownFarm(g) ==
  /\ stopping /\ mounted[g] # None
  /\ ~deferred /\ exclusive = None /\ ~TeardownBusy(g) /\ LaunchHolders = {}
  /\ \E ok \in BOOLEAN : TearsDown(g, ok)
  /\ UNCHANGED <<elsewhere, flag, dataPending, rootPending, fence, job>>

\* The process ends, by itself or not; what is on the disk stays, and so do
\* the games it has started.
Down ==
  /\ up # "down" /\ up' = "down" /\ stopping' = FALSE
  /\ mounted' = [g \in Games |-> None] /\ dirty' = {}
  /\ shared' = {} /\ exclusive' = None
  /\ flag' = [g \in Games |-> "none"] /\ tracked' = {}
  /\ deferred' = FALSE /\ dataPending' = FALSE /\ rootPending' = {}
  /\ loaderPending' = FALSE
  /\ replayPending' = FALSE /\ replayRunning' = FALSE
  /\ land' = [g \in Games |->
                IF land[g] \in {"none", "done", "skipped"} THEN land[g] ELSE "lost"]
  /\ job' = [w \in Workers |-> NoJob]
  /\ UNCHANGED <<disk, world, faults>>

-----------------------------------------------------------------------------
(* Steam, the games and time.                                               *)

world_only == <<disk, memory, life, fence, deferred, replays, job, faults>>

Appear(g) ==
  /\ g \in starting /\ starting' = starting \ {g} /\ running' = running \cup {g}
  /\ UNCHANGED world_only

NeverStarts(g) ==
  /\ g \in starting /\ starting' = starting \ {g} /\ UNCHANGED <<running, world_only>>

Exit(g) ==
  /\ g \in running /\ running' = running \ {g} /\ UNCHANGED <<starting, world_only>>

\* The process the daemon waits for ends, perhaps before the game it started.
TrackedExit(g) ==
  /\ g \in tracked /\ tracked' = tracked \ {g}
  /\ UNCHANGED <<disk, mounts, flag, pending, world, life, fence, deferred,
                 replays, job, faults>>

\* Without gorganizer, and not in the moment between a check of the process
\* table and the work it allows.
BetweenCheckAndWork ==
  exclusive # None /\ ~At(exclusive, Recoveries \cup {"restore"}, "fenced")

StartOutside(g) ==
  /\ g \notin running /\ ~BetweenCheckAndWork
  /\ running' = running \cup {g} /\ UNCHANGED <<starting, world_only>>

\* Two minutes pass.  Steam starts a game within them, or not at all.
StillStarting == starting # {} \/ \E c \in Clients : At(c, {"launch"}, "ticketed")

AgeTicket ==
  /\ ticket = "fresh" /\ ~StillStarting /\ ticket' = "old"
  /\ UNCHANGED <<farm, root, intent, memory, world, life, fence, deferred,
                 replays, job, faults>>

AgeFlag(g) ==
  /\ flag[g] = "fresh" /\ starting = {} /\ flag' = [flag EXCEPT ![g] = "old"]
  /\ UNCHANGED <<disk, mounts, tracked, pending, world, life, fence, deferred,
                 replays, job, faults>>

-----------------------------------------------------------------------------
Locked ==
  \/ \E g \in Games, p \in Profiles : MountVFS(g, p)
  \/ \E g \in Games : RebuildVFS(g) \/ ModChange(g) \/ UnmountVFS(g) \/ Edit(g)
  \/ FlagsSwept

Recovers(w) ==
  \/ RetryIdle(w) \/ RecoverLoader(w) \/ RecoverRoot(w) \/ RecoverData(w)
  \/ RecoverHeldLoader(w) \/ RecoverOrphans(w) \/ RetryEnd(w)
  \/ Release(w) \/ ReplayBegin(w) \/ ReplayTake(w)
Boots == BootFence \/ BootIdle \/ BootEnd
Restores(c) ==
  \/ RestoreIdle(c) \/ RestoreLoader(c) \/ RestoreRoot(c) \/ RestoreData(c)
  \/ RestoreTicket(c)
Launches(c) ==
  \/ LaunchFails(c) \/ LaunchPreflight(c) \/ LaunchMount(c) \/ LaunchApply(c)
  \/ LaunchDeploy(c) \/ LaunchTicket(c) \/ LaunchHandOver(c) \/ LaunchRecord(c)
LoaderWorks(c) == LoaderPrepare(c) \/ LoaderFails(c) \/ LoaderRun(c) \/ LoaderEnd(c)

Requests(c) ==
  \/ RetryBegin(c) \/ LoaderAdmit(c)
  \/ \E g \in Games : RestoreBegin(c, g)
  \/ \E g \in Games, p \in Profiles \cup {None}, tool \in BOOLEAN : LaunchAdmit(c, g, p, tool)

Goroutines ==
  \/ Boots \/ RetryBegin(Ticker)
  \/ \E w \in Workers : Recovers(w)
  \/ \E c \in Clients : Restores(c) \/ Launches(c) \/ LoaderWorks(c)

Handles(g) == LandChecked(g) \/ LandAdmitted(g) \/ LandFenced(g)
Daemon == Start \/ BeginShutdown \/ Down \/ \E g \in Games : ShutdownFarm(g)
Grace == AgeTicket \/ \E g \in Games : AgeFlag(g)
Settles(g) == Appear(g) \/ NeverStarts(g)
World == Grace \/ \E g \in Games : Settles(g) \/ Exit(g) \/ TrackedExit(g) \/ StartOutside(g)

Next ==
  \/ Locked \/ Goroutines \/ Daemon \/ World
  \/ \E c \in Clients : Requests(c)
  \/ \E g \in Games : Land(g) \/ Handles(g)

Spec == Init /\ [][Next]_vars

\* Goroutines run, the retry timer ticks, time passes and Steam decides.
Fairness ==
  /\ WF_vars(Boots \/ Recovers(Boot))
  /\ WF_vars(RetryBegin(Ticker) \/ Recovers(Ticker))
  /\ \A c \in Clients : WF_vars(Recovers(c) \/ Restores(c) \/ Launches(c) \/ LoaderWorks(c))
  /\ \A g \in Games : WF_vars(Handles(g)) /\ WF_vars(Settles(g))
  /\ WF_vars(AgeTicket)

FairSpec == Spec /\ Fairness

-----------------------------------------------------------------------------
(* What the session promises.                                               *)

\* The work that needs the install for itself, from its admission on.
Alone(w) ==
  /\ job[w].kind \in {"boot", "retry", "restore", "loader"}
  /\ job[w].at \notin {"start", "replay", "take"}

\* Recovery, a confirmed restore and a loader change hold the install alone;
\* a launch and the install of a landed download share it with their like
\* (reserveSharedOwned, acquireRecoveryExclusive, reserveExclusiveLocked).
FenceExclusion ==
  /\ \A w \in Workers : Alone(w) <=> exclusive = w
  /\ \A c \in Clients : job[c].kind = "launch" <=> c \in shared
  /\ \A g \in Games : land[g] = "fenced" <=> g \in shared
  /\ exclusive # None => shared = {}

\* No game runs, or is being started, while its mods are recovered, restored
\* or its loader is changed: not one the daemon started, and not one that an
\* earlier daemon handed to Steam before it crashed (recoveryIdle).
Working(w) == Alone(w) /\ (job[w].kind = "loader" \/ job[w].at \notin {"fenced", "recovered", "release"})
NoReaderUnderRecovery ==
  (\E w \in Workers : Working(w)) => running = {} /\ starting = {}

\* A game that is handed to Steam has a durable record until it runs, or the
\* time it has for that is over (writeLaunchTicketForGame).
LaunchIsRecorded == starting # {} => ticket = "fresh"

\* The mods a game was started with stay deployed while it starts and runs:
\* no unmount, profile switch, recovery, shutdown or loader change removes
\* them, whichever request, daemon or crash came in between.
KeepsMods ==
  running \cup starting # {} => farm' = farm /\ (root # None => root' = root)
ReadersKeepMods == [][KeepsMods]_vars

\* The loader changes the game's own files, and leaves them half-changed
\* after a crash, only while no mod is deployed among them
\* (reserveExclusiveLocked, refuseLoaderIntentLocked, loaderPreflight).
LoaderAlone == intent => farm = None /\ root = None

\* What the session says is mounted is what is deployed at Data.
MountedIsReal ==
  \A g \in Games : mounted[g] # None => farm = Deployment(g, mounted[g])

\* A mounted profile has its game-root deployment, when nothing has failed
\* (rootDeploymentInUse: "so its root deployment must stay").
RootFollowsMount ==
  faults = 0 => \A g \in Games : mounted[g] # None => root = Deployment(g, mounted[g])

\* A landed download is kept while a recovery of its install is pending
\* (holdDeferredLanding: "until its install's deferred or pending recovery
\* has finished").
PendingKeepsLandings ==
  [][\A g \in Games :
       PendingFor(g) /\ ~stopping /\ land[g] \in {"landed", "admitting", "fenced"}
         => land'[g] # "skipped"]_vars

\* A recovery that was put off is done once the daemon stays up and the game
\* is gone for good (retryDeferredRecoveriesLoop).
Undisturbed == up = "ready" /\ ~stopping /\ running = {}
DeferredEnds == <>[]Undisturbed => <>[]~deferred

\* ... and the downloads it held back are handled, unless a recovery waits
\* for the user (replayDeferredLandings).
HeldIsReplayed ==
  <>[](Undisturbed /\ ~AnyPending) => <>[](\A g \in Games : land[g] # "held")
=============================================================================
