------------------------------- MODULE Offline -------------------------------
(***************************************************************************)
(* gorganizerctl while the service is not running: recover,                *)
(* recover-confirm and uninstall.  They hold the instance lock (uninstall  *)
(* the session lock too), refuse a game that runs or was launched a moment *)
(* ago, and put the parts of a game back: the mod loader's transaction,    *)
(* the links next to the executables, the Data folder.  Uninstall deletes  *)
(* gorganizer's own folders when every game is back.                       *)
(*                                                                         *)
(* How a part is restored is the subject of SmapiTxn, RootDeployment and   *)
(* Farm; here a part is found in some condition and its recovery succeeds  *)
(* or leaves it.                                                           *)
(***************************************************************************)
EXTENDS Naturals, FiniteSets

CONSTANTS Game,        \* the configured games, one per Data folder
          MaxTurns     \* bound: commands and things that happen to the games

OfflineAssumption == MaxTurns \in Nat

VARIABLES game,        \* the condition of each game
          holder,      \* who holds the instance lock
          open,        \* TRUE while a window holds session.lock
          cmd,         \* the offline command that runs
          left,        \* gorganizer's folders and entries that are left
          turns

vars == <<game, holder, open, cmd, left, turns>>

Own    == {"entries", "state", "mods", "settings"}   \* what uninstall may remove
Purged == {"mods", "settings"}                       \* what only a purge removes

Condition ==
    [ loader  : {"none", "cut", "owned", "stuck"},   \* a mod-loader transaction: cut short, of a live process, unrecoverable
      root    : {"plain", "links", "intent", "stuck"},
      data    : {"plain", "farm", "backup", "steam"},  \* backup: asks for a confirmation; steam: Steam is at work
      ticket  : {"none", "fresh", "old"},
      running : BOOLEAN,
      there   : BOOLEAN ]                            \* FALSE: its drive is not connected

Commands == {"recover", "confirm", "check", "keep", "purge", "forget"}
Stages   == {"idle", "look", "restore", "verify", "tickets", "ask", "remove"}
Idle     == [at |-> "idle", kind |-> "check", todo |-> {}, games |-> {}, told |-> "nothing", part |-> "loader"]

TypeOK ==
    /\ game \in [Game -> Condition] /\ open \in BOOLEAN /\ left \subseteq Own
    /\ holder \in {"nobody", "service", "command"}
    /\ cmd \in [at : Stages, kind : Commands, todo : SUBSET Game, games : SUBSET Game,
                told : {"nothing", "refused", "failed", "restored", "removed"}, part : {"loader", "root", "data", "again", "links"}]
    /\ turns \in 0..MaxTurns

Plain == [loader |-> "none", root |-> "plain", data |-> "plain", ticket |-> "none", running |-> FALSE, there |-> TRUE]

Init ==
    /\ \E f \in [Game -> {Plain, [Plain EXCEPT !.root = "links", !.data = "farm", !.ticket = "old"]}] : game = f
    /\ holder = "nobody" /\ open = FALSE /\ cmd = Idle /\ left = Own /\ turns = 0

Turn == turns < MaxTurns /\ turns' = turns + 1

\* Nothing of a deployment, of a transaction or of a launch remains.
Back(g) ==
    /\ game[g].loader = "none" /\ game[g].root = "plain" /\ game[g].data = "plain"
Restored(g) == Back(g) /\ game[g].ticket = "none"

(***************************************************************************)
(* The world: the service, the player, Steam, the drives.                  *)
(***************************************************************************)
ServiceStarts ==
    /\ Turn /\ holder = "nobody" /\ holder' = "service" /\ left = Own
    /\ UNCHANGED <<game, open, cmd, left>>

\* What the service may leave; one thing at a time is unrecoverable.
Remains == [loader : {"none", "cut", "owned", "stuck"}, root : {"plain", "links", "intent", "stuck"},
            data : {"plain", "farm", "backup"}]
OneStuck(c) == Cardinality({x \in {c.loader, c.root, c.data} : x \in {"stuck", "backup", "owned"}}) <= 1

\* The service deploys a game, launches it, and may die in the middle.
ServiceActs(g) ==
    /\ Turn /\ holder = "service" /\ game[g].there /\ Back(g)
    /\ \E c \in Remains :
         /\ OneStuck(c)
         /\ game' = [game EXCEPT ![g] = [@ EXCEPT !.loader = c.loader, !.root = c.root, !.data = c.data]]
    /\ UNCHANGED <<holder, open, cmd, left>>

ServiceLaunches(g) ==
    /\ Turn /\ holder = "service" /\ game[g].data = "farm" /\ ~game[g].running
    /\ game' = [game EXCEPT ![g].ticket = "fresh", ![g].running = TRUE]
    /\ UNCHANGED <<holder, open, cmd, left>>

ServiceEnds == holder = "service" /\ holder' = "nobody" /\ UNCHANGED <<game, open, cmd, left, turns>>

\* The game exits; two minutes pass; Steam finishes; a transaction's owner dies.
Settles(g) ==
    /\ \/ game[g].running /\ game' = [game EXCEPT ![g].running = FALSE]
       \/ game[g].ticket = "fresh" /\ game' = [game EXCEPT ![g].ticket = "old"]
       \/ game[g].data = "steam" /\ game' = [game EXCEPT ![g].data = "farm"]
       \/ game[g].loader = "owned" /\ game' = [game EXCEPT ![g].loader = "cut"]
    /\ UNCHANGED <<holder, open, cmd, left, turns>>

Happens(g) ==
    /\ Turn
    /\ \/ game' = [game EXCEPT ![g].there = ~@, ![g].running = FALSE]
       \/ game[g].data = "farm" /\ game' = [game EXCEPT ![g].data = "steam"]
    /\ UNCHANGED <<holder, open, cmd, left>>

Window == Turn /\ open' = ~open /\ (open' => cmd.at = "idle") /\ UNCHANGED <<game, holder, cmd, left>>

(***************************************************************************)
(* The commands.                                                           *)
(***************************************************************************)
Uninstalls == cmd.kind \in {"check", "keep", "purge", "forget"}

Ends(told) == cmd' = [Idle EXCEPT !.kind = cmd.kind, !.games = cmd.games, !.told = told] /\ holder' = "nobody"
Goes(at, todo) == cmd' = [cmd EXCEPT !.at = at, !.todo = todo, !.part = "loader"] /\ UNCHANGED holder

\* recover and recover-confirm name one game; uninstall takes every game.
Begins(kind) ==
    /\ Turn /\ cmd.at = "idle" /\ holder = "nobody"
    /\ kind \in {"recover", "confirm"} \/ ~open
    /\ \E S \in SUBSET Game :
         /\ IF kind \in {"recover", "confirm"} THEN Cardinality(S) = 1 ELSE S = Game
         /\ cmd' = [Idle EXCEPT !.at = "look", !.kind = kind, !.todo = S]
    /\ holder' = "command"
    /\ UNCHANGED <<game, open, left>>

\* procscan and the launch ticket: a game in use stops the command.
InUse(g) == game[g].running \/ game[g].ticket = "fresh"

\* What a game that is not there means: nothing to restore, unless its mods
\* are to be deleted and nobody said to forget it.
MayBeMissing == cmd.kind \notin {"purge", "recover", "confirm"}

Looks(g) ==
    /\ cmd.at = "look" /\ g \in cmd.todo
    /\ \/ ~game[g].there /\ ~MayBeMissing /\ Ends("refused")
       \/ game[g].there /\ InUse(g) /\ Ends("refused")
       \/ /\ game[g].there => ~InUse(g)
          /\ ~game[g].there => MayBeMissing
          /\ cmd' = [cmd EXCEPT !.todo = @ \ {g}, !.games = IF game[g].there THEN @ \cup {g} ELSE @]
          /\ UNCHANGED holder
    /\ UNCHANGED <<game, open, left, turns>>

Looked ==
    /\ cmd.at = "look" /\ cmd.todo = {}
    /\ IF cmd.kind = "check" THEN Goes("verify", cmd.games) ELSE Goes("restore", cmd.games)
    /\ UNCHANGED <<game, open, left, turns>>

\* RecoverGameOffline, part after part: a loader transaction of a live
\* process is tried again once Data is back.
Turns(g, part) == cmd.at = "restore" /\ cmd.kind # "confirm" /\ cmd.part = part /\ g \in cmd.todo /\ game[g].there
Then(part) == cmd' = [cmd EXCEPT !.part = part] /\ UNCHANGED <<holder, open, left, turns>>

RecoverLoader(g) ==
    /\ Turns(g, "loader") \/ Turns(g, "again")
    /\ game' = IF game[g].loader = "cut" THEN [game EXCEPT ![g].loader = "none"] ELSE game
    /\ Then(IF cmd.part = "loader" THEN "root" ELSE "links")

RecoverRoot(g) ==
    /\ Turns(g, "root")
    /\ \E r \in IF game[g].root = "intent" THEN {"plain", "links"} ELSE {game[g].root} :
         game' = [game EXCEPT ![g].root = r]
    /\ Then("data")

RecoverData(g) ==
    /\ Turns(g, "data")
    /\ game' = IF game[g].data = "farm" THEN [game EXCEPT ![g].data = "plain"] ELSE game
    /\ Then(IF game[g].loader = "owned" THEN "again" ELSE "links")

\* The root deployment goes last, when nothing else is pending.
NothingPending(g) == game[g].data = "plain" /\ game[g].loader = "none" /\ game[g].root # "stuck"
DeactivateRoot(g) ==
    /\ Turns(g, "links")
    /\ game' = IF NothingPending(g) THEN [game EXCEPT ![g].root = "plain"] ELSE game
    /\ cmd' = [cmd EXCEPT !.at = "verify", !.part = "loader"]
    /\ UNCHANGED <<holder, open, left, turns>>

\* recover-confirm: the Data folder comes back from its backup.
RestoreFromBackup(g) ==
    /\ cmd.at = "restore" /\ cmd.kind = "confirm" /\ g \in cmd.todo
    /\ IF game[g].data \in {"backup", "farm"} /\ game[g].there
       THEN game' = [game EXCEPT ![g].data = "plain"] /\ Ends("restored")
       ELSE UNCHANGED game /\ Ends("failed")
    /\ UNCHANGED <<open, left, turns>>

\* verifyUninstallTarget reads the game again; recover only reports.
verifyUninstallTarget(g) == game[g].there /\ Back(g)

Verified(g) == verifyUninstallTarget(g) /\ (cmd.kind = "check" => game[g].ticket = "none")

Verify(g) ==
    /\ cmd.at = "verify" /\ g \in cmd.todo
    /\ \/ ~Verified(g) /\ Ends("failed")
       \/ Verified(g) /\ ~Uninstalls /\ Ends("restored")
       \/ Verified(g) /\ Uninstalls /\ Goes(IF cmd.kind = "check" THEN "verify" ELSE "restore", cmd.todo \ {g})
    /\ UNCHANGED <<game, open, left, turns>>

\* A drive that went away during the recovery fails it.
Vanished(g) ==
    /\ cmd.at = "restore" /\ g \in cmd.todo /\ ~game[g].there /\ cmd.kind # "confirm"
    /\ Ends("failed")
    /\ UNCHANGED <<game, open, left, turns>>

AllVerified ==
    /\ cmd.todo = {}
    /\ \/ cmd.at = "verify" /\ Ends("restored")
       \/ cmd.at = "restore" /\ Goes("tickets", cmd.games)
    /\ UNCHANGED <<game, open, left, turns>>

\* The launch records go last, and the game is verified once more.
ClearTicket(g) ==
    /\ cmd.at = "tickets" /\ g \in cmd.todo
    /\ IF verifyUninstallTarget(g) /\ game[g].ticket # "fresh"
       THEN game' = [game EXCEPT ![g].ticket = "none"] /\ Goes("tickets", cmd.todo \ {g})
       ELSE UNCHANGED game /\ Ends("failed")
    /\ UNCHANGED <<open, left, turns>>

\* A path that is not gorganizer's ends it; so does a "no".
Asks ==
    /\ cmd.at = "tickets" /\ cmd.todo = {}
    /\ \/ Goes("remove", {}) \/ Ends("refused")
    /\ UNCHANGED <<game, open, left, turns>>

Removes(d) ==
    /\ cmd.at = "remove" /\ d \in left
    /\ d \in Purged => cmd.kind \in {"purge", "forget"}
    /\ left' = left \ {d}
    /\ UNCHANGED <<game, holder, open, cmd, turns>>

\* All paths are gone, or the removal stopped at one of them.
Removed ==
    /\ cmd.at = "remove"
    /\ \/ left \subseteq (IF cmd.kind = "keep" THEN Purged ELSE {}) /\ Ends("removed") /\ UNCHANGED turns
       \/ Turn /\ Ends("failed")
    /\ UNCHANGED <<game, open, left>>

Killed == Turn /\ cmd.at # "idle" /\ Ends("failed") /\ UNCHANGED <<game, open, left>>

World(g) == ServiceActs(g) \/ ServiceLaunches(g) \/ Settles(g) \/ Happens(g)
Recovery(g) ==
    \/ Looks(g) \/ RecoverLoader(g) \/ RecoverRoot(g) \/ RecoverData(g) \/ DeactivateRoot(g)
    \/ RestoreFromBackup(g) \/ Verify(g) \/ Vanished(g) \/ ClearTicket(g)

Next ==
    \/ ServiceStarts \/ ServiceEnds \/ Window
    \/ \E g \in Game : World(g) \/ Recovery(g)
    \/ \E k \in Commands : Begins(k)
    \/ Looked \/ AllVerified \/ Asks \/ Removed \/ Killed
    \/ \E d \in Own : Removes(d)

Spec == Init /\ [][Next]_vars

-----------------------------------------------------------------------------
\* Nothing of gorganizer is deleted while a game it could reach still has
\* some part of a deployment, of a loader transaction or of a launch, which
\* without gorganizer nobody could put back (uninstall.go:147, :164).
DeletedWhenBack == left' # left => \A g \in cmd.games : Restored(g) \/ ~game[g].there

\* The mods of a game that was not there when it was looked at are deleted
\* only when the user said to forget it (uninstall.go:124).
MissingKeepsMods ==
    left \cap Purged # left' \cap Purged /\ cmd.kind = "purge" => cmd.games = Game

\* A game launched less than two minutes ago is left as it is: its processes
\* may not be there yet (session_ticket.go:138).
LaunchedIsLeft ==
    \A g \in Game : holder = "command" /\ game[g].ticket = "fresh" /\ ~Back(g) => ~Back(g)'
=============================================================================
