----------------------------- MODULE Supervisor -----------------------------
(***************************************************************************)
(* Who starts and stops the background service: the supervisor of a window *)
(* (gorganizerctl session), a download link (gorganizerctl nxm), the stop  *)
(* command, and the service itself from its lock to its exit.  A process   *)
(* is a pid with its start time, so it is never confused with another.     *)
(*                                                                         *)
(* A call of Health can fail because nobody listens, and it can fail       *)
(* because the service does not answer within its seconds (a fault).       *)
(***************************************************************************)
EXTENDS Naturals, FiniteSets

CONSTANTS Pid,         \* the service processes there may be, in all
          Window,      \* the gorganizerctl session processes
          Link,        \* the gorganizerctl nxm processes, one link each
          None,        \* no process
          MaxFaults    \* bound: kills, crashes and calls that time out

SupervisorAssumption == MaxFaults \in Nat

VARIABLES service,     \* the state of each service process
          asked,       \* the services a Shutdown call or a signal has reached
          slock,       \* the holder of session.lock
          nlock,       \* the holder of nxm-start.lock
          window,      \* each supervisor
          link,        \* each link being delivered
          added,       \* the links whose download was added
          stop,        \* the gorganizerctl stop command
          faults

vars == <<service, asked, slock, nlock, window, link, added, stop, faults>>

ServiceStates == {"unborn", "starting", "recovering", "serving", "ready", "stopping", "closing", "gone"}
WindowStates  == {"out", "begun", "look", "await", "start", "starting", "gui", "stop", "ask", "leaving", "end"}
LinkStates    == {"out", "look", "await", "locked", "session", "wait", "submit", "told"}
Nobody == [at |-> "out", child |-> None, other |-> None, told |-> "nothing"]

TypeOK ==
    /\ service \in [Pid -> ServiceStates] /\ asked \subseteq Pid
    /\ slock \in Window \cup {None} /\ nlock \in Link \cup {None}
    /\ window \in [Window -> [at : WindowStates, child : Pid \cup {None}, other : Pid \cup {None}, told : {"nothing", "open", "failed", "finishing"}]]
    /\ link \in [Link -> [at : LinkStates, told : {"nothing", "added", "failed", "unknown"}]]
    /\ added \subseteq Link
    /\ stop \in [at : {"out", "probed", "wait"}, pid : Pid \cup {None}, told : {"nothing", "stopped", "finishing"}]
    /\ faults \in 0..MaxFaults

Init ==
    /\ service = [p \in Pid |-> "unborn"] /\ asked = {}
    /\ slock = None /\ nlock = None
    /\ window = [w \in Window |-> Nobody]
    /\ link = [n \in Link |-> [at |-> "out", told |-> "nothing"]]
    /\ added = {}
    /\ stop = [at |-> "out", pid |-> None, told |-> "nothing"]
    /\ faults = 0

processes == <<service, asked>>
windows   == <<slock, window>>
links     == <<nlock, link, added>>

Fault == faults < MaxFaults /\ faults' = faults + 1

(***************************************************************************)
(* The service.                                                            *)
(***************************************************************************)
Holding   == {"recovering", "serving", "ready", "stopping", "closing"}
Listening == {p \in Pid : service[p] \in {"serving", "ready", "stopping"}}
Stopping(p) == service[p] = "stopping"

Becomes(p, from, to) == service[p] \in from /\ service' = [service EXCEPT ![p] = to]

Service(p) ==
    \* instancelock.Acquire: another service, or an unfinished move, ends it.
    /\ \/ /\ \A q \in Pid : service[q] \notin Holding
          /\ Becomes(p, {"starting"}, "recovering")
       \/ /\ \E q \in Pid : service[q] \in Holding
          /\ Becomes(p, {"starting"}, "gone")
       \* The socket is bound once every game has been recovered.
       \/ Becomes(p, {"recovering"}, "serving")
       \/ p \notin asked /\ Becomes(p, {"serving"}, "ready")
       \/ p \in asked /\ Becomes(p, {"serving", "ready"}, "stopping")
       \* shutdownAll: the calls end and the socket goes before the lock does.
       \/ Becomes(p, {"stopping"}, "closing")
       \/ Becomes(p, {"closing"}, "gone")
    /\ UNCHANGED <<asked, windows, links, stop, faults>>

Crashes(p) ==
    /\ Fault
    /\ Becomes(p, Holding, "gone")
    /\ UNCHANGED <<asked, windows, links, stop>>

\* The service started by hand, without a window.
ByHand(p) ==
    /\ Fault
    /\ Becomes(p, {"unborn"}, "starting")
    /\ UNCHANGED <<asked, windows, links, stop>>

(***************************************************************************)
(* The supervisor of a window.                                             *)
(***************************************************************************)
Goes(w, to) == window' = [window EXCEPT ![w].at = to]
Ends(w, told) ==
    /\ window' = [window EXCEPT ![w].at = "end", ![w].told = told]
    /\ slock' = IF slock = w THEN None ELSE slock

Opens(w) ==
    /\ window[w].at \in {"out", "begun"}
    /\ \/ slock = None /\ slock' = w /\ Goes(w, "look")
       \/ slock # None /\ Ends(w, "open")
    /\ UNCHANGED <<processes, links, stop, faults>>

\* The first look at the socket: take the service that answers, wait for the
\* one that is stopping, or start one.
Looks(w) ==
    /\ window[w].at = "look"
    /\ \/ Listening = {} /\ Goes(w, "start") /\ UNCHANGED faults
       \/ Fault /\ Goes(w, "start")
       \/ \E p \in Listening :
            /\ IF Stopping(p) THEN window' = [window EXCEPT ![w].at = "await", ![w].other = p] ELSE Goes(w, "gui")
            /\ UNCHANGED faults
    /\ UNCHANGED <<processes, slock, links, stop>>

\* Once the stopping service has gone, one more look.
Awaits(w) ==
    /\ window[w].at = "await"
    /\ \/ /\ service[window[w].other] = "gone"
          /\ \/ Listening = {} /\ Goes(w, "start") /\ UNCHANGED slock
             \/ \E p \in Listening : ~Stopping(p) /\ Goes(w, "gui") /\ UNCHANGED slock
             \/ \E p \in Listening : Stopping(p) /\ Ends(w, "finishing")
          /\ UNCHANGED faults
       \/ service[window[w].other] = "gone" /\ Fault /\ Goes(w, "start") /\ UNCHANGED slock
       \/ service[window[w].other] # "gone" /\ Fault /\ Ends(w, "finishing")
    /\ UNCHANGED <<processes, links, stop>>

Starts(w) ==
    /\ window[w].at = "start"
    /\ \/ \E p \in Pid :
            /\ Becomes(p, {"unborn"}, "starting")
            /\ window' = [window EXCEPT ![w].at = "starting", ![w].child = p]
            /\ UNCHANGED <<slock, faults>>
       \* Its log cannot be opened, or its program cannot be run.
       \/ Fault /\ Ends(w, "failed") /\ UNCHANGED service
    /\ UNCHANGED <<asked, links, stop>>

\* waitSessionReady: its own child, ready; the child's end; or a minute.
WaitsReady(w) ==
    LET c == window[w].child IN
    /\ window[w].at = "starting"
    /\ \/ service[c] = "ready" /\ Goes(w, "gui") /\ UNCHANGED <<slock, faults>>
       \/ service[c] = "gone" /\ Ends(w, "failed") /\ UNCHANGED faults
       \/ Fault /\ Goes(w, "stop") /\ UNCHANGED slock
    /\ UNCHANGED <<processes, links, stop>>

\* The window closes, or could not be opened.
Closes(w) ==
    /\ window[w].at = "gui"
    /\ \/ window[w].child = None /\ Ends(w, "nothing")
       \/ window[w].child # None /\ Goes(w, "stop") /\ UNCHANGED slock
    /\ UNCHANGED <<processes, links, stop, faults>>

\* stopOwnedSession asks Health who answers, and stops only its own child.
Answers(w, p) == p \in Listening /\ p = window[w].child

ProbesOwn(w) ==
    /\ window[w].at = "stop"
    /\ \/ service[window[w].child] = "gone" /\ Ends(w, "nothing") /\ UNCHANGED faults
       \/ \E p \in Listening : Answers(w, p) /\ Goes(w, "ask") /\ UNCHANGED <<slock, faults>>
       \/ ~(\E p \in Listening : Answers(w, p)) /\ Goes(w, "leaving") /\ UNCHANGED <<slock, faults>>
       \/ Fault /\ Goes(w, "leaving") /\ UNCHANGED slock
    /\ UNCHANGED <<processes, links, stop>>

\* The Shutdown call goes to whoever listens by then: the channel connects
\* again when the service that answered has gone.
AsksOwn(w) ==
    /\ window[w].at = "ask"
    /\ \E p \in Listening \cup {None} :
         /\ IF p = None /\ Listening # {} THEN Fault ELSE UNCHANGED faults
         /\ asked' = IF p = None THEN asked ELSE asked \cup {p}
    /\ Goes(w, "leaving")
    /\ UNCHANGED <<service, slock, links, stop>>

\* 46 seconds for the child to exit: then the user is told it will.
WaitsExit(w) ==
    /\ window[w].at = "leaving"
    /\ \/ service[window[w].child] = "gone" /\ Ends(w, "nothing")
       \/ service[window[w].child] # "gone" /\ Ends(w, "finishing")
    /\ UNCHANGED <<processes, links, stop, faults>>

\* Another session may be started once this one is over; a kill frees the
\* lock and leaves the child.
Again(w) ==
    /\ window[w].at = "end"
    /\ window' = [window EXCEPT ![w] = Nobody]
    /\ UNCHANGED <<processes, slock, links, stop, faults>>

Killed(w) ==
    /\ window[w].at \notin {"out", "begun", "end"} /\ Fault
    /\ Ends(w, "nothing")
    /\ UNCHANGED <<processes, links, stop>>

(***************************************************************************)
(* A download link.                                                        *)
(***************************************************************************)
Moves(n, to) == link' = [link EXCEPT ![n].at = to]
Tells(n, told) ==
    /\ link' = [link EXCEPT ![n].at = "told", ![n].told = told]
    /\ nlock' = IF nlock = n THEN None ELSE nlock

\* A ready service takes the link, one that is coming up is waited for, one
\* that stops is waited out.
Clicked(n) ==
    /\ link[n].at = "out"
    /\ \/ Listening = {} /\ Moves(n, "look") /\ UNCHANGED faults
       \/ Fault /\ Moves(n, "look")
       \/ \E p \in Listening :
            /\ Moves(n, IF Stopping(p) THEN "await" ELSE IF service[p] = "ready" THEN "submit" ELSE "wait")
            /\ UNCHANGED faults
    /\ UNCHANGED <<processes, windows, nlock, added, stop>>

StopsWaiting(n) ==
    /\ link[n].at = "await"
    /\ \/ /\ \A p \in Listening : ~Stopping(p)
          /\ Moves(n, IF Listening = {} THEN IF nlock = n THEN "session" ELSE "look" ELSE "wait")
          /\ UNCHANGED <<nlock, faults>>
       \/ Fault /\ Tells(n, "failed")
    /\ UNCHANGED <<processes, windows, added, stop>>

\* One link at a time may start a session; another waits for its service.
StartLock(n) ==
    /\ link[n].at = "look"
    /\ \/ /\ nlock = None /\ nlock' = n
          /\ Moves(n, IF Listening = {} THEN "session" ELSE IF \E p \in Listening : Stopping(p) THEN "await" ELSE "wait")
          /\ UNCHANGED faults
       \/ nlock = None /\ nlock' = n /\ Fault /\ Moves(n, "session")
       \/ nlock # None /\ Moves(n, "wait") /\ UNCHANGED <<nlock, faults>>
    /\ UNCHANGED <<processes, windows, added, stop>>

\* With no session open it starts one, which has to take session.lock itself.
SessionFree == slock = None
StartsSession(n) ==
    /\ link[n].at = "session"
    /\ \/ SessionFree /\ \E w \in Window : window[w].at = "out" /\ Goes(w, "begun")
       \/ ~SessionFree /\ UNCHANGED window
    /\ Moves(n, "wait")
    /\ UNCHANGED <<processes, slock, nlock, added, stop, faults>>

WaitsForService(n) ==
    /\ link[n].at = "wait"
    /\ \/ \E p \in Listening : service[p] = "ready" /\ link' = [link EXCEPT ![n].at = "submit"]
          /\ nlock' = IF nlock = n THEN None ELSE nlock
       \/ (\A p \in Listening : service[p] # "ready") /\ Tells(n, "failed")
    /\ UNCHANGED <<processes, windows, added, stop, faults>>

\* StartDownload: a service that is stopping refuses it, and so does any when
\* the link has expired; when the answer is lost it may have been added.
Lost(n) == "unknown"

Submits(n) ==
    /\ link[n].at = "submit"
    /\ \/ \E p \in Listening : ~Stopping(p) /\ added' = added \cup {n} /\ Tells(n, "added") /\ UNCHANGED faults
       \/ \E p \in Listening : ~Stopping(p) /\ Fault /\ added' \in {added, added \cup {n}} /\ Tells(n, Lost(n))
       \/ Listening # {} /\ Tells(n, "failed") /\ UNCHANGED <<added, faults>>
       \/ Listening = {} /\ Tells(n, "unknown") /\ UNCHANGED <<added, faults>>
    /\ UNCHANGED <<processes, windows, stop>>

(***************************************************************************)
(* gorganizerctl stop.                                                     *)
(***************************************************************************)
StopProbes ==
    /\ stop.at = "out"
    /\ \E p \in Listening : stop' = [at |-> "probed", pid |-> p, told |-> "nothing"]
    /\ UNCHANGED <<processes, windows, links, faults>>

\* The call goes to whoever listens by then.
StopAsks ==
    /\ stop.at = "probed"
    /\ asked' = asked \cup Listening
    /\ stop' = [stop EXCEPT !.at = "wait"]
    /\ UNCHANGED <<service, windows, links, faults>>

\* processAlive compares the start time of the process it talked to.
HasGone(p) == service[p] = "gone"

StopWaits ==
    /\ stop.at = "wait"
    /\ \/ HasGone(stop.pid) /\ stop' = [stop EXCEPT !.at = "out", !.told = "stopped"] /\ UNCHANGED faults
       \/ ~HasGone(stop.pid) /\ Fault /\ stop' = [stop EXCEPT !.at = "out", !.told = "finishing"]
    /\ UNCHANGED <<processes, windows, links>>

Supervises(w) ==
    \/ Opens(w) \/ Looks(w) \/ Awaits(w) \/ Starts(w) \/ WaitsReady(w) \/ Closes(w)
    \/ ProbesOwn(w) \/ AsksOwn(w) \/ WaitsExit(w) \/ Again(w) \/ Killed(w)

Delivers(n) ==
    \/ Clicked(n) \/ StopsWaiting(n) \/ StartLock(n) \/ StartsSession(n) \/ WaitsForService(n) \/ Submits(n)

Next ==
    \/ \E p \in Pid : Service(p) \/ Crashes(p) \/ ByHand(p)
    \/ \E w \in Window : Supervises(w)
    \/ \E n \in Link : Delivers(n)
    \/ StopProbes \/ StopAsks \/ StopWaits

Spec == Init /\ [][Next]_vars

-----------------------------------------------------------------------------
\* While its child runs, a supervisor asks no other service to shut down: not one
\* a killed supervisor left behind, which owns the socket while the child still
\* waits for the lock (session.go:318).  When the child ends between the answer
\* to Health and the call of Shutdown, the call may reach another: AsksOnlyChild.
StopsOwnChild ==
    \A w \in Window :
        window[w].at = "ask" /\ window'[w].at = "leaving" /\ service[window[w].child] # "gone"
            => asked' \subseteq asked \cup {window[w].child}

\* "stopOwnedSession requests shutdown only from the supervisor's child"
\* (session.go:318): a service that is not its child is never asked.  One is when
\* the child has ended since its answer and the other has taken its socket.
AsksOnlyChild ==
    \A w \in Window :
        window[w].at = "ask" /\ window'[w].at = "leaving"
            => asked' \subseteq asked \cup {window[w].child}

\* A link reported as failed was not added: clicking it again cannot add the
\* same download twice (nxm.go:137).
FailedIsNotAdded == \A n \in Link : link[n].told = "failed" => n \notin added

\* gorganizerctl stop says it is done when the process it found is gone,
\* with its locks and whatever it still had to write (lifecycle.go:136).
StoppedIsGone == stop.told = "stopped" => service[stop.pid] = "gone"
=============================================================================
