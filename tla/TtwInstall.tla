----------------------------- MODULE TtwInstall -----------------------------
(***************************************************************************)
(* Tale of Two Wastelands: an external installer, native or under Proton,  *)
(* writes a mod folder for many minutes while the service goes on.  The    *)
(* service starts it, waits for it in a goroutine, cancels it, and records *)
(* the result in a marker file that every TTW launch is checked against.   *)
(*                                                                         *)
(* Installers run in process groups of their own: they survive a killed    *)
(* service.  What an installer writes, and the managed tools that use the  *)
(* same Proton prefix, are the environment.                                *)
(***************************************************************************)
EXTENDS Naturals, FiniteSets

CONSTANTS Install,     \* the install runs there may be, in all
          Mod,         \* folders of TTW_Mods
          Version,     \* versions of TTW: what the master file's hash tells
          Nobody,      \* no holder, no folder, no code
          MaxKills     \* bound: kills of the service

VARIABLES run,         \* each install as the service sees it
          proc,        \* each installer process
          handles,     \* ttwInstalls.m
          folder,      \* each mod folder: what it holds and who wrote it
          marker,      \* .gorganizer-ttw marker in the New Vegas folder
          bin,         \* mpi_installer, and the download beside it
          prefix,      \* the holder of the New Vegas prefix lock
          doubt,       \* HISTORY: mods begun anew, or written by two, since the marker
          overlap,     \* HISTORY: two downloads of mpi_installer overlapped
          kills

vars == <<run, proc, handles, folder, marker, bin, prefix, doubt, overlap, kills>>

files == <<folder, marker>>
past  == <<doubt, overlap, kills>>

Phases  == {"none", "checked", "fetching", "writing", "written", "ready", "started", "sent", "closed",
            "exited", "finished", "marked", "done", "refused", "lost"}
Codes   == {"ok", "failed"}
Stopped == Codes \cup {"none"}

TtwAssumption ==
    /\ Nobody \notin Install \cup Mod \cup Version \cup Codes
    /\ "tool" \notin Install /\ MaxKills \in Nat

TypeOK ==
    /\ run \in [Install -> [at : Phases, wine : BOOLEAN, mod : Mod \cup {Nobody}, version : Version \cup {Nobody},
                            channel : Codes \cup {Nobody}, exit : Codes \cup {"unknown", Nobody}, stop : 0..3]]
    /\ proc \in [Install -> Stopped \cup {"running"}]
    /\ handles \subseteq Install
    /\ folder \in [Mod -> [there : BOOLEAN, by : SUBSET Install, master : Version \cup {Nobody}, whole : Version \cup {Nobody}]]
    /\ marker \in [mod : Mod \cup {Nobody}, master : Version \cup {Nobody}]
    /\ bin \in [file : {"none", "part", "whole"}, tmp : {"none", "part", "whole"}]
    /\ prefix \in Install \cup {"tool", Nobody}
    /\ doubt \subseteq Mod /\ overlap \in BOOLEAN /\ kills \in 0..MaxKills

NoRun   == [at |-> "none", wine |-> FALSE, mod |-> Nobody, version |-> Nobody, channel |-> Nobody, exit |-> Nobody, stop |-> 0]
Absent  == [there |-> FALSE, by |-> {}, master |-> Nobody, whole |-> Nobody]
Empty   == [Absent EXCEPT !.there = TRUE]

Init ==
    /\ run = [i \in Install |-> NoRun]
    /\ proc = [i \in Install |-> "none"]
    /\ handles = {} /\ folder = [m \in Mod |-> Absent]
    /\ marker = [mod |-> Nobody, master |-> Nobody]
    /\ bin \in [file : {"none", "whole"}, tmp : {"none"}]
    /\ prefix = Nobody /\ doubt = {} /\ overlap = FALSE /\ kills = 0

At(i, from, to) == run[i].at = from /\ run' = [run EXCEPT ![i].at = to]

(***************************************************************************)
(* Starting an installer.                                                  *)
(***************************************************************************)
\* An install that was begun and has not ended, or whose installer runs on.
Writing(i, m) ==
    /\ run[i].mod = m
    /\ run[i].at \notin {"refused", "done", "lost"} \/ proc[i] = "running"

\* pruneFinishedTTWInstalls: the handles whose Done has been closed go.
Pruned == {i \in handles : run[i].at # "done"}

\* Nothing reserves the folder, or New Vegas, between here and the start.
Launch(i, wine, m, v) ==
    /\ run[i].at = "none"
    /\ folder[m] \in {Absent, Empty}
    /\ folder' = [folder EXCEPT ![m] = Empty]
    /\ handles' = Pruned
    /\ run' = [run EXCEPT ![i] = [NoRun EXCEPT !.at = "checked", !.wine = wine, !.mod = m, !.version = v]]
    /\ doubt' = IF marker.mod = m \/ \E j \in Install : Writing(j, m) THEN doubt \cup {m} ELSE doubt
    /\ UNCHANGED <<proc, marker, bin, prefix, overlap, kills>>

\* os.WriteFile truncates the one temporary file every launch would use.
Truncate(i) == bin' = [bin EXCEPT !.tmp = "part"]

\* The download fails, or has the wrong size or checksum.
NotFetched(i) == At(i, "fetching", "refused")

Fetch(i) ==
    /\ ~run[i].wine
    /\ \/ bin.file # "none" /\ At(i, "checked", "ready") /\ UNCHANGED <<bin, overlap>>
       \/ bin.file = "none" /\ At(i, "checked", "fetching") /\ UNCHANGED <<bin, overlap>>
       \/ NotFetched(i) /\ UNCHANGED <<bin, overlap>>
       \/ /\ At(i, "fetching", "writing")
          /\ Truncate(i)
          /\ overlap' = (overlap \/ \E j \in Install : run[j].at \in {"writing", "written"})
       \/ /\ At(i, "writing", "written")
          /\ bin' = IF bin.tmp = "none" THEN [bin EXCEPT !.file = "whole"] ELSE [bin EXCEPT !.tmp = "whole"]
          /\ UNCHANGED overlap
       \/ /\ bin.tmp # "none" /\ At(i, "written", "ready")
          /\ bin' = [file |-> bin.tmp, tmp |-> "none"] /\ UNCHANGED overlap
       \/ /\ bin.tmp = "none" /\ At(i, "written", "refused") /\ UNCHANGED <<bin, overlap>>
    /\ UNCHANGED <<proc, handles, files, prefix, doubt, kills>>

\* The handle exists once the process does: a launch that fails leaves none.
Begins(i) ==
    /\ proc' = [proc EXCEPT ![i] = "running"]
    /\ handles' = handles \cup {i}

StartNative(i) ==
    /\ ~run[i].wine
    /\ \/ bin.file = "whole" /\ At(i, "ready", "started") /\ Begins(i)
       \/ bin.file = "part" /\ At(i, "ready", "refused") /\ UNCHANGED <<proc, handles>>
    /\ UNCHANGED <<files, bin, prefix, past>>

\* Mutant: the lock is released when the call returns.
LockForCall(i) == UNCHANGED prefix

\* LaunchExternal waits for the prefix and keeps it until the process is gone.
LockForRun(i) == prefix' = i

StartWine(i) ==
    /\ run[i].wine /\ prefix = Nobody
    /\ \/ At(i, "checked", "started") /\ Begins(i) /\ LockForRun(i)
       \* No prefix, no Steam, no Proton, or the process did not start.
       \/ At(i, "checked", "refused") /\ UNCHANGED <<proc, handles, prefix>>
    /\ UNCHANGED <<files, bin, past>>

(***************************************************************************)
(* The installer, and its end.                                             *)
(***************************************************************************)
\* whole: the version a run finished, alone, in this folder.
Wrote(i, master, finished) ==
    folder' = [folder EXCEPT ![run[i].mod] =
        [there |-> TRUE, by |-> @.by \cup {i}, master |-> master,
         whole |-> IF finished /\ @.by \subseteq {i} THEN master ELSE Nobody]]

Whole(m) == folder[m].whole # Nobody /\ folder[m].whole = folder[m].master

Works(i) ==
    /\ proc[i] = "running"
    /\ \/ /\ \E v \in {folder[run[i].mod].master, run[i].version} : Wrote(i, v, FALSE)
          /\ UNCHANGED proc
       \/ Wrote(i, run[i].version, TRUE) /\ proc' = [proc EXCEPT ![i] = "ok"]
       \/ proc' = [proc EXCEPT ![i] = "failed"] /\ UNCHANGED folder
    /\ UNCHANGED <<run, handles, marker, bin, prefix, past>>

Gone(i) == proc[i] \in Codes

\* exitCh <- code, before Done is closed and the prefix released.
Send(i) ==
    /\ run[i].wine /\ Gone(i) /\ run[i].at = "started"
    /\ run' = [run EXCEPT ![i].at = "sent", ![i].channel = proc[i]]
    /\ UNCHANGED <<proc, handles, files, bin, prefix, past>>

\* Mutant: Done is closed first.
ClosedFirst(i) == Gone(i) /\ run[i].at \in {"started", "sent"}
Sent(i) == run[i].at = "sent"

Close(i) ==
    /\ run[i].wine /\ Sent(i)
    /\ run' = [run EXCEPT ![i].at = "closed"]
    /\ prefix' = Nobody
    /\ UNCHANGED <<proc, handles, files, bin, past>>

\* The waiting goroutine: the Proton one takes the code if it is there.
Collect(i) ==
    /\ \/ run[i].wine /\ run[i].at = "closed"
       \/ ~run[i].wine /\ run[i].at = "started" /\ Gone(i)
    /\ run' = [run EXCEPT ![i].at = "exited",
                          ![i].exit = IF ~run[i].wine THEN proc[i]
                                      ELSE IF run[i].channel = Nobody THEN "unknown" ELSE run[i].channel]
    /\ UNCHANGED <<proc, handles, files, bin, prefix, past>>

(***************************************************************************)
(* finalizeTTWInstall.                                                     *)
(***************************************************************************)
Succeeded(i) == run[i].exit = "ok"

\* The mod is enabled in every profile whose list can be read and saved (the
\* lists are left out here), and the result is stored.
Enable(i) == At(i, "marked", "done")

\* partialFileSHA256: the first and last 4 KB of the master tell the version.
MasterHash(m) == folder[m].master

Finalize(i) ==
    \* The marker is written atomically, or not and a warning logged.
    /\ \/ /\ At(i, "exited", "marked") /\ Succeeded(i)
          /\ \/ /\ marker' = [mod |-> run[i].mod, master |-> MasterHash(run[i].mod)]
                /\ doubt' = IF Whole(run[i].mod) /\ \A j \in Install \ {i} : ~Writing(j, run[i].mod) THEN doubt \ {run[i].mod} ELSE doubt
             \/ UNCHANGED <<marker, doubt>>
       \/ At(i, "exited", "done") /\ ~Succeeded(i) /\ UNCHANGED <<marker, doubt>>
       \/ Enable(i) /\ UNCHANGED <<marker, doubt>>
    /\ UNCHANGED <<proc, handles, folder, bin, prefix, overlap, kills>>

(***************************************************************************)
(* Cancelling: SIGTERM; under Proton then wineserver -k, then SIGKILL.     *)
(***************************************************************************)
Cancel(i) ==
    /\ i \in handles /\ run[i].stop = 0
    /\ run' = [run EXCEPT ![i].stop = 1]
    /\ UNCHANGED <<proc, handles, files, bin, prefix, past>>

\* Mutant: the third step is left out.
StopsAtTwo == 2
LastStep == 3

Escalate(i) ==
    /\ run[i].wine /\ run[i].stop \in 1..(LastStep - 1)
    /\ run[i].at \in {"started", "sent"}
    /\ run' = [run EXCEPT ![i].stop = @ + 1]
    /\ UNCHANGED <<proc, handles, files, bin, prefix, past>>

\* A signal ends it; only the last one must.
Dies(i) ==
    /\ run[i].stop > 0 /\ proc[i] = "running"
    /\ proc' = [proc EXCEPT ![i] = "failed"]
    /\ UNCHANGED <<run, handles, files, bin, prefix, past>>

Killed(i) == run[i].stop = 3 /\ Dies(i)

(***************************************************************************)
(* VerifyTTWIntegrity, and the world.                                      *)
(***************************************************************************)
\* What a TTW launch asks for.
Unchanged(m) == MasterHash(m) # Nobody /\ marker.master \in {MasterHash(m), Nobody}

World ==
    \* A managed tool reserves the prefix without waiting, and lets it go.
    \/ /\ \/ prefix = Nobody /\ prefix' = "tool"
          \/ prefix = "tool" /\ prefix' = Nobody
       /\ UNCHANGED <<run, proc, handles, files, bin, past>>
    \* The mod is removed, or its master changed by hand.
    \/ /\ \E m \in Mod :
            /\ folder[m].there
            /\ \/ folder' = [folder EXCEPT ![m] = Absent]
               \/ \E v \in Version : folder' = [folder EXCEPT ![m].master = v]
            /\ doubt' = IF \E i \in Install : Writing(i, m) THEN doubt \cup {m} ELSE doubt
       /\ UNCHANGED <<run, proc, handles, marker, bin, prefix, overlap, kills>>

Kill ==
    /\ kills < MaxKills /\ kills' = kills + 1
    /\ run' = [i \in Install |-> IF run[i].at \in {"none", "done", "refused"} THEN run[i] ELSE [run[i] EXCEPT !.at = "lost"]]
    /\ handles' = {} /\ prefix' = Nobody
    /\ UNCHANGED <<proc, files, bin, doubt, overlap>>

Next ==
    \/ \E i \in Install :
        \/ \E wine \in BOOLEAN, m \in Mod, v \in Version : Launch(i, wine, m, v)
        \/ Fetch(i) \/ StartNative(i) \/ StartWine(i)
        \/ Works(i) \/ Send(i) \/ Close(i) \/ Collect(i) \/ Finalize(i)
        \/ Cancel(i) \/ Escalate(i) \/ Dies(i)
    \/ World \/ Kill

Spec == Init /\ [][Next]_vars

-----------------------------------------------------------------------------
\* An install's result has the code its installer exited with: under Proton
\* the code travels through a channel that is looked at without waiting
\* (ttw.go:890), so it has to be sent before Done is closed.
ExitIsTrue == \A i \in Install : run[i].exit \in {Nobody, proc[i]}

\* One managed program at a time in the Proton prefix, from its start until it
\* is gone, as long as the service that started it lives
\* (proton_external.go:104); the prerequisites' run is outside of this.
OneInPrefix ==
    \A i \in Install : run[i].wine /\ proc[i] = "running" /\ run[i].at # "lost" => prefix = i

\* A TTW launch that passes the integrity check plays what one installer run
\* finished, and not what a failed, cancelled or orphaned one left; unless the
\* folder the marker names was begun anew, two runs wrote it, or it was changed
\* by hand while a run wrote it.
PlaysFinished ==
    LET m == marker.mod IN m \in Mod \ doubt /\ Unchanged(m) => Whole(m)

\* A mpi_installer that is found is whole, whatever kill came in between;
\* unless two launches downloaded it at once (they share the temporary file).
BinaryWhole == bin.file = "part" => overlap

\* What TTW is launched with is whole: all three.
TtwWhole == OneInPrefix /\ PlaysFinished /\ BinaryWhole

\* A cancelled installer under Proton that has not ended.
Stopping(i) == run[i].wine /\ run[i].stop > 0 /\ run[i].at \notin {"done", "lost"}
=============================================================================
