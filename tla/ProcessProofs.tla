---------------------------- MODULE ProcessProofs ----------------------------
(***************************************************************************)
(* Proofs about the processes and requests that race one another and are   *)
(* killed: the TTW installer (TtwInstall), whoever starts and stops the    *)
(* service (Supervisor), the offline commands (Offline), installing and    *)
(* launching a script extender (ScriptExtender), previewing and            *)
(* installing mods (Installs), and running a tool and collecting what it   *)
(* writes (ToolOutput).  For any number of installs, folders, services,    *)
(* windows, links, games, builds, clients, requests, files and faults.     *)
(*                                                                         *)
(* The components do not interact here; each has an instance whose         *)
(* constants and variables are the ones of the same name below, one        *)
(* inductive invariant, and the theorems that follow from it.              *)
(***************************************************************************)
EXTENDS Naturals, Sequences, FiniteSets, TLAPS

CONSTANTS
    Install, Mod, Version, Nobody,              \* TtwInstall
    Pid, Window, Link, None, MaxFaults,         \* Supervisor
    Game, MaxTurns,                             \* Offline
    File, Build, Absent,                        \* ScriptExtender
    Clients, Requests, Archive, Before,         \* Installs
    MaxPreviews, MaxOutcomes, MaxExtractions, MaxRequests,
    MaxKills,                                   \* TtwInstall, ScriptExtender and Installs
    Paths, OutFiles, Policies, Inodes, MaxRuns  \* ToolOutput

VARIABLES
    run, proc, handles, folder, marker, bin, prefix, doubt, overlap,
    service, asked, slock, nlock, window, link, added, stop, faults,
    game, holder, open, cmd, left, turns,
    disk, manifest, install, launch, mounted, playing,
    previews, order, doomed, mod, flag, outcome, did, op, made,
    live, dirty, farm, owned, data, scratch, stage, parked, runs, latest, overtaken,
    kills

Ttw        == INSTANCE TtwInstall
Supervisor == INSTANCE Supervisor
Offline    == INSTANCE Offline
Extender   == INSTANCE ScriptExtender
Installs   == INSTANCE Installs
Tools      == INSTANCE ToolOutput

-----------------------------------------------------------------------------
(***************************************************************************)
(* TtwInstall.  How far each install is says whether its process has ended *)
(* (Ordered), and so where its exit code is (Answered) and who holds the   *)
(* prefix (Held).  For what is played, a folder that is not in doubt has   *)
(* at most one install that writes it, and what the marker says of it is   *)
(* so (OneWrites): the integrity check alone would not do.                 *)
(***************************************************************************)
\* How far an install is, and whether its process has begun and has ended.
Ordered ==
    \A i \in Install :
        /\ run[i].at # "none" => run[i].mod \in Mod /\ run[i].version \in Version
        /\ run[i].at \in {"none", "checked", "fetching", "writing", "written", "ready", "refused"} => proc[i] = "none"
        /\ run[i].at = "started" => proc[i] # "none"
        /\ run[i].at \in {"sent", "closed", "exited", "finished", "marked", "done"} => Ttw!Gone(i)
        /\ run[i].at \in {"fetching", "writing", "written", "ready"} => ~run[i].wine

\* The exit code goes from the process through the channel to the install.
Answered ==
    \A i \in Install :
        /\ run[i].exit # Nobody => run[i].exit = proc[i] /\ Ttw!Gone(i)
        /\ run[i].wine /\ run[i].at \in {"sent", "closed"} => run[i].channel = proc[i]

\* The prefix is held from the start until the process is gone.
Held == \A i \in Install : run[i].wine /\ run[i].at \in {"started", "sent"} => prefix = i

\* Without an overlap one launch at a time downloads.
OneFetches ==
    ~overlap =>
        /\ \A i, j \in Install : run[i].at \in {"writing", "written"} /\ run[j].at \in {"writing", "written"} => i = j
        /\ \A i \in Install : run[i].at = "writing" => bin.tmp # "none"
        /\ \A i \in Install : run[i].at = "written" => bin.tmp = "whole"
        /\ bin.file # "part"

\* A folder that is not in doubt is one install's, and what the marker says of it is so.
MarkerIsTrue(m) ==
    marker.mod = m =>
        /\ marker.master # Nobody
        /\ folder[m].whole = marker.master \/ folder[m] = Ttw!Absent
OneWrites(m) ==
    /\ \A i, j \in Install : Ttw!Writing(i, m) /\ Ttw!Writing(j, m) => i = j
    /\ \A i \in Install : Ttw!Writing(i, m) =>
          /\ proc[i] \in {"none", "running"} => folder[m].by \subseteq {i}
          /\ proc[i] = "ok" => Ttw!Whole(m)
          /\ marker.mod = m => run[i].at = "marked"
    /\ MarkerIsTrue(m)
Undoubted == \A m \in Mod \ doubt : OneWrites(m)

TtwInv == Ttw!TypeOK /\ Ordered /\ Answered /\ Held /\ OneFetches /\ Undoubted

RunType    == [at : Ttw!Phases, wine : BOOLEAN, mod : Mod \cup {Nobody}, version : Version \cup {Nobody},
               channel : Ttw!Codes \cup {Nobody}, exit : Ttw!Codes \cup {"unknown", Nobody}, stop : 0..3]
FolderType == [there : BOOLEAN, by : SUBSET Install, master : Version \cup {Nobody}, whole : Version \cup {Nobody}]

LEMMA TtwInit == Ttw!TtwAssumption /\ Ttw!Init => TtwInv
<1> SUFFICES ASSUME Ttw!TtwAssumption, Ttw!Init PROVE TtwInv
  OBVIOUS
<1>1. Ttw!NoRun \in RunType /\ Ttw!Absent \in FolderType
  BY DEF Ttw!NoRun, Ttw!Absent, RunType, FolderType, Ttw!Phases
<1>2. Ttw!TypeOK
  <2>1. run \in [Install -> RunType] /\ folder \in [Mod -> FolderType] /\ proc \in [Install -> Ttw!Stopped \cup {"running"}]
    BY <1>1 DEF Ttw!Init, Ttw!Stopped
  <2>2. marker \in [mod : Mod \cup {Nobody}, master : Version \cup {Nobody}] /\ prefix = Nobody /\ handles = {}
        /\ bin \in [file : {"none", "part", "whole"}, tmp : {"none", "part", "whole"}] /\ doubt = {}
        /\ kills \in 0..MaxKills
    BY DEF Ttw!Init, Ttw!TtwAssumption
  <2>3. overlap \in BOOLEAN
    BY Zenon DEF Ttw!Init
  <2> QED BY <2>1, <2>2, <2>3, Zenon DEF Ttw!TypeOK, RunType, FolderType
<1>3. \A i \in Install : run[i] = Ttw!NoRun /\ proc[i] = "none"
  BY DEF Ttw!Init
<1>4. Ordered /\ Answered /\ Held /\ OneFetches
  BY <1>3 DEF Ttw!Init, Ttw!NoRun, Ordered, Answered, Held, OneFetches
<1>5. Undoubted
  <2> SUFFICES ASSUME NEW m \in Mod PROVE OneWrites(m)
    BY DEF Undoubted
  <2>1. \A i \in Install : ~Ttw!Writing(i, m)
    BY <1>3 DEF Ttw!Writing, Ttw!NoRun, Ttw!TtwAssumption
  <2>2. marker.mod # m
    BY DEF Ttw!Init, Ttw!TtwAssumption
  <2> QED BY <2>1, <2>2 DEF OneWrites, MarkerIsTrue
<1> QED BY <1>2, <1>4, <1>5 DEF TtwInv

\* Steps of one install that only change how far it is.
LEMMA TtwFetch ==
  ASSUME Ttw!TtwAssumption, TtwInv, NEW i \in Install, Ttw!Fetch(i)
  PROVE  TtwInv'
<1> USE DEF TtwInv
<1>1. /\ run \in [Install -> RunType] /\ run[i] \in RunType
      /\ bin \in [file : {"none", "part", "whole"}, tmp : {"none", "part", "whole"}]
  BY DEF Ttw!TypeOK, RunType
<1>2. ~run[i].wine /\ UNCHANGED <<proc, handles, Ttw!files, prefix, doubt, kills>>
  BY DEF Ttw!Fetch
<1>3. PICK from \in {"checked", "fetching", "writing", "written"}, to \in {"ready", "fetching", "refused", "writing", "written"} :
        Ttw!At(i, from, to)
  BY DEF Ttw!Fetch, Ttw!NotFetched
<1>4. run' = [run EXCEPT ![i] = [run[i] EXCEPT !.at = to]] /\ run[i].at = from
  BY <1>1, <1>3 DEF Ttw!At
<1>5. [run[i] EXCEPT !.at = to] \in RunType
  BY <1>1 DEF RunType, Ttw!Phases
<1>6. run' \in [Install -> RunType] /\ \A j \in Install \ {i} : run'[j] = run[j]
  BY <1>1, <1>4, <1>5
<1>7. /\ run'[i].at = to /\ run'[i].mod = run[i].mod /\ run'[i].version = run[i].version /\ run'[i].wine = run[i].wine
      /\ run'[i].channel = run[i].channel /\ run'[i].exit = run[i].exit
  BY <1>1, <1>4 DEF RunType
<1>8. Ttw!TypeOK'
  <2>1. bin' \in [file : {"none", "part", "whole"}, tmp : {"none", "part", "whole"}]
    BY <1>1 DEF Ttw!Fetch, Ttw!Truncate
  <2>2. overlap' \in BOOLEAN
    <3>1. overlap' = overlap \/ overlap' = (overlap \/ \E j \in Install : run[j].at \in {"writing", "written"})
      BY DEF Ttw!Fetch
    <3> QED BY <3>1, Zenon DEF Ttw!TypeOK
  <2> QED BY <1>2, <1>6, <2>1, <2>2 DEF Ttw!TypeOK, RunType, Ttw!files
<1>9. Ordered'
  BY <1>2, <1>3, <1>4, <1>6, <1>7 DEF Ordered, Ttw!Gone
<1>10. Answered' /\ Held'
  BY <1>2, <1>3, <1>4, <1>6, <1>7 DEF Answered, Held, Ttw!Gone
<1>11. OneFetches'
  <2>1. CASE to \in {"ready", "fetching", "refused"} /\ UNCHANGED <<bin, overlap>>
    BY <1>6, <1>7, <2>1 DEF OneFetches
  <2>2. CASE /\ Ttw!At(i, "fetching", "writing") /\ Ttw!Truncate(i)
             /\ overlap' = (overlap \/ \E j \in Install : run[j].at \in {"writing", "written"})
    <3>1. run'[i].at = "writing" /\ bin'.tmp = "part" /\ bin'.file = bin.file
      BY <1>1, <2>2 DEF Ttw!At, Ttw!Truncate, RunType
    <3> QED BY <1>6, <2>2, <3>1 DEF OneFetches
  <2>3. CASE /\ Ttw!At(i, "writing", "written") /\ UNCHANGED overlap
             /\ bin' = IF bin.tmp = "none" THEN [bin EXCEPT !.file = "whole"] ELSE [bin EXCEPT !.tmp = "whole"]
    <3>1. run'[i].at = "written" /\ run[i].at = "writing"
      BY <1>1, <2>3 DEF Ttw!At, RunType
    <3> QED BY <1>1, <1>6, <2>3, <3>1 DEF OneFetches
  <2>4. CASE /\ Ttw!At(i, "written", "ready") /\ bin' = [file |-> bin.tmp, tmp |-> "none"] /\ UNCHANGED overlap
    <3>1. run'[i].at = "ready" /\ run[i].at = "written"
      BY <1>1, <2>4 DEF Ttw!At, RunType
    <3> QED BY <1>6, <2>4, <3>1 DEF OneFetches
  <2>5. \/ to \in {"ready", "fetching", "refused"} /\ UNCHANGED <<bin, overlap>>
        \/ /\ Ttw!At(i, "fetching", "writing") /\ Ttw!Truncate(i)
           /\ overlap' = (overlap \/ \E j \in Install : run[j].at \in {"writing", "written"})
        \/ /\ Ttw!At(i, "writing", "written") /\ UNCHANGED overlap
           /\ bin' = IF bin.tmp = "none" THEN [bin EXCEPT !.file = "whole"] ELSE [bin EXCEPT !.tmp = "whole"]
        \/ Ttw!At(i, "written", "ready") /\ bin' = [file |-> bin.tmp, tmp |-> "none"] /\ UNCHANGED overlap
    <3>1. \A f, t \in Ttw!Phases : Ttw!At(i, f, t) => t = to
      BY <1>1, <1>7 DEF Ttw!At, RunType
    <3> QED BY <3>1 DEF Ttw!Fetch, Ttw!NotFetched, Ttw!Phases
  <2> QED BY <2>1, <2>2, <2>3, <2>4, <2>5
<1>12. Undoubted'
  <2>1. \A m, j : j \in Install /\ Ttw!Writing(j, m)' => Ttw!Writing(j, m)
    BY <1>2, <1>3, <1>4, <1>6, <1>7 DEF Ttw!Writing
  <2>2. \A j \in Install : run[j].at = "marked" => run'[j].at = "marked"
    BY <1>3, <1>4, <1>6
  <2> QED BY <1>2, <2>1, <2>2 DEF Undoubted, OneWrites, MarkerIsTrue, Ttw!Whole, Ttw!files
<1> QED BY <1>8, <1>9, <1>10, <1>11, <1>12

\* A step that leaves the folders, the marker and the download alone, and where
\* no more installs write than before.
LEMMA TtwRun ==
  ASSUME Ttw!TtwAssumption, TtwInv, NEW i \in Install, NEW r \in RunType,
         run' = [run EXCEPT ![i] = r], UNCHANGED <<Ttw!files, bin, Ttw!past>>,
         r.mod = run[i].mod /\ r.version = run[i].version /\ r.wine = run[i].wine,
         run[i].at \notin {"none", "refused", "done", "lost", "marked"} \/ r.at = run[i].at,
         r.at \in {"none", "fetching", "writing", "written"} => r.at = run[i].at,
         proc' \in [Install -> Ttw!Stopped \cup {"running"}], \A j \in Install \ {i} : proc'[j] = proc[j],
         proc'[i] = proc[i] \/ (proc[i] = "none" /\ proc'[i] = "running" /\ run[i].at \in {"ready", "checked"}),
         handles' \subseteq Install, prefix' \in Install \cup {"tool", Nobody},
         Ordered', Answered', Held'
  PROVE  TtwInv'
<1> USE DEF TtwInv
<1>1. run \in [Install -> RunType]
  BY DEF Ttw!TypeOK, RunType
<1>2. run' \in [Install -> RunType] /\ run'[i] = r /\ \A j \in Install \ {i} : run'[j] = run[j]
  BY <1>1
<1>3. Ttw!TypeOK'
  BY <1>2 DEF Ttw!TypeOK, RunType, Ttw!files, Ttw!past
<1>4. OneFetches'
  BY <1>2 DEF OneFetches, Ttw!past
<1>5. Undoubted'
  <2>1. ASSUME NEW m \in Mod, NEW j \in Install, Ttw!Writing(j, m)'
        PROVE  Ttw!Writing(j, m)
    BY <1>2, <2>1 DEF Ttw!Writing, Ordered
  <2>2. \A j \in Install : run[j].at = "marked" => run'[j].at = "marked"
    BY <1>2
  <2>3. \A j \in Install : proc'[j] \in {"none", "running"} => proc[j] \in {"none", "running"}
    OBVIOUS
  <2>4. \A j \in Install : proc'[j] = "ok" => proc[j] = "ok"
    OBVIOUS
  <2> QED BY <2>1, <2>2, <2>3, <2>4 DEF Undoubted, OneWrites, MarkerIsTrue, Ttw!Whole, Ttw!files,
     Ttw!past
<1> QED BY <1>3, <1>4, <1>5

LEMMA TtwStarts ==
  ASSUME Ttw!TtwAssumption, TtwInv, NEW i \in Install, Ttw!StartNative(i) \/ Ttw!StartWine(i)
  PROVE  TtwInv'
<1> USE DEF TtwInv
<1>1. run \in [Install -> RunType] /\ run[i] \in RunType /\ proc \in [Install -> Ttw!Stopped \cup {"running"}]
  BY DEF Ttw!TypeOK, RunType
<1>2. PICK to \in {"started", "refused"} :
        /\ Ttw!At(i, "ready", to) \/ Ttw!At(i, "checked", to)
        /\ IF to = "started" THEN Ttw!Begins(i) ELSE UNCHANGED <<proc, handles>>
        /\ IF to = "started" /\ run[i].wine THEN prefix' = i /\ prefix = Nobody ELSE prefix' = prefix
        /\ UNCHANGED <<Ttw!files, bin, Ttw!past>>
  BY DEF Ttw!StartNative, Ttw!StartWine, Ttw!LockForRun
<1> DEFINE r == [run[i] EXCEPT !.at = to]
<1>3. run' = [run EXCEPT ![i] = r] /\ run[i].at \in {"ready", "checked"}
  BY <1>1, <1>2 DEF Ttw!At
<1>4. /\ r \in RunType /\ r.at = to /\ r.mod = run[i].mod /\ r.version = run[i].version /\ r.wine = run[i].wine
      /\ r.channel = run[i].channel /\ r.exit = run[i].exit
  BY <1>1 DEF RunType, Ttw!Phases
<1> HIDE DEF r
<1>5. run'[i] = r /\ \A j \in Install \ {i} : run'[j] = run[j]
  BY <1>1, <1>3
<1>6. proc[i] = "none" /\ proc' \in [Install -> Ttw!Stopped \cup {"running"}] /\ handles' \subseteq Install
      /\ proc'[i] = (IF to = "started" THEN "running" ELSE "none") /\ \A j \in Install \ {i} : proc'[j] = proc[j]
  BY <1>1, <1>2, <1>3 DEF Ordered, Ttw!Begins, Ttw!Stopped, Ttw!TypeOK
<1>7. prefix' \in Install \cup {"tool", Nobody}
  BY <1>2 DEF Ttw!TypeOK
<1>8. Ordered'
  BY <1>3, <1>4, <1>5, <1>6 DEF Ordered, Ttw!Gone
<1>9. Answered'
  BY <1>3, <1>4, <1>5, <1>6 DEF Answered, Ttw!Gone, Ttw!Codes
<1>10. Held'
  BY <1>2, <1>3, <1>4, <1>5 DEF Held, Ttw!TtwAssumption
<1> QED BY <1>2, <1>3, <1>4, <1>6, <1>7, <1>8, <1>9, <1>10, TtwRun

\* The installer's process ends, and the goroutine that waits for it goes on.
LEMMA TtwEnds ==
  ASSUME Ttw!TtwAssumption, TtwInv, NEW i \in Install, Ttw!Send(i) \/ Ttw!Close(i) \/ Ttw!Collect(i) \/ Ttw!Cancel(i) \/ Ttw!Escalate(i)
  PROVE  TtwInv'
<1> USE DEF TtwInv
<1>1. run \in [Install -> RunType] /\ run[i] \in RunType /\ proc \in [Install -> Ttw!Stopped \cup {"running"}]
      /\ handles \subseteq Install /\ prefix \in Install \cup {"tool", Nobody}
  BY DEF Ttw!TypeOK, RunType
<1>2. UNCHANGED <<proc, handles, Ttw!files, bin, Ttw!past>>
  BY DEF Ttw!Send, Ttw!Close, Ttw!Collect, Ttw!Cancel, Ttw!Escalate
<1>3. CASE Ttw!Send(i)
  <2> DEFINE r == [run[i] EXCEPT !.at = "sent", !.channel = proc[i]]
  <2>1. run[i].wine /\ Ttw!Gone(i) /\ run[i].at = "started" /\ run' = [run EXCEPT ![i] = r] /\ prefix' = prefix
    BY <1>1, <1>3 DEF Ttw!Send
  <2>2. /\ r \in RunType /\ r.at = "sent" /\ r.mod = run[i].mod /\ r.version = run[i].version /\ r.wine = run[i].wine
        /\ r.channel = proc[i] /\ r.exit = run[i].exit
    BY <1>1, <2>1 DEF RunType, Ttw!Phases, Ttw!Gone
  <2> HIDE DEF r
  <2>3. run'[i] = r /\ \A j \in Install \ {i} : run'[j] = run[j]
    BY <1>1, <2>1
  <2>4. Ordered' /\ Answered' /\ Held'
    BY <1>2, <2>1, <2>2, <2>3 DEF Ordered, Answered, Held, Ttw!Gone
  <2> QED BY <1>1, <1>2, <2>1, <2>2, <2>4, TtwRun
<1>4. CASE Ttw!Close(i)
  <2> DEFINE r == [run[i] EXCEPT !.at = "closed"]
  <2>1. run[i].wine /\ run[i].at = "sent" /\ run' = [run EXCEPT ![i] = r] /\ prefix' = Nobody
    BY <1>1, <1>4 DEF Ttw!Close, Ttw!Sent
  <2>2. /\ r \in RunType /\ r.at = "closed" /\ r.mod = run[i].mod /\ r.version = run[i].version /\ r.wine = run[i].wine
        /\ r.channel = run[i].channel /\ r.exit = run[i].exit
    BY <1>1, <2>1 DEF RunType, Ttw!Phases
  <2> HIDE DEF r
  <2>3. run'[i] = r /\ \A j \in Install \ {i} : run'[j] = run[j]
    BY <1>1, <2>1
  <2>4. Ordered' /\ Answered'
    BY <1>2, <2>1, <2>2, <2>3 DEF Ordered, Answered, Ttw!Gone
  <2>5. Held'
    BY <2>1, <2>2, <2>3 DEF Held
  <2> QED BY <1>1, <1>2, <2>1, <2>2, <2>4, <2>5, TtwRun
<1>5. CASE Ttw!Collect(i)
  <2> DEFINE code == IF ~run[i].wine THEN proc[i] ELSE IF run[i].channel = Nobody THEN "unknown" ELSE run[i].channel
             r == [run[i] EXCEPT !.at = "exited", !.exit = code]
  <2>1. run' = [run EXCEPT ![i] = r] /\ prefix' = prefix /\ run[i].at \in {"started", "closed"} /\ Ttw!Gone(i)
    BY <1>1, <1>5 DEF Ttw!Collect, Ordered
  <2>2. code = proc[i]
    BY <1>5, <2>1 DEF Ttw!Collect, Answered, Ttw!Gone, Ttw!TtwAssumption
  <2>3. /\ r \in RunType /\ r.at = "exited" /\ r.mod = run[i].mod /\ r.version = run[i].version /\ r.wine = run[i].wine
        /\ r.exit = proc[i]
    BY <1>1, <2>1, <2>2 DEF RunType, Ttw!Phases, Ttw!Gone
  <2> HIDE DEF r, code
  <2>4. run'[i] = r /\ \A j \in Install \ {i} : run'[j] = run[j]
    BY <1>1, <2>1
  <2>5. Ordered' /\ Answered' /\ Held'
    BY <1>2, <2>1, <2>3, <2>4 DEF Ordered, Answered, Held, Ttw!Gone
  <2> QED BY <1>1, <1>2, <2>1, <2>3, <2>5, TtwRun
<1>6. CASE Ttw!Cancel(i) \/ Ttw!Escalate(i)
  <2>1. PICK s \in 0..3 : run' = [run EXCEPT ![i] = [run[i] EXCEPT !.stop = s]] /\ prefix' = prefix
    <3>1. CASE Ttw!Cancel(i)
      BY <1>1, <3>1 DEF Ttw!Cancel
    <3>2. CASE Ttw!Escalate(i)
      <4>1. run' = [run EXCEPT ![i] = [run[i] EXCEPT !.stop = run[i].stop + 1]] /\ run[i].stop + 1 \in 0..3
        BY <1>1, <3>2 DEF Ttw!Escalate, Ttw!LastStep, RunType
      <4> QED BY <3>2, <4>1 DEF Ttw!Escalate
    <3> QED BY <1>6, <3>1, <3>2
  <2> DEFINE r == [run[i] EXCEPT !.stop = s]
  <2>2. /\ r \in RunType /\ r.at = run[i].at /\ r.mod = run[i].mod /\ r.version = run[i].version /\ r.wine = run[i].wine
        /\ r.channel = run[i].channel /\ r.exit = run[i].exit
    BY <1>1 DEF RunType
  <2>3. run' = [run EXCEPT ![i] = r]
    BY <2>1
  <2> HIDE DEF r
  <2>4. run'[i] = r /\ \A j \in Install \ {i} : run'[j] = run[j]
    BY <1>1, <2>3
  <2>5. Ordered' /\ Answered' /\ Held'
    BY <1>2, <2>1, <2>2, <2>4 DEF Ordered, Answered, Held, Ttw!Gone
  <2> QED BY <1>1, <1>2, <2>1, <2>2, <2>3, <2>5, TtwRun
<1> QED BY <1>3, <1>4, <1>5, <1>6

\* A launch checks its folder, which it then writes alone or puts in doubt.
LEMMA TtwLaunches ==
  ASSUME Ttw!TtwAssumption, TtwInv, NEW i \in Install, NEW wine \in BOOLEAN, NEW m \in Mod, NEW v \in Version,
         Ttw!Launch(i, wine, m, v)
  PROVE  TtwInv'
<1> USE DEF TtwInv
<1>1. run \in [Install -> RunType] /\ folder \in [Mod -> FolderType]
  BY DEF Ttw!TypeOK, RunType, FolderType
<1> DEFINE r == [Ttw!NoRun EXCEPT !.at = "checked", !.wine = wine, !.mod = m, !.version = v]
<1>2. /\ run[i].at = "none" /\ folder[m] \in {Ttw!Absent, Ttw!Empty} /\ run' = [run EXCEPT ![i] = r]
      /\ folder' = [folder EXCEPT ![m] = Ttw!Empty] /\ handles' \subseteq Install
      /\ doubt' = IF marker.mod = m \/ \E j \in Install : Ttw!Writing(j, m) THEN doubt \cup {m} ELSE doubt
      /\ UNCHANGED <<proc, marker, bin, prefix, overlap, kills>>
  BY DEF Ttw!Launch, Ttw!Pruned, Ttw!TypeOK
<1>3. /\ r \in RunType /\ r.at = "checked" /\ r.mod = m /\ r.version = v /\ r.exit = Nobody
  <2>1. Ttw!NoRun \in RunType /\ Ttw!NoRun.exit = Nobody
    BY DEF Ttw!NoRun, RunType, Ttw!Phases
  <2>2. /\ "checked" \in Ttw!Phases /\ wine \in BOOLEAN /\ m \in Mod \cup {Nobody} /\ v \in Version \cup {Nobody}
    BY DEF Ttw!Phases
  <2> HIDE DEF Ttw!Phases
  <2> QED BY <2>1, <2>2 DEF RunType
<1> HIDE DEF r
<1>4. run'[i] = r /\ run' \in [Install -> RunType] /\ \A j \in Install \ {i} : run'[j] = run[j]
  BY <1>1, <1>2, <1>3
<1>5. Ttw!Empty \in FolderType /\ Ttw!Empty.by = {}
  BY DEF Ttw!Empty, Ttw!Absent, FolderType
<1>6. folder' \in [Mod -> FolderType] /\ folder'[m] = Ttw!Empty /\ \A k \in Mod \ {m} : folder'[k] = folder[k]
  BY <1>1, <1>2, <1>5
<1>7. Ttw!TypeOK'
  BY <1>2, <1>4, <1>6 DEF Ttw!TypeOK, RunType, FolderType
<1>8. Ordered' /\ Answered' /\ Held' /\ OneFetches'
  BY <1>2, <1>3, <1>4 DEF Ordered, Answered, Held, OneFetches, Ttw!Gone
<1>9. Undoubted'
  <2> SUFFICES ASSUME NEW k \in Mod, k \notin doubt' PROVE OneWrites(k)'
    BY DEF Undoubted
  <2>1. k \notin doubt /\ OneWrites(k)
    BY <1>2 DEF Undoubted
  <2>2. CASE k = m
    <3>1. marker.mod # m /\ \A j \in Install : ~Ttw!Writing(j, m)
      BY <1>2, <2>2
    <3>2. \A j \in Install : Ttw!Writing(j, m)' => j = i
      BY <1>2, <1>4, <3>1 DEF Ttw!Writing
    <3>3. proc'[i] = "none"
      BY <1>2 DEF Ordered
    <3> QED BY <1>2, <1>5, <1>6, <2>2, <3>1, <3>2, <3>3 DEF OneWrites, MarkerIsTrue
  <2>3. CASE k # m
    <3>1. \A j \in Install : Ttw!Writing(j, k)' => Ttw!Writing(j, k) /\ j # i
      BY <1>2, <1>3, <1>4, <2>3 DEF Ttw!Writing
    <3> QED BY <1>2, <1>4, <1>6, <2>1, <2>3, <3>1 DEF OneWrites, MarkerIsTrue, Ttw!Whole
  <2> QED BY <2>2, <2>3
<1> QED BY <1>7, <1>8, <1>9

\* An installer writes into its folder, or ends.
LEMMA TtwWorks ==
  ASSUME Ttw!TtwAssumption, TtwInv, NEW i \in Install, Ttw!Works(i) \/ Ttw!Dies(i)
  PROVE  TtwInv'
<1> USE DEF TtwInv
<1>1. run \in [Install -> RunType] /\ folder \in [Mod -> FolderType] /\ proc \in [Install -> Ttw!Stopped \cup {"running"}]
  BY DEF Ttw!TypeOK, RunType, FolderType
<1>2. proc[i] = "running" /\ UNCHANGED <<run, handles, marker, bin, prefix, Ttw!past>>
  BY DEF Ttw!Works, Ttw!Dies, Ttw!files
<1>3. run[i].at \in {"started", "lost"} /\ run[i].mod \in Mod /\ run[i].version \in Version
  <2>1. run[i] \in RunType
    BY <1>1
  <2>2. run[i].at \in Ttw!Phases
    BY <2>1 DEF RunType
  <2> QED BY <1>2, <2>2 DEF Ordered, Ttw!Phases, Ttw!Gone, Ttw!Codes
<1> DEFINE m == run[i].mod
<1>4. PICK s \in {"running", "ok", "failed"}, f \in FolderType :
        /\ proc' = [proc EXCEPT ![i] = s] /\ folder' = [folder EXCEPT ![m] = f]
        /\ \/ f = folder[m] /\ s = "failed"
           \/ s = "running" /\ f.by = folder[m].by \cup {i}
           \/ s = "ok" /\ (folder[m].by \subseteq {i} => f.whole = run[i].version /\ f.master = run[i].version)
  <2>1. folder[m] \in FolderType /\ run[i].version \in Version
    BY <1>1, <1>3
  <2>2. ASSUME NEW master \in Version \cup {Nobody}, NEW finished \in BOOLEAN, Ttw!Wrote(i, master, finished)
        PROVE  \E f \in FolderType :
                  /\ folder' = [folder EXCEPT ![m] = f] /\ f.by = folder[m].by \cup {i}
                  /\ finished /\ folder[m].by \subseteq {i} => f.whole = master /\ f.master = master
    <3> DEFINE g == [there |-> TRUE, by |-> folder[m].by \cup {i}, master |-> master,
                     whole |-> IF finished /\ folder[m].by \subseteq {i} THEN master ELSE Nobody]
    <3>1. folder' = [folder EXCEPT ![m] = g]
      BY <1>1, <1>3, <2>2 DEF Ttw!Wrote
    <3>2. g \in FolderType
      BY <2>1 DEF FolderType
    <3> QED BY <3>1, <3>2
  <2>3. CASE proc' = [proc EXCEPT ![i] = "failed"] /\ UNCHANGED folder
    BY <1>1, <1>3, <2>1, <2>3
  <2>4. CASE \E v \in {folder[m].master, run[i].version} : Ttw!Wrote(i, v, FALSE) /\ UNCHANGED proc
    <3>1. PICK v \in Version \cup {Nobody} : Ttw!Wrote(i, v, FALSE) /\ UNCHANGED proc
      BY <2>1, <2>4 DEF FolderType
    <3>2. proc' = [proc EXCEPT ![i] = "running"]
      BY <1>1, <1>2, <3>1
    <3> QED BY <2>2, <3>1, <3>2
  <2>5. CASE Ttw!Wrote(i, run[i].version, TRUE) /\ proc' = [proc EXCEPT ![i] = "ok"]
    BY <2>1, <2>2, <2>5
  <2> QED BY <2>3, <2>4, <2>5 DEF Ttw!Works, Ttw!Dies, Ttw!files
<1>5. /\ proc' \in [Install -> Ttw!Stopped \cup {"running"}] /\ proc'[i] = s /\ \A j \in Install \ {i} : proc'[j] = proc[j]
      /\ folder' \in [Mod -> FolderType] /\ folder'[m] = f /\ \A k \in Mod \ {m} : folder'[k] = folder[k]
  BY <1>1, <1>3, <1>4 DEF Ttw!Stopped, Ttw!Codes
<1>6. Ttw!TypeOK'
  BY <1>2, <1>5 DEF Ttw!TypeOK, FolderType, Ttw!past
<1>7. Ordered' /\ Answered' /\ Held' /\ OneFetches'
  <2>1. run[i].exit = Nobody
    BY <1>2 DEF Answered, Ttw!Gone, Ttw!Codes
  <2> QED BY <1>2, <1>3, <1>5, <2>1 DEF Ordered, Answered, Held, OneFetches, Ttw!Gone, Ttw!past
<1>8. Undoubted'
  <2> SUFFICES ASSUME NEW k \in Mod, k \notin doubt PROVE OneWrites(k)'
    BY <1>2 DEF Undoubted, Ttw!past
  <2>1. OneWrites(k)
    BY DEF Undoubted
  <2>2. \A j \in Install : Ttw!Writing(j, k)' => Ttw!Writing(j, k)
    BY <1>2, <1>5 DEF Ttw!Writing
  <2>3. CASE k = m
    <3>1. Ttw!Writing(i, k)
      BY <1>2, <2>3 DEF Ttw!Writing
    <3>2. \A j \in Install : Ttw!Writing(j, k)' => j = i
      BY <2>1, <2>2, <3>1 DEF OneWrites
    <3>3. marker.mod # k
      BY <1>3, <2>1, <3>1 DEF OneWrites
    <3>4. folder[k].by \subseteq {i}
      BY <1>2, <2>1, <3>1 DEF OneWrites
    <3>5. s = "ok" => Ttw!Whole(k)'
      BY <1>3, <1>4, <1>5, <2>3, <3>4 DEF Ttw!Whole, Ttw!TtwAssumption
    <3>6. s = "running" => f.by \subseteq {i}
      BY <1>4, <2>3, <3>4
    <3> QED BY <1>2, <1>5, <2>3, <3>2, <3>3, <3>5, <3>6 DEF OneWrites, MarkerIsTrue
  <2>4. CASE k # m
    <3>1. \A j \in Install : Ttw!Writing(j, k)' => j # i /\ Ttw!Writing(j, k)
      BY <1>2, <2>2, <2>4 DEF Ttw!Writing
    <3> QED BY <1>2, <1>5, <2>1, <2>4, <3>1 DEF OneWrites, MarkerIsTrue, Ttw!Whole
  <2> QED BY <2>3, <2>4
<1> QED BY <1>6, <1>7, <1>8

\* The result is recorded: what the marker then says of the folder is so, or in doubt.
LEMMA TtwFinalizes ==
  ASSUME Ttw!TtwAssumption, TtwInv, NEW i \in Install, Ttw!Finalize(i)
  PROVE  TtwInv'
<1> USE DEF TtwInv
<1>1. run \in [Install -> RunType] /\ run[i] \in RunType /\ folder \in [Mod -> FolderType]
  BY DEF Ttw!TypeOK, RunType, FolderType
<1>2. UNCHANGED <<proc, handles, folder, bin, prefix, overlap, kills>>
  BY DEF Ttw!Finalize
<1>3. PICK to \in {"marked", "done"} : Ttw!At(i, IF to = "marked" THEN "exited" ELSE run[i].at, to) /\ run[i].at \in {"exited", "marked"}
  BY <1>1 DEF Ttw!Finalize, Ttw!Enable, Ttw!At
<1> DEFINE r == [run[i] EXCEPT !.at = to]
           m == run[i].mod
<1>4. run' = [run EXCEPT ![i] = r]
  BY <1>1, <1>3 DEF Ttw!At
<1>5. /\ r \in RunType /\ r.at = to /\ r.mod = run[i].mod /\ r.version = run[i].version /\ r.wine = run[i].wine
      /\ r.channel = run[i].channel /\ r.exit = run[i].exit
  BY <1>1 DEF RunType, Ttw!Phases
<1> HIDE DEF r
<1>6. run'[i] = r /\ run' \in [Install -> RunType] /\ \A j \in Install \ {i} : run'[j] = run[j]
  BY <1>1, <1>4, <1>5
<1>7. m \in Mod /\ Ttw!Gone(i)
  BY <1>3 DEF Ordered
<1>8. \/ /\ to = "marked" /\ Ttw!Succeeded(i) /\ marker' = [mod |-> m, master |-> folder[m].master]
         /\ doubt' = IF Ttw!Whole(m) /\ \A j \in Install \ {i} : ~Ttw!Writing(j, m) THEN doubt \ {m} ELSE doubt
      \/ UNCHANGED <<marker, doubt>> /\ (to = "done" \/ run[i].at = "exited")
  <2>1. to = "marked" => run'[i].at = "marked"
    BY <1>5, <1>6
  <2>2. Ttw!At(i, "exited", "done") \/ Ttw!Enable(i) => to = "done"
    BY <1>1, <1>5, <1>6 DEF Ttw!At, Ttw!Enable, RunType
  <2>3. Ttw!At(i, "exited", "marked") => to = "marked" /\ run[i].at = "exited"
    BY <1>1, <1>5, <1>6 DEF Ttw!At, RunType
  <2> QED BY <1>3, <2>2, <2>3 DEF Ttw!Finalize, Ttw!MasterHash
<1>9. Ttw!TypeOK'
  <2>1. folder[m] \in FolderType
    BY <1>1, <1>7
  <2>2. marker' \in [mod : Mod \cup {Nobody}, master : Version \cup {Nobody}] /\ doubt' \subseteq Mod
    BY <1>7, <1>8, <2>1 DEF Ttw!TypeOK, FolderType
  <2> QED BY <1>2, <1>6, <2>2 DEF Ttw!TypeOK, RunType
<1>10. Ordered' /\ Answered' /\ Held' /\ OneFetches'
  BY <1>2, <1>3, <1>5, <1>6, <1>7 DEF Ordered, Answered, Held, OneFetches, Ttw!Gone
<1>11. \A k \in Mod, j \in Install : Ttw!Writing(j, k)' => Ttw!Writing(j, k) /\ (j = i => to = "marked")
  BY <1>2, <1>3, <1>5, <1>6, <1>7 DEF Ttw!Writing, Ttw!Gone, Ttw!Codes
<1>12. Ttw!Writing(i, m)
  BY <1>3 DEF Ttw!Writing
<1>13. Undoubted'
  <2> SUFFICES ASSUME NEW k \in Mod, k \notin doubt' PROVE OneWrites(k)'
    BY DEF Undoubted
  <2>1. CASE UNCHANGED <<marker, doubt>> /\ (to = "done" \/ run[i].at = "exited")
    <3>1. OneWrites(k)
      BY <2>1 DEF Undoubted
    <3>2. \A j \in Install : Ttw!Writing(j, k)' /\ marker.mod = k => run'[j].at = "marked"
      BY <1>5, <1>6, <1>11, <3>1 DEF OneWrites
    <3> QED BY <1>2, <1>11, <2>1, <3>1, <3>2 DEF OneWrites, MarkerIsTrue, Ttw!Whole
  <2>2. CASE /\ to = "marked" /\ Ttw!Succeeded(i) /\ marker' = [mod |-> m, master |-> folder[m].master]
             /\ doubt' = IF Ttw!Whole(m) /\ \A j \in Install \ {i} : ~Ttw!Writing(j, m) THEN doubt \ {m} ELSE doubt
    <3>1. CASE k = m
      <4>1. proc[i] = "ok"
        BY <2>2 DEF Ttw!Succeeded, Answered, Ttw!TtwAssumption, Ttw!Codes
      <4>2. Ttw!Whole(m) /\ \A j \in Install : Ttw!Writing(j, m) => j = i
        <5>1. CASE k \in doubt
          BY <2>2, <3>1, <5>1
        <5>2. CASE k \notin doubt
          BY <1>12, <3>1, <4>1, <5>2 DEF Undoubted, OneWrites
        <5> QED BY <5>1, <5>2
      <4>3. run'[i].at = "marked"
        BY <1>5, <1>6, <2>2
      <4> QED BY <1>2, <1>11, <2>2, <3>1, <4>1, <4>2, <4>3 DEF OneWrites, MarkerIsTrue, Ttw!Whole
    <3>2. CASE k # m
      <4>1. OneWrites(k) /\ marker'.mod # k
        BY <2>2, <3>2 DEF Undoubted
      <4> QED BY <1>2, <1>11, <4>1 DEF OneWrites, MarkerIsTrue, Ttw!Whole
    <3> QED BY <3>1, <3>2
  <2> QED BY <1>8, <2>1, <2>2
<1> QED BY <1>9, <1>10, <1>13

\* Managed tools, changes by hand, and a service that is killed.
LEMMA TtwWorld ==
  ASSUME Ttw!TtwAssumption, TtwInv, Ttw!World
  PROVE  TtwInv'
<1> USE DEF TtwInv
<1>1. CASE /\ (prefix = Nobody /\ prefix' = "tool") \/ (prefix = "tool" /\ prefix' = Nobody)
           /\ UNCHANGED <<run, proc, handles, Ttw!files, bin, Ttw!past>>
  <2>1. Held'
    BY <1>1 DEF Held, Ttw!TtwAssumption
  <2> QED BY <1>1, <2>1 DEF Ttw!TypeOK, Ordered, Answered, OneFetches, Undoubted, OneWrites,
     MarkerIsTrue, Ttw!Writing, Ttw!Whole,
         Ttw!Gone, Ttw!files, Ttw!past
<1>2. ASSUME NEW m \in Mod, folder[m].there,
             folder' = [folder EXCEPT ![m] = Ttw!Absent] \/ \E v \in Version : folder' = [folder EXCEPT ![m].master = v],
             doubt' = IF \E i \in Install : Ttw!Writing(i, m) THEN doubt \cup {m} ELSE doubt,
             UNCHANGED <<run, proc, handles, marker, bin, prefix, overlap, kills>>
      PROVE  TtwInv'
  <2>1. folder \in [Mod -> FolderType] /\ folder[m] \in FolderType
    BY DEF Ttw!TypeOK, FolderType
  <2>2. PICK f \in FolderType : folder' = [folder EXCEPT ![m] = f] /\ (f = Ttw!Absent \/ f.whole = folder[m].whole)
    <3>1. CASE folder' = [folder EXCEPT ![m] = Ttw!Absent]
      BY <3>1 DEF Ttw!Absent, FolderType
    <3>2. CASE \E v \in Version : folder' = [folder EXCEPT ![m].master = v]
      <4>1. PICK v \in Version : folder' = [folder EXCEPT ![m].master = v]
        BY <3>2
      <4>2. folder' = [folder EXCEPT ![m] = [folder[m] EXCEPT !.master = v]]
        BY <2>1, <4>1
      <4>3. [folder[m] EXCEPT !.master = v] \in FolderType /\ [folder[m] EXCEPT !.master = v].whole = folder[m].whole
        BY <2>1 DEF FolderType
      <4> QED BY <4>2, <4>3
    <3> QED BY <1>2, <3>1, <3>2
  <2>3. folder' \in [Mod -> FolderType] /\ folder'[m] = f /\ \A k \in Mod \ {m} : folder'[k] = folder[k]
    BY <2>1, <2>2
  <2>4. Ttw!TypeOK'
    BY <1>2, <2>3 DEF Ttw!TypeOK, FolderType
  <2>5. Ordered' /\ Answered' /\ Held' /\ OneFetches'
    BY <1>2 DEF Ordered, Answered, Held, OneFetches, Ttw!Gone
  <2>6. \A j \in Install, k \in Mod : Ttw!Writing(j, k)' <=> Ttw!Writing(j, k)
    BY <1>2 DEF Ttw!Writing
  <2>7. Undoubted'
    <3> SUFFICES ASSUME NEW k \in Mod, k \notin doubt' PROVE OneWrites(k)'
      BY DEF Undoubted
    <3>1. k \notin doubt /\ OneWrites(k)
      BY <1>2 DEF Undoubted
    <3>2. CASE k = m
      <4>1. \A j \in Install : ~Ttw!Writing(j, m)
        BY <1>2, <3>2
      <4>2. folder[m] # Ttw!Absent
        BY <1>2 DEF Ttw!Absent
      <4>3. MarkerIsTrue(m)'
        BY <1>2, <2>2, <2>3, <3>1, <3>2, <4>2 DEF OneWrites, MarkerIsTrue
      <4> QED BY <2>6, <3>2, <4>1, <4>3 DEF OneWrites
    <3>3. CASE k # m
      BY <1>2, <2>3, <2>6, <3>1, <3>3 DEF OneWrites, MarkerIsTrue, Ttw!Whole
    <3> QED BY <3>2, <3>3
  <2> QED BY <2>4, <2>5, <2>7
<1> QED BY <1>1, <1>2 DEF Ttw!World

LEMMA TtwKill ==
  ASSUME Ttw!TtwAssumption, TtwInv, Ttw!Kill \/ UNCHANGED Ttw!vars
  PROVE  TtwInv'
<1> USE DEF TtwInv
<1>1. CASE Ttw!Kill
  <2>1. run \in [Install -> RunType]
    BY DEF Ttw!TypeOK, RunType
  <2>2. /\ run' = [i \in Install |-> IF run[i].at \in {"none", "done", "refused"} THEN run[i] ELSE [run[i] EXCEPT !.at = "lost"]]
        /\ handles' = {} /\ prefix' = Nobody /\ kills' = kills + 1 /\ kills < MaxKills
        /\ UNCHANGED <<proc, Ttw!files, bin, doubt, overlap>>
    BY <1>1 DEF Ttw!Kill
  <2>3. ASSUME NEW i \in Install
        PROVE  /\ run'[i] \in RunType
               /\ run'[i].at = (IF run[i].at \in {"none", "done", "refused"} THEN run[i].at ELSE "lost")
               /\ run'[i].mod = run[i].mod /\ run'[i].version = run[i].version /\ run'[i].exit = run[i].exit
    BY <2>1, <2>2 DEF RunType, Ttw!Phases
  <2>4. Ttw!TypeOK'
    <3>1. run' \in [Install -> RunType]
      BY <2>2, <2>3
    <3>2. kills' \in 0..MaxKills
      BY <2>2 DEF Ttw!TypeOK, Ttw!TtwAssumption
    <3> QED BY <2>2, <3>1, <3>2 DEF Ttw!TypeOK, RunType, Ttw!files
  <2>5. Ordered' /\ Answered' /\ Held' /\ OneFetches'
    BY <2>2, <2>3 DEF Ordered, Answered, Held, OneFetches, Ttw!Gone
  <2>6. \A j \in Install, k \in Mod : Ttw!Writing(j, k)' => Ttw!Writing(j, k) /\ run[j].at # "marked"
    BY <2>2, <2>3 DEF Ttw!Writing, Ordered, Ttw!Gone, Ttw!Codes
  <2>7. Undoubted'
    BY <2>2, <2>6 DEF Undoubted, OneWrites, MarkerIsTrue, Ttw!Whole, Ttw!files
  <2> QED BY <2>4, <2>5, <2>7
<1>2. CASE UNCHANGED Ttw!vars
  BY <1>2 DEF Ttw!vars, Ttw!files, Ttw!past, Ttw!TypeOK, Ordered, Answered, Held, OneFetches, Undoubted,
     OneWrites, MarkerIsTrue,
     Ttw!Writing, Ttw!Whole, Ttw!Gone
<1> QED BY <1>1, <1>2

LEMMA TtwNext == Ttw!TtwAssumption /\ TtwInv /\ [Ttw!Next]_(Ttw!vars) => TtwInv'
BY TtwLaunches, TtwFetch, TtwStarts, TtwWorks, TtwEnds, TtwFinalizes, TtwWorld, TtwKill DEF Ttw!Next

\* The invariant holds in every state (TtwInstall's Init and Next).
THEOREM TtwInvariance ==
  ASSUME Ttw!TtwAssumption
  PROVE  Ttw!Spec => []TtwInv
BY TtwInit, TtwNext, PTL DEF Ttw!Spec

\* Every variable of TtwInstall keeps its type.
THEOREM TtwTypeCorrect ==
  ASSUME Ttw!TtwAssumption
  PROVE  Ttw!Spec => []Ttw!TypeOK
<1>1. TtwInv => Ttw!TypeOK
  BY DEF TtwInv
<1> QED BY <1>1, TtwInvariance, PTL

\* What a TTW launch plays was finished by one installer run, nothing else runs
\* in that run's Proton prefix meanwhile, and a mpi_installer that is found is
\* whole (ttw.go, proton_external.go:104).
THEOREM TtwIsWhole ==
  ASSUME Ttw!TtwAssumption
  PROVE  Ttw!Spec => []Ttw!TtwWhole
<1>1. Ttw!TtwAssumption /\ TtwInv => Ttw!OneInPrefix
  <2> SUFFICES ASSUME TtwInv, NEW i \in Install, run[i].wine, proc[i] = "running", run[i].at # "lost"
               PROVE  prefix = i
    BY DEF Ttw!OneInPrefix
  <2>1. run[i].at \in Ttw!Phases
    BY DEF TtwInv, Ttw!TypeOK
  <2>2. run[i].at = "started"
    BY <2>1 DEF TtwInv, Ordered, Ttw!Phases, Ttw!Gone, Ttw!Codes
  <2> QED BY <2>2 DEF TtwInv, Held
<1>2. Ttw!TtwAssumption /\ TtwInv => Ttw!PlaysFinished
  <2> SUFFICES ASSUME Ttw!TtwAssumption, TtwInv, NEW m \in Mod \ doubt, marker.mod = m, Ttw!Unchanged(m) PROVE Ttw!Whole(m)
    BY DEF Ttw!PlaysFinished
  <2>1. MarkerIsTrue(m)
    BY DEF TtwInv, Undoubted, OneWrites
  <2>2. folder[m].master # Nobody /\ marker.master = folder[m].master
    BY <2>1 DEF Ttw!Unchanged, Ttw!MasterHash, MarkerIsTrue
  <2> QED BY <2>1, <2>2 DEF MarkerIsTrue, Ttw!Whole, Ttw!Absent
<1>3. TtwInv => Ttw!BinaryWhole
  BY DEF TtwInv, OneFetches, Ttw!BinaryWhole
<1>4. Ttw!TtwAssumption /\ TtwInv => Ttw!TtwWhole
  BY <1>1, <1>2, <1>3 DEF Ttw!TtwWhole
<1> QED BY <1>4, TtwInvariance, PTL

\* An install's result has the code that its installer exited with: it is in the
\* channel before anybody looks there (ttw.go:890).
THEOREM ExitsAreTrue ==
  ASSUME Ttw!TtwAssumption
  PROVE  Ttw!Spec => []Ttw!ExitIsTrue
<1>1. TtwInv => Ttw!ExitIsTrue
  BY DEF TtwInv, Answered, Ttw!ExitIsTrue
<1> QED BY <1>1, TtwInvariance, PTL

-----------------------------------------------------------------------------
(***************************************************************************)
(* Supervisor.  A call goes to whoever listens when it is made, so that    *)
(* only one process holds the instance lock (OneHolds) is what makes the   *)
(* answer that a supervisor has seen (OwnAnswered) still worth something.  *)
(***************************************************************************)
\* At most one process holds the instance lock.
OneHolds == \A p, q \in Pid : service[p] \in Supervisor!Holding /\ service[q] \in Supervisor!Holding => p = q

\* A supervisor that is about to ask has seen its own child answer.
OwnAnswered ==
    \A w \in Window : window[w].at = "ask" =>
        window[w].child \in Pid /\ service[window[w].child] \in Supervisor!Holding \cup {"gone"}

\* A link that was added is told so, or that nobody knows.
AddedIsTold == \A n \in Link : n \in added => link[n].at = "told" /\ link[n].told \in {"added", "unknown"}

\* The stop command keeps the process that it found.
StopKnows ==
    /\ stop.at # "out" => stop.pid \in Pid /\ stop.told = "nothing"
    /\ stop.told = "stopped" => stop.pid \in Pid /\ service[stop.pid] = "gone"

SupervisorInv == Supervisor!TypeOK /\ OneHolds /\ OwnAnswered /\ AddedIsTold /\ StopKnows

WindowType == [at : Supervisor!WindowStates, child : Pid \cup {None}, other : Pid \cup {None}, told : {"nothing", "open", "failed", "finishing"}]
LinkType   == [at : Supervisor!LinkStates, told : {"nothing", "added", "failed", "unknown"}]

LEMMA SupervisorInit == Supervisor!SupervisorAssumption /\ Supervisor!Init => SupervisorInv
<1> SUFFICES ASSUME Supervisor!SupervisorAssumption, Supervisor!Init PROVE SupervisorInv
  OBVIOUS
<1>1. Supervisor!Nobody \in WindowType /\ [at |-> "out", told |-> "nothing"] \in LinkType
  BY DEF Supervisor!Nobody, WindowType, LinkType, Supervisor!WindowStates, Supervisor!LinkStates
<1>2. Supervisor!TypeOK
  BY <1>1 DEF Supervisor!Init, Supervisor!SupervisorAssumption, Supervisor!TypeOK, WindowType, LinkType,
     Supervisor!ServiceStates
<1>3. \A w \in Window : window[w].at = "out"
  BY DEF Supervisor!Init, Supervisor!Nobody
<1> QED BY <1>2, <1>3 DEF Supervisor!Init, SupervisorInv, OneHolds, OwnAnswered, AddedIsTold, StopKnows,
   Supervisor!Holding

\* A service takes a step: nobody comes to hold the lock beside another, and
\* one that held it or has gone does not start again.
LEMMA ServicesKeep ==
  ASSUME Supervisor!SupervisorAssumption, SupervisorInv, NEW p \in Pid, Supervisor!Service(p) \/ Supervisor!Crashes(p) \/ Supervisor!ByHand(p)
  PROVE  SupervisorInv' /\ UNCHANGED <<asked, Supervisor!windows, Supervisor!links, stop>>
<1> USE DEF SupervisorInv
<1>1. UNCHANGED <<asked, Supervisor!windows, Supervisor!links, stop>> /\ (faults' = faults \/ Supervisor!Fault)
  BY DEF Supervisor!Service, Supervisor!Crashes, Supervisor!ByHand
<1>2. PICK to \in Supervisor!ServiceStates :
        /\ service' = [service EXCEPT ![p] = to]
        /\ to \in Supervisor!Holding => service[p] \in Supervisor!Holding \/ (\A q \in Pid : service[q] \notin Supervisor!Holding)
        /\ service[p] \in Supervisor!Holding => to \in Supervisor!Holding \cup {"gone"}
        /\ service[p] # "gone"
  BY DEF Supervisor!Service, Supervisor!Crashes, Supervisor!ByHand, Supervisor!Becomes,
     Supervisor!Holding, Supervisor!ServiceStates
<1>3. service \in [Pid -> Supervisor!ServiceStates]
  BY DEF Supervisor!TypeOK
<1>4. service' \in [Pid -> Supervisor!ServiceStates] /\ \A q \in Pid : service'[q] = IF q = p THEN to ELSE service[q]
  BY <1>2, <1>3
<1>5. faults' \in 0..MaxFaults
  BY <1>1 DEF Supervisor!Fault, Supervisor!TypeOK, Supervisor!SupervisorAssumption
<1>6. Supervisor!TypeOK'
  BY <1>1, <1>4, <1>5 DEF Supervisor!TypeOK, Supervisor!windows, Supervisor!links
<1>7. OneHolds'
  BY <1>2, <1>4 DEF OneHolds
<1>8. \A q \in Pid : service[q] \in Supervisor!Holding \cup {"gone"} => service'[q] \in Supervisor!Holding \cup {"gone"}
  BY <1>2, <1>4
<1>9. \A q \in Pid : service[q] = "gone" => service'[q] = "gone"
  BY <1>2, <1>4
<1> QED BY <1>1, <1>6, <1>7, <1>8, <1>9 DEF OwnAnswered, AddedIsTold, StopKnows, Supervisor!windows,
   Supervisor!links

\* A supervisor takes a step, and no process but a new one starts.
LEMMA WindowsKeep ==
  ASSUME Supervisor!SupervisorAssumption, SupervisorInv, NEW w \in Window, Supervisor!Supervises(w)
  PROVE  SupervisorInv' /\ UNCHANGED <<Supervisor!links, stop>>
<1> USE DEF SupervisorInv
<1>1. window \in [Window -> WindowType] /\ window[w] \in WindowType
  BY DEF Supervisor!TypeOK, WindowType
<1>2. UNCHANGED <<Supervisor!links, stop>> /\ (faults' = faults \/ Supervisor!Fault)
  BY DEF Supervisor!Supervises, Supervisor!Opens, Supervisor!Looks, Supervisor!Awaits,
     Supervisor!Starts, Supervisor!WaitsReady, Supervisor!Closes, Supervisor!ProbesOwn,
     Supervisor!AsksOwn, Supervisor!WaitsExit, Supervisor!Again, Supervisor!Killed
<1>3. faults' \in 0..MaxFaults
  BY <1>2 DEF Supervisor!Fault, Supervisor!TypeOK, Supervisor!SupervisorAssumption
<1>4. /\ service' = service \/ \E p \in Pid : Supervisor!Becomes(p, {"unborn"}, "starting")
      /\ asked' = asked \/ \E p \in Supervisor!Listening : asked' = asked \cup {p}
  BY DEF Supervisor!Supervises, Supervisor!Opens, Supervisor!Looks, Supervisor!Awaits,
     Supervisor!Starts, Supervisor!WaitsReady, Supervisor!Closes, Supervisor!ProbesOwn,
     Supervisor!AsksOwn, Supervisor!WaitsExit, Supervisor!Again, Supervisor!Killed,
     Supervisor!processes
<1>5. slock' \in {slock, w, None}
  BY DEF Supervisor!Supervises, Supervisor!Opens, Supervisor!Looks, Supervisor!Awaits,
     Supervisor!Starts, Supervisor!WaitsReady, Supervisor!Closes, Supervisor!ProbesOwn,
     Supervisor!AsksOwn, Supervisor!WaitsExit, Supervisor!Again, Supervisor!Killed,
     Supervisor!Ends
<1>6. \E r \in WindowType :
        /\ window' = [window EXCEPT ![w] = r]
        /\ r.at = "ask" => r.child \in Pid /\ service[r.child] \in Supervisor!Holding
  <2>1. ASSUME NEW to \in Supervisor!WindowStates \ {"ask"}, Supervisor!Goes(w, to)
        PROVE  \E r \in WindowType : window' = [window EXCEPT ![w] = r] /\ r.at # "ask"
    <3>1. window' = [window EXCEPT ![w] = [window[w] EXCEPT !.at = to]]
      BY <1>1, <2>1 DEF Supervisor!Goes
    <3>2. [window[w] EXCEPT !.at = to] \in WindowType /\ [window[w] EXCEPT !.at = to].at # "ask"
      BY <1>1 DEF WindowType
    <3> QED BY <3>1, <3>2
  <2>2. ASSUME NEW told \in {"nothing", "open", "failed", "finishing"}, Supervisor!Ends(w, told)
        PROVE  \E r \in WindowType : window' = [window EXCEPT ![w] = r] /\ r.at # "ask"
    <3>1. window' = [window EXCEPT ![w] = [window[w] EXCEPT !.at = "end", !.told = told]]
      BY <1>1, <2>2 DEF Supervisor!Ends
    <3>2. [window[w] EXCEPT !.at = "end", !.told = told] \in WindowType
          /\ [window[w] EXCEPT !.at = "end", !.told = told].at # "ask"
      BY <1>1 DEF WindowType, Supervisor!WindowStates
    <3> QED BY <3>1, <3>2
  <2>3. CASE Supervisor!Opens(w) \/ Supervisor!WaitsReady(w) \/ Supervisor!Closes(w) \/ Supervisor!WaitsExit(w) \/ Supervisor!Killed(w) \/ Supervisor!Awaits(w) \/ Supervisor!AsksOwn(w)
    <3>1. \/ \E to \in Supervisor!WindowStates \ {"ask"} : Supervisor!Goes(w, to)
          \/ \E told \in {"nothing", "open", "failed", "finishing"} : Supervisor!Ends(w, told)
      BY <2>3 DEF Supervisor!Opens, Supervisor!WaitsReady, Supervisor!Closes, Supervisor!WaitsExit,
         Supervisor!Killed, Supervisor!Awaits, Supervisor!AsksOwn, Supervisor!WindowStates
    <3> QED BY <2>1, <2>2, <3>1
  <2>4. CASE Supervisor!Looks(w)
    <3>1. CASE \E to \in Supervisor!WindowStates \ {"ask"} : Supervisor!Goes(w, to)
      BY <2>1, <3>1
    <3>2. CASE \E p \in Supervisor!Listening : window' = [window EXCEPT ![w].at = "await", ![w].other = p]
      <4>1. PICK p \in Supervisor!Listening : window' = [window EXCEPT ![w].at = "await", ![w].other = p]
        BY <3>2
      <4>2. window' = [window EXCEPT ![w] = [window[w] EXCEPT !.at = "await", !.other = p]]
        BY <1>1, <4>1
      <4>3. [window[w] EXCEPT !.at = "await", !.other = p] \in WindowType
            /\ [window[w] EXCEPT !.at = "await", !.other = p].at # "ask"
        BY <1>1, <4>1 DEF WindowType, Supervisor!WindowStates, Supervisor!Listening
      <4> QED BY <4>2, <4>3
    <3> QED BY <2>4, <3>1, <3>2 DEF Supervisor!Looks, Supervisor!WindowStates
  <2>5. CASE Supervisor!Starts(w)
    <3>1. ASSUME NEW p \in Pid, window' = [window EXCEPT ![w].at = "starting", ![w].child = p]
          PROVE  \E r \in WindowType :
                   /\ window' = [window EXCEPT ![w] = r]
                   /\ r.at = "ask" => r.child \in Pid /\ service[r.child] \in Supervisor!Holding
      <4>1. window' = [window EXCEPT ![w] = [window[w] EXCEPT !.at = "starting", !.child = p]]
        BY <1>1, <3>1
      <4>2. [window[w] EXCEPT !.at = "starting", !.child = p] \in WindowType
            /\ [window[w] EXCEPT !.at = "starting", !.child = p].at # "ask"
        BY <1>1 DEF WindowType, Supervisor!WindowStates
      <4> QED BY <4>1, <4>2
    <3> QED BY <2>2, <2>5, <3>1 DEF Supervisor!Starts
  <2>6. CASE Supervisor!ProbesOwn(w)
    <3>1. CASE Supervisor!Goes(w, "ask") /\ \E p \in Supervisor!Listening : Supervisor!Answers(w, p)
      <4>1. window[w].child \in Pid /\ service[window[w].child] \in Supervisor!Holding
        BY <3>1 DEF Supervisor!Answers, Supervisor!Listening, Supervisor!Holding
      <4>2. window' = [window EXCEPT ![w] = [window[w] EXCEPT !.at = "ask"]]
        BY <1>1, <3>1 DEF Supervisor!Goes
      <4>3. [window[w] EXCEPT !.at = "ask"] \in WindowType /\ [window[w] EXCEPT !.at = "ask"].child = window[w].child
        BY <1>1 DEF WindowType, Supervisor!WindowStates
      <4> QED BY <4>1, <4>2, <4>3
    <3>2. CASE Supervisor!Goes(w, "leaving")
      BY <2>1, <3>2 DEF Supervisor!WindowStates
    <3>3. CASE Supervisor!Ends(w, "nothing")
      BY <2>2, <3>3
    <3> QED BY <2>6, <3>1, <3>2, <3>3 DEF Supervisor!ProbesOwn
  <2>7. CASE Supervisor!Again(w)
    <3>1. Supervisor!Nobody \in WindowType /\ Supervisor!Nobody.at # "ask"
      BY DEF Supervisor!Nobody, WindowType, Supervisor!WindowStates
    <3> QED BY <2>7, <3>1 DEF Supervisor!Again
  <2> QED BY <2>3, <2>4, <2>5, <2>6, <2>7 DEF Supervisor!Supervises
<1>7. service' \in [Pid -> Supervisor!ServiceStates] /\ asked' \subseteq Pid
  BY <1>4 DEF Supervisor!TypeOK, Supervisor!Becomes, Supervisor!ServiceStates, Supervisor!Listening
<1>8. \A p \in Pid : service[p] \in Supervisor!Holding \cup {"gone"} \/ service'[p] \in Supervisor!Holding \cup {"gone"} => service'[p] = service[p]
  BY <1>4 DEF Supervisor!TypeOK, Supervisor!Becomes, Supervisor!Holding
<1>9. Supervisor!TypeOK'
  BY <1>1, <1>2, <1>3, <1>5, <1>6, <1>7 DEF Supervisor!TypeOK, Supervisor!links, WindowType
<1>10. OneHolds'
  BY <1>8 DEF OneHolds
<1>11. OwnAnswered'
  BY <1>1, <1>6, <1>8 DEF OwnAnswered
<1>12. AddedIsTold' /\ StopKnows'
  BY <1>2, <1>8 DEF AddedIsTold, StopKnows, Supervisor!links
<1> QED BY <1>2, <1>9, <1>10, <1>11, <1>12

\* A link takes a step; one that goes by way of a window only begins it.
LEMMA LinksKeep ==
  ASSUME Supervisor!SupervisorAssumption, SupervisorInv, NEW n \in Link, Supervisor!Delivers(n)
  PROVE  SupervisorInv' /\ UNCHANGED <<Supervisor!processes, stop>>
           /\ \A w \in Window : window[w].at = "ask" => window'[w] = window[w]
<1> USE DEF SupervisorInv
<1>1. link \in [Link -> LinkType] /\ window \in [Window -> WindowType] /\ link[n] \in LinkType
  BY DEF Supervisor!TypeOK, LinkType, WindowType
<1>2. UNCHANGED <<Supervisor!processes, slock, stop>> /\ (faults' = faults \/ Supervisor!Fault)
  BY DEF Supervisor!Delivers, Supervisor!Clicked, Supervisor!StopsWaiting, Supervisor!StartLock,
     Supervisor!StartsSession, Supervisor!WaitsForService, Supervisor!Submits, Supervisor!windows
<1>3. faults' \in 0..MaxFaults
  BY <1>2 DEF Supervisor!Fault, Supervisor!TypeOK, Supervisor!SupervisorAssumption
<1>4. window' = window \/ \E w \in Window : window[w].at = "out" /\ Supervisor!Goes(w, "begun")
  BY DEF Supervisor!Delivers, Supervisor!Clicked, Supervisor!StopsWaiting, Supervisor!StartLock,
     Supervisor!StartsSession, Supervisor!WaitsForService, Supervisor!Submits, Supervisor!windows
<1>5. window' \in [Window -> WindowType] /\ \A w \in Window : window'[w] = window[w] \/ (window[w].at = "out" /\ window'[w].at = "begun")
  <2>1. ASSUME NEW w \in Window, window[w].at = "out", Supervisor!Goes(w, "begun")
        PROVE  window' \in [Window -> WindowType] /\ window'[w].at = "begun" /\ \A v \in Window \ {w} : window'[v] = window[v]
    <3>1. window' = [window EXCEPT ![w] = [window[w] EXCEPT !.at = "begun"]]
      BY <1>1, <2>1 DEF Supervisor!Goes
    <3>2. [window[w] EXCEPT !.at = "begun"] \in WindowType /\ [window[w] EXCEPT !.at = "begun"].at = "begun"
      BY <1>1 DEF WindowType, Supervisor!WindowStates
    <3> QED BY <1>1, <3>1, <3>2
  <2> QED BY <1>1, <1>4, <2>1
<1>6. nlock' \in {nlock, n, None}
  BY DEF Supervisor!Delivers, Supervisor!Clicked, Supervisor!StopsWaiting, Supervisor!StartLock,
     Supervisor!StartsSession, Supervisor!WaitsForService, Supervisor!Submits, Supervisor!Tells
<1>7. \E r \in LinkType :
        /\ link' = [link EXCEPT ![n] = r] /\ link[n].at # "told"
        /\ \/ added' = added
           \/ added' = added \cup {n} /\ r.at = "told" /\ r.told \in {"added", "unknown"}
  <2>1. ASSUME NEW to \in Supervisor!LinkStates, link' = [link EXCEPT ![n].at = to], added' = added, link[n].at # "told"
        PROVE  \E r \in LinkType : link' = [link EXCEPT ![n] = r]
    <3>1. link' = [link EXCEPT ![n] = [link[n] EXCEPT !.at = to]]
      BY <1>1, <2>1
    <3>2. [link[n] EXCEPT !.at = to] \in LinkType
      BY <1>1 DEF LinkType
    <3> QED BY <3>1, <3>2
  <2>2. ASSUME NEW told \in {"added", "failed", "unknown"}, Supervisor!Tells(n, told)
        PROVE  \E r \in LinkType : link' = [link EXCEPT ![n] = r] /\ r.at = "told" /\ r.told = told
    <3>1. link' = [link EXCEPT ![n] = [link[n] EXCEPT !.at = "told", !.told = told]]
      BY <1>1, <2>2 DEF Supervisor!Tells
    <3>2. /\ [link[n] EXCEPT !.at = "told", !.told = told] \in LinkType
          /\ [link[n] EXCEPT !.at = "told", !.told = told].at = "told"
          /\ [link[n] EXCEPT !.at = "told", !.told = told].told = told
      BY <1>1 DEF LinkType, Supervisor!LinkStates
    <3> QED BY <3>1, <3>2
  <2>3. CASE Supervisor!Submits(n)
    <3>1. \/ \E told \in {"added", "unknown"} : Supervisor!Tells(n, told) /\ added' \in {added, added \cup {n}}
          \/ \E told \in {"failed", "unknown"} : Supervisor!Tells(n, told) /\ added' = added
      BY <2>3 DEF Supervisor!Submits, Supervisor!Lost
    <3>2. link[n].at # "told"
      BY <2>3 DEF Supervisor!Submits
    <3> QED BY <2>2, <3>1, <3>2
  <2>4. CASE Supervisor!Clicked(n) \/ Supervisor!StopsWaiting(n) \/ Supervisor!StartLock(n) \/ Supervisor!StartsSession(n) \/ Supervisor!WaitsForService(n)
    <3>1. added' = added /\ link[n].at # "told"
      BY <2>4 DEF Supervisor!Clicked, Supervisor!StopsWaiting, Supervisor!StartLock,
         Supervisor!StartsSession, Supervisor!WaitsForService
    <3>2. \/ \E to \in Supervisor!LinkStates : link' = [link EXCEPT ![n].at = to]
          \/ Supervisor!Tells(n, "failed")
      BY <2>4 DEF Supervisor!Clicked, Supervisor!StopsWaiting, Supervisor!StartLock,
         Supervisor!StartsSession, Supervisor!WaitsForService, Supervisor!Moves, Supervisor!LinkStates
    <3> QED BY <2>1, <2>2, <3>1, <3>2
  <2> QED BY <2>3, <2>4 DEF Supervisor!Delivers
<1>8. Supervisor!TypeOK'
  BY <1>1, <1>2, <1>3, <1>5, <1>6, <1>7 DEF Supervisor!TypeOK, LinkType, WindowType, Supervisor!processes
<1>9. OneHolds' /\ StopKnows'
  BY <1>2 DEF OneHolds, StopKnows, Supervisor!processes
<1>10. OwnAnswered'
  BY <1>2, <1>5 DEF OwnAnswered, Supervisor!processes
<1>11. AddedIsTold'
  BY <1>1, <1>7 DEF AddedIsTold
<1> QED BY <1>2, <1>5, <1>8, <1>9, <1>10, <1>11

\* The stop command takes a step.
LEMMA StopKeeps ==
  ASSUME Supervisor!SupervisorAssumption, SupervisorInv, Supervisor!StopProbes \/ Supervisor!StopAsks \/ Supervisor!StopWaits \/ UNCHANGED Supervisor!vars
  PROVE  SupervisorInv' /\ UNCHANGED <<service, Supervisor!windows, Supervisor!links>>
<1> USE DEF SupervisorInv
<1>1. UNCHANGED <<service, Supervisor!windows, Supervisor!links>> /\ (faults' = faults \/ Supervisor!Fault)
  BY DEF Supervisor!StopProbes, Supervisor!StopAsks, Supervisor!StopWaits, Supervisor!vars,
     Supervisor!processes, Supervisor!windows, Supervisor!links
<1>2. faults' \in 0..MaxFaults /\ asked' \subseteq Pid
  <2>1. asked' \in {asked, asked \cup Supervisor!Listening}
    BY DEF Supervisor!StopProbes, Supervisor!StopAsks, Supervisor!StopWaits, Supervisor!vars,
       Supervisor!processes
  <2> QED BY <1>1, <2>1 DEF Supervisor!Fault, Supervisor!TypeOK, Supervisor!SupervisorAssumption,
     Supervisor!Listening
<1>3. /\ stop' \in [at : {"out", "probed", "wait"}, pid : Pid \cup {None}, told : {"nothing", "stopped", "finishing"}]
      /\ stop'.at # "out" => stop'.pid \in Pid /\ stop'.told = "nothing"
      /\ stop'.told = "stopped" => stop'.pid \in Pid /\ service[stop'.pid] = "gone"
  <2>1. stop \in [at : {"out", "probed", "wait"}, pid : Pid \cup {None}, told : {"nothing", "stopped", "finishing"}]
    BY DEF Supervisor!TypeOK
  <2>2. CASE Supervisor!StopProbes
    BY <2>1, <2>2 DEF Supervisor!StopProbes, Supervisor!Listening
  <2>3. CASE Supervisor!StopAsks
    BY <2>1, <2>3 DEF Supervisor!StopAsks, StopKnows
  <2>4. CASE Supervisor!StopWaits
    BY <2>1, <2>4 DEF Supervisor!StopWaits, StopKnows, Supervisor!HasGone
  <2>5. CASE UNCHANGED Supervisor!vars
    BY <2>1, <2>5 DEF Supervisor!vars, StopKnows
  <2> QED BY <2>2, <2>3, <2>4, <2>5
<1>4. Supervisor!TypeOK'
  BY <1>1, <1>2, <1>3 DEF Supervisor!TypeOK, Supervisor!windows, Supervisor!links
<1> QED BY <1>1, <1>3, <1>4 DEF OneHolds, OwnAnswered, AddedIsTold, StopKnows, Supervisor!windows,
   Supervisor!links

LEMMA SupervisorNext == Supervisor!SupervisorAssumption /\ SupervisorInv /\ [Supervisor!Next]_(Supervisor!vars) => SupervisorInv'
BY ServicesKeep, WindowsKeep, LinksKeep, StopKeeps DEF Supervisor!Next

\* The invariant holds in every state (Supervisor's Init and Next).
THEOREM SupervisorInvariance ==
  ASSUME Supervisor!SupervisorAssumption
  PROVE  Supervisor!Spec => []SupervisorInv
BY SupervisorInit, SupervisorNext, PTL DEF Supervisor!Spec

\* Every variable of Supervisor keeps its type.
THEOREM SupervisorTypeCorrect ==
  ASSUME Supervisor!SupervisorAssumption
  PROVE  Supervisor!Spec => []Supervisor!TypeOK
<1>1. SupervisorInv => Supervisor!TypeOK
  BY DEF SupervisorInv
<1> QED BY <1>1, SupervisorInvariance, PTL

\* A link reported as failed was not added (nxm.go:137), and a service reported
\* as stopped is gone (lifecycle.go:136).
THEOREM ToldIsTrue ==
  ASSUME Supervisor!SupervisorAssumption
  PROVE  Supervisor!Spec => [](Supervisor!FailedIsNotAdded /\ Supervisor!StoppedIsGone)
<1>1. SupervisorInv => Supervisor!FailedIsNotAdded /\ Supervisor!StoppedIsGone
  BY DEF SupervisorInv, AddedIsTold, StopKnows, Supervisor!FailedIsNotAdded, Supervisor!StoppedIsGone
<1> QED BY <1>1, SupervisorInvariance, PTL

\* A supervisor asks no service to shut down but its own child, as long as that
\* child lives (session.go:318).
THEOREM OwnChildIsStopped ==
  ASSUME Supervisor!SupervisorAssumption
  PROVE  Supervisor!Spec => [][Supervisor!StopsOwnChild]_(Supervisor!vars)
<1>1. Supervisor!SupervisorAssumption /\ SupervisorInv /\ [Supervisor!Next]_(Supervisor!vars) => Supervisor!StopsOwnChild
  <2> SUFFICES ASSUME Supervisor!SupervisorAssumption, SupervisorInv, [Supervisor!Next]_(Supervisor!vars), NEW w \in Window,
                      window[w].at = "ask", window'[w].at = "leaving", service[window[w].child] # "gone"
               PROVE  asked' \subseteq asked \cup {window[w].child}
    BY DEF Supervisor!StopsOwnChild
  <2>1. window \in [Window -> WindowType] /\ window[w] \in WindowType
    BY DEF SupervisorInv, Supervisor!TypeOK, WindowType
  <2>2. ASSUME NEW v \in Window, Supervisor!Supervises(v) PROVE Supervisor!AsksOwn(w)
    <3>1. window'[w] = window[w] \/ v = w
      BY <2>1, <2>2 DEF Supervisor!Supervises, Supervisor!Opens, Supervisor!Looks, Supervisor!Awaits,
         Supervisor!Starts, Supervisor!WaitsReady, Supervisor!Closes, Supervisor!ProbesOwn,
         Supervisor!AsksOwn, Supervisor!WaitsExit,
         Supervisor!Again, Supervisor!Killed, Supervisor!Goes, Supervisor!Ends
    <3>2. Supervisor!Killed(w) => window'[w].at = "end"
      BY <2>1 DEF Supervisor!Killed, Supervisor!Ends, WindowType
    <3> QED BY <2>2, <3>1, <3>2 DEF Supervisor!Supervises, Supervisor!Opens, Supervisor!Looks,
       Supervisor!Awaits, Supervisor!Starts, Supervisor!WaitsReady, Supervisor!Closes,
       Supervisor!ProbesOwn, Supervisor!WaitsExit,
         Supervisor!Again
  <2>3. Supervisor!AsksOwn(w)
    BY <2>2, ServicesKeep, LinksKeep, StopKeeps DEF Supervisor!Next, Supervisor!windows
  <2>4. window[w].child \in Pid /\ service[window[w].child] \in Supervisor!Holding
    BY DEF SupervisorInv, OwnAnswered
  <2>5. \A p \in Supervisor!Listening : p = window[w].child
    BY <2>4 DEF SupervisorInv, OneHolds, Supervisor!Listening, Supervisor!Holding
  <2> QED BY <2>3, <2>5 DEF Supervisor!AsksOwn
<1> QED BY <1>1, SupervisorInvariance, PTL DEF Supervisor!Spec

-----------------------------------------------------------------------------
(***************************************************************************)
(* Offline.  What was verified stays so while the command goes on: the     *)
(* service is down (Locked), and the games that were taken and are not to  *)
(* do any more are back (Restoring).                                       *)
(***************************************************************************)
\* The lock is the command's while one runs, and a game in use was not taken.
Locked ==
    /\ holder = "command" <=> cmd.at # "idle"
    /\ cmd.at # "idle" => \A g \in cmd.games : game[g].ticket # "fresh"

\* A command that has looked has only games that were there, a purge every game.
Looking ==
    /\ cmd.at \notin {"idle", "look"} => cmd.todo \subseteq cmd.games
    /\ cmd.kind = "purge" =>
          /\ cmd.at = "look" => cmd.todo \cup cmd.games = Game
          /\ cmd.at \notin {"idle", "look"} => cmd.games = Game

\* The games that were taken and are not to do any more are back.
Restoring ==
    /\ cmd.at \in {"restore", "verify", "tickets"} => \A g \in cmd.games \ cmd.todo : Offline!Back(g)
    /\ cmd.at \in {"tickets", "remove"} => \A g \in cmd.games : Offline!Back(g)
    /\ cmd.at = "tickets" => \A g \in cmd.games \ cmd.todo : Offline!Restored(g)
    /\ cmd.at = "remove" => \A g \in cmd.games : Offline!Restored(g)

OfflineInv == Offline!TypeOK /\ Locked /\ Looking /\ Restoring

CmdType ==
    [at : Offline!Stages, kind : Offline!Commands, todo : SUBSET Game, games : SUBSET Game,
     told : {"nothing", "refused", "failed", "restored", "removed"}, part : {"loader", "root", "data", "again", "links"}]

LEMMA OfflineInit == Offline!OfflineAssumption /\ Offline!Init => OfflineInv
<1> SUFFICES ASSUME Offline!OfflineAssumption, Offline!Init PROVE OfflineInv
  OBVIOUS
<1>1. game \in [Game -> Offline!Condition]
  <2>1. Offline!Plain \in Offline!Condition /\ [Offline!Plain EXCEPT !.root = "links", !.data = "farm", !.ticket = "old"] \in Offline!Condition
    BY DEF Offline!Plain, Offline!Condition
  <2> QED BY <2>1 DEF Offline!Init
<1>2. Offline!TypeOK
  <2>1. cmd \in CmdType
    BY DEF Offline!Init, CmdType, Offline!Idle, Offline!Stages, Offline!Commands
  <2>2. turns \in 0..MaxTurns /\ left \subseteq Offline!Own /\ holder = "nobody"
    BY DEF Offline!Init, Offline!OfflineAssumption
  <2>3. open \in BOOLEAN
    BY Zenon DEF Offline!Init
  <2> QED BY <1>1, <2>1, <2>2, <2>3, Zenon DEF Offline!TypeOK, CmdType
<1> QED BY <1>2 DEF Offline!Init, Offline!Idle, OfflineInv, Locked, Looking, Restoring

\* A command ends.
LEMMA OfflineEnds ==
  ASSUME Offline!OfflineAssumption, OfflineInv, cmd.at # "idle",
         NEW told \in {"nothing", "refused", "failed", "restored", "removed"}, Offline!Ends(told),
         game' \in [Game -> Offline!Condition], UNCHANGED <<open, left>>, turns' \in 0..MaxTurns
  PROVE  OfflineInv'
<1>1. cmd' = [Offline!Idle EXCEPT !.kind = cmd.kind, !.games = cmd.games, !.told = told] /\ holder' = "nobody"
  BY DEF Offline!Ends
<1>2. Offline!TypeOK'
  BY <1>1 DEF OfflineInv, Offline!TypeOK, Offline!Idle, Offline!Stages, Offline!Commands
<1>3. cmd'.at = "idle"
  BY <1>1 DEF Offline!Idle
<1> QED BY <1>1, <1>2, <1>3 DEF OfflineInv, Locked, Looking, Restoring

\* The world: no game in use becomes one that a command has taken.
LEMMA OfflineWorld ==
  ASSUME Offline!OfflineAssumption, OfflineInv, NEW g \in Game, Offline!World(g)
  PROVE  OfflineInv' /\ UNCHANGED <<holder, open, cmd, left>>
           /\ (holder = "command" => Offline!Back(g)' = Offline!Back(g)) /\ \A k \in Game \ {g} : game'[k] = game[k]
<1> USE DEF OfflineInv
<1>1. UNCHANGED <<holder, open, cmd, left>>
  BY DEF Offline!World, Offline!ServiceActs, Offline!ServiceLaunches, Offline!Settles, Offline!Happens
<1>2. turns' \in 0..MaxTurns
  <2>1. Offline!Turn \/ turns' = turns
    BY DEF Offline!World, Offline!ServiceActs, Offline!ServiceLaunches, Offline!Settles, Offline!Happens
  <2>2. turns \in 0..MaxTurns /\ MaxTurns \in Nat
    BY DEF Offline!TypeOK, Offline!OfflineAssumption
  <2> QED BY <2>1, <2>2 DEF Offline!Turn
<1>3. game \in [Game -> Offline!Condition]
  BY DEF Offline!TypeOK
<1>4. /\ game' \in [Game -> Offline!Condition] /\ \A k \in Game \ {g} : game'[k] = game[k]
      /\ holder = "command" => /\ Offline!Back(g)' = Offline!Back(g)
                               /\ game[g].ticket # "fresh" => game'[g].ticket = game[g].ticket
  <2>1. CASE Offline!ServiceActs(g)
    <3>1. PICK c \in Offline!Remains :
             game' = [game EXCEPT ![g] = [@ EXCEPT !.loader = c.loader, !.root = c.root, !.data = c.data]]
      BY <2>1 DEF Offline!ServiceActs
    <3> DEFINE d == [game[g] EXCEPT !.loader = c.loader, !.root = c.root, !.data = c.data]
    <3>2. game' = [game EXCEPT ![g] = d]
      BY <1>3, <3>1
    <3>3. d \in Offline!Condition
      <4>1. game[g] \in Offline!Condition
        BY <1>3
      <4>2. c.loader \in {"none", "cut", "owned", "stuck"} /\ c.root \in {"plain", "links", "intent", "stuck"}
            /\ c.data \in {"plain", "farm", "backup", "steam"}
        BY DEF Offline!Remains
      <4> QED BY <4>1, <4>2 DEF Offline!Condition
    <3> HIDE DEF d
    <3> QED BY <1>3, <2>1, <3>2, <3>3 DEF Offline!ServiceActs
  <2>2. CASE Offline!ServiceLaunches(g)
    <3>1. game' = [game EXCEPT ![g] = [game[g] EXCEPT !.ticket = "fresh", !.running = TRUE]]
      BY <1>3, <2>2 DEF Offline!ServiceLaunches
    <3>2. [game[g] EXCEPT !.ticket = "fresh", !.running = TRUE] \in Offline!Condition
      BY <1>3 DEF Offline!Condition
    <3> QED BY <1>3, <2>2, <3>1, <3>2 DEF Offline!ServiceLaunches
  <2>3. ASSUME NEW c \in Offline!Condition, game' = [game EXCEPT ![g] = c],
               c.loader = "none" /\ c.root = "plain" /\ c.data = "plain"
                 <=> game[g].loader = "none" /\ game[g].root = "plain" /\ game[g].data = "plain",
               game[g].ticket # "fresh" => c.ticket = game[g].ticket
        PROVE  /\ game' \in [Game -> Offline!Condition] /\ \A k \in Game \ {g} : game'[k] = game[k]
               /\ holder = "command" => /\ Offline!Back(g)' = Offline!Back(g)
                                        /\ game[g].ticket # "fresh" => game'[g].ticket = game[g].ticket
    BY <1>3, <2>3 DEF Offline!Back
  <2>4. game[g] \in Offline!Condition
    BY <1>3
  <2>5. /\ [game[g] EXCEPT !.running = FALSE] \in Offline!Condition
        /\ [game[g] EXCEPT !.ticket = "old"] \in Offline!Condition
        /\ [game[g] EXCEPT !.data = "farm"] \in Offline!Condition
        /\ [game[g] EXCEPT !.data = "steam"] \in Offline!Condition
        /\ [game[g] EXCEPT !.loader = "cut"] \in Offline!Condition
        /\ [game[g] EXCEPT !.there = ~@, !.running = FALSE] \in Offline!Condition
    BY <2>4 DEF Offline!Condition
  <2>6. CASE Offline!Settles(g)
    <3>1. CASE game[g].running /\ game' = [game EXCEPT ![g].running = FALSE]
      <4>1. game' = [game EXCEPT ![g] = [game[g] EXCEPT !.running = FALSE]]
        BY <1>3, <3>1
      <4>2. /\ [game[g] EXCEPT !.running = FALSE].ticket = game[g].ticket \/ game[g].ticket = "fresh"
            /\ [game[g] EXCEPT !.running = FALSE].loader = "none" /\ [game[g] EXCEPT !.running = FALSE].root = "plain" /\ [game[g] EXCEPT !.running = FALSE].data = "plain"
                 <=> game[g].loader = "none" /\ game[g].root = "plain" /\ game[g].data = "plain"
        BY <2>4, <3>1 DEF Offline!Condition
      <4> QED BY <2>3, <2>5, <4>1, <4>2
    <3>2. CASE game[g].ticket = "fresh" /\ game' = [game EXCEPT ![g].ticket = "old"]
      <4>1. game' = [game EXCEPT ![g] = [game[g] EXCEPT !.ticket = "old"]]
        BY <1>3, <3>2
      <4>2. /\ [game[g] EXCEPT !.ticket = "old"].ticket = game[g].ticket \/ game[g].ticket = "fresh"
            /\ [game[g] EXCEPT !.ticket = "old"].loader = "none" /\ [game[g] EXCEPT !.ticket = "old"].root = "plain" /\ [game[g] EXCEPT !.ticket = "old"].data = "plain"
                 <=> game[g].loader = "none" /\ game[g].root = "plain" /\ game[g].data = "plain"
        BY <2>4, <3>2 DEF Offline!Condition
      <4> QED BY <2>3, <2>5, <4>1, <4>2
    <3>3. CASE game[g].data = "steam" /\ game' = [game EXCEPT ![g].data = "farm"]
      <4>1. game' = [game EXCEPT ![g] = [game[g] EXCEPT !.data = "farm"]]
        BY <1>3, <3>3
      <4>2. /\ [game[g] EXCEPT !.data = "farm"].ticket = game[g].ticket \/ game[g].ticket = "fresh"
            /\ [game[g] EXCEPT !.data = "farm"].loader = "none" /\ [game[g] EXCEPT !.data = "farm"].root = "plain" /\ [game[g] EXCEPT !.data = "farm"].data = "plain"
                 <=> game[g].loader = "none" /\ game[g].root = "plain" /\ game[g].data = "plain"
        BY <2>4, <3>3 DEF Offline!Condition
      <4> QED BY <2>3, <2>5, <4>1, <4>2
    <3>4. CASE game[g].loader = "owned" /\ game' = [game EXCEPT ![g].loader = "cut"]
      <4>1. game' = [game EXCEPT ![g] = [game[g] EXCEPT !.loader = "cut"]]
        BY <1>3, <3>4
      <4>2. /\ [game[g] EXCEPT !.loader = "cut"].ticket = game[g].ticket \/ game[g].ticket = "fresh"
            /\ [game[g] EXCEPT !.loader = "cut"].loader = "none" /\ [game[g] EXCEPT !.loader = "cut"].root = "plain" /\ [game[g] EXCEPT !.loader = "cut"].data = "plain"
                 <=> game[g].loader = "none" /\ game[g].root = "plain" /\ game[g].data = "plain"
        BY <2>4, <3>4 DEF Offline!Condition
      <4> QED BY <2>3, <2>5, <4>1, <4>2
    <3> QED BY <2>6, <3>1, <3>2, <3>3, <3>4 DEF Offline!Settles
  <2>7. CASE Offline!Happens(g)
    <3>1. CASE game' = [game EXCEPT ![g].there = ~@, ![g].running = FALSE]
      <4>1. game' = [game EXCEPT ![g] = [game[g] EXCEPT !.there = ~@, !.running = FALSE]]
        BY <1>3, <3>1
      <4>2. /\ [game[g] EXCEPT !.there = ~@, !.running = FALSE].ticket = game[g].ticket \/ game[g].ticket = "fresh"
            /\ [game[g] EXCEPT !.there = ~@, !.running = FALSE].loader = "none" /\ [game[g] EXCEPT !.there = ~@, !.running = FALSE].root = "plain" /\ [game[g] EXCEPT !.there = ~@, !.running = FALSE].data = "plain"
                 <=> game[g].loader = "none" /\ game[g].root = "plain" /\ game[g].data = "plain"
        BY <2>4, <3>1 DEF Offline!Condition
      <4> QED BY <2>3, <2>5, <4>1, <4>2
    <3>2. CASE game[g].data = "farm" /\ game' = [game EXCEPT ![g].data = "steam"]
      <4>1. game' = [game EXCEPT ![g] = [game[g] EXCEPT !.data = "steam"]]
        BY <1>3, <3>2
      <4>2. /\ [game[g] EXCEPT !.data = "steam"].ticket = game[g].ticket \/ game[g].ticket = "fresh"
            /\ [game[g] EXCEPT !.data = "steam"].loader = "none" /\ [game[g] EXCEPT !.data = "steam"].root = "plain" /\ [game[g] EXCEPT !.data = "steam"].data = "plain"
                 <=> game[g].loader = "none" /\ game[g].root = "plain" /\ game[g].data = "plain"
        BY <2>4, <3>2 DEF Offline!Condition
      <4> QED BY <2>3, <2>5, <4>1, <4>2
    <3> QED BY <2>7, <3>1, <3>2 DEF Offline!Happens
  <2> QED BY <2>1, <2>2, <2>6, <2>7 DEF Offline!World
<1>5. Offline!TypeOK'
  BY <1>1, <1>2, <1>4 DEF Offline!TypeOK
<1>6. holder = "command" => \A k \in Game :
         (Offline!Back(k) => Offline!Back(k)') /\ (game[k].ticket # "fresh" => game'[k].ticket = game[k].ticket)
  BY <1>4 DEF Offline!Back
<1>7. cmd.at # "idle" => Locked' /\ Looking' /\ Restoring'
  <2> SUFFICES ASSUME cmd.at # "idle" PROVE Locked' /\ Looking' /\ Restoring'
    OBVIOUS
  <2>1. \A k \in cmd.games : k \in Game
    BY DEF Offline!TypeOK
  <2>2. holder = "command"
    BY DEF Locked
  <2>3. Locked' /\ Looking'
    BY <1>1, <1>6, <2>1, <2>2 DEF Locked, Looking
  <2>4. \A k \in cmd.games : Offline!Restored(k) => Offline!Restored(k)'
    BY <1>6, <2>1, <2>2 DEF Offline!Restored, Offline!Condition
  <2> QED BY <1>1, <1>6, <2>1, <2>2, <2>3, <2>4 DEF Restoring
<1>8. cmd.at = "idle" => Locked' /\ Looking' /\ Restoring'
  BY <1>1 DEF Locked, Looking, Restoring
<1> QED BY <1>1, <1>4, <1>5, <1>7, <1>8

\* The steps that leave the games alone.
LEMMA OfflineCommands ==
  ASSUME Offline!OfflineAssumption, OfflineInv,
         \/ \E g \in Game : Offline!Looks(g) \/ Offline!Verify(g) \/ Offline!Vanished(g)
         \/ Offline!Looked \/ Offline!AllVerified \/ Offline!Asks \/ Offline!Removed \/ Offline!Killed
         \/ \E d \in Offline!Own : Offline!Removes(d)
  PROVE  OfflineInv'
<1> USE DEF OfflineInv
<1>1. game' = game /\ game \in [Game -> Offline!Condition] /\ open' = open /\ turns' \in 0..MaxTurns
  <2>1. game' = game /\ open' = open
    BY DEF Offline!Looks, Offline!Verify, Offline!Vanished, Offline!Looked, Offline!AllVerified,
       Offline!Asks, Offline!Removed, Offline!Killed, Offline!Removes
  <2>2. turns' = turns \/ Offline!Turn
    BY DEF Offline!Looks, Offline!Verify, Offline!Vanished, Offline!Looked, Offline!AllVerified,
       Offline!Asks, Offline!Removed, Offline!Killed, Offline!Removes
  <2>3. turns' \in 0..MaxTurns /\ game \in [Game -> Offline!Condition]
    BY <2>2 DEF Offline!Turn, Offline!TypeOK, Offline!OfflineAssumption
  <2> QED BY <2>1, <2>3
<1>2. cmd.at # "idle"
  BY DEF Offline!Looks, Offline!Verify, Offline!Vanished, Offline!Looked, Offline!AllVerified,
     Offline!Asks, Offline!Removed, Offline!Killed, Offline!Removes
<1>3. holder = "command" /\ cmd \in CmdType
  BY <1>2 DEF Locked, Offline!TypeOK, CmdType
<1>4. \A g : (Offline!Back(g) <=> Offline!Back(g)') /\ (Offline!Restored(g) <=> Offline!Restored(g)')
  BY <1>1 DEF Offline!Back, Offline!Restored
<1>5. ASSUME NEW told \in {"nothing", "refused", "failed", "restored", "removed"}, Offline!Ends(told), left' = left
      PROVE  OfflineInv'
  BY <1>1, <1>2, <1>5, OfflineEnds
<1>6. ASSUME NEW at \in Offline!Stages \ {"idle", "look"}, NEW todo \in SUBSET cmd.games, Offline!Goes(at, todo), left' = left,
             cmd.kind = "purge" => cmd.games = Game,
             at \in {"restore", "verify", "tickets"} => \A g \in cmd.games \ todo : Offline!Back(g),
             at \in {"tickets", "remove"} => \A g \in cmd.games : Offline!Back(g),
             at = "tickets" => \A g \in cmd.games \ todo : Offline!Restored(g),
             at = "remove" => \A g \in cmd.games : Offline!Restored(g)
      PROVE  OfflineInv'
  <2>1. cmd' = [cmd EXCEPT !.at = at, !.todo = todo, !.part = "loader"] /\ holder' = holder
    BY <1>6 DEF Offline!Goes
  <2>2. cmd'.at = at /\ cmd'.todo = todo /\ cmd'.games = cmd.games /\ cmd'.kind = cmd.kind
    BY <1>3, <2>1 DEF CmdType
  <2>3. Offline!TypeOK'
    BY <1>1, <1>3, <1>6, <2>1 DEF Offline!TypeOK, CmdType
  <2>4. Locked' /\ Looking'
    BY <1>1, <1>2, <1>3, <1>6, <2>1, <2>2 DEF Locked, Looking
  <2>5. Restoring'
    BY <1>4, <1>6, <2>2 DEF Restoring
  <2> QED BY <2>3, <2>4, <2>5
<1>7. ASSUME NEW g \in Game, Offline!Looks(g) PROVE OfflineInv'
  <2>1. cmd.at = "look" /\ g \in cmd.todo /\ left' = left
    BY <1>7 DEF Offline!Looks
  <2>2. CASE Offline!Ends("refused")
    BY <1>5, <2>1, <2>2
  <2>3. CASE /\ game[g].there => ~Offline!InUse(g)
             /\ ~game[g].there => Offline!MayBeMissing
             /\ cmd' = [cmd EXCEPT !.todo = @ \ {g}, !.games = IF game[g].there THEN @ \cup {g} ELSE @]
             /\ UNCHANGED holder
    <3>1. /\ cmd'.at = "look" /\ cmd'.kind = cmd.kind /\ cmd'.todo = cmd.todo \ {g}
          /\ cmd'.games = IF game[g].there THEN cmd.games \cup {g} ELSE cmd.games
      BY <1>3, <2>1, <2>3 DEF CmdType
    <3>2. Offline!TypeOK'
      <4>1. cmd' \in CmdType
        BY <1>3, <2>3 DEF CmdType
      <4> QED BY <1>1, <2>1, <2>3, <4>1 DEF Offline!TypeOK, CmdType
    <3>3. Locked'
      BY <1>1, <1>3, <2>1, <2>3, <3>1 DEF Locked, Offline!InUse
    <3>4. Looking'
      <4>1. cmd.kind = "purge" => game[g].there
        BY <2>3 DEF Offline!MayBeMissing
      <4> QED BY <2>1, <3>1, <4>1 DEF Looking
    <3>5. Restoring'
      BY <3>1 DEF Restoring
    <3> QED BY <3>2, <3>3, <3>4, <3>5
  <2> QED BY <1>7, <2>2, <2>3 DEF Offline!Looks
<1>8. ASSUME NEW g \in Game, Offline!Verify(g) PROVE OfflineInv'
  <2>1. cmd.at = "verify" /\ g \in cmd.todo /\ left' = left
    BY <1>8 DEF Offline!Verify
  <2>2. CASE Offline!Ends("failed") \/ Offline!Ends("restored")
    BY <1>5, <2>1, <2>2
  <2>3. CASE Offline!Verified(g) /\ Offline!Uninstalls /\ Offline!Goes(IF cmd.kind = "check" THEN "verify" ELSE "restore", cmd.todo \ {g})
    <3>1. Offline!Back(g)
      BY <2>3 DEF Offline!Verified, Offline!verifyUninstallTarget
    <3>2. \A k \in cmd.games \ (cmd.todo \ {g}) : Offline!Back(k)
      BY <2>1, <3>1 DEF Restoring
    <3>3. cmd.todo \ {g} \in SUBSET cmd.games /\ (cmd.kind = "purge" => cmd.games = Game)
      BY <2>1 DEF Looking
    <3>4. CASE cmd.kind = "check"
      <4>1. Offline!Goes("verify", cmd.todo \ {g})
        BY <2>3, <3>4
      <4> QED BY <1>6, <2>1, <3>2, <3>3, <4>1 DEF Offline!Stages
    <3>5. CASE cmd.kind # "check"
      <4>1. Offline!Goes("restore", cmd.todo \ {g})
        BY <2>3, <3>5
      <4> QED BY <1>6, <2>1, <3>2, <3>3, <4>1 DEF Offline!Stages
    <3> QED BY <3>4, <3>5
  <2> QED BY <1>8, <2>2, <2>3 DEF Offline!Verify
<1>9. ASSUME NEW g \in Game, Offline!Vanished(g) PROVE OfflineInv'
  BY <1>5, <1>9 DEF Offline!Vanished
<1>10. CASE Offline!Looked
  <2>1. cmd.at = "look" /\ cmd.todo = {} /\ left' = left /\ (cmd.kind = "purge" => cmd.games = Game)
    BY <1>10 DEF Offline!Looked, Looking
  <2>2. CASE Offline!Goes("verify", cmd.games)
    BY <1>6, <2>1, <2>2 DEF Offline!Stages
  <2>3. CASE Offline!Goes("restore", cmd.games)
    BY <1>6, <2>1, <2>3 DEF Offline!Stages
  <2> QED BY <1>10, <2>2, <2>3 DEF Offline!Looked
<1>11. CASE Offline!AllVerified
  <2>1. cmd.todo = {} /\ left' = left
    BY <1>11 DEF Offline!AllVerified
  <2>2. CASE cmd.at = "verify" /\ Offline!Ends("restored")
    BY <1>5, <2>1, <2>2
  <2>3. CASE cmd.at = "restore" /\ Offline!Goes("tickets", cmd.games)
    BY <1>6, <2>1, <2>3 DEF Offline!Stages, Looking, Restoring
  <2> QED BY <1>11, <2>2, <2>3 DEF Offline!AllVerified
<1>12. CASE Offline!Asks
  <2>1. cmd.at = "tickets" /\ cmd.todo = {} /\ left' = left
    BY <1>12 DEF Offline!Asks
  <2>2. CASE Offline!Goes("remove", {})
    BY <1>6, <2>1, <2>2 DEF Offline!Stages, Looking, Restoring
  <2>3. CASE Offline!Ends("refused")
    BY <1>5, <2>1, <2>3
  <2> QED BY <1>12, <2>2, <2>3 DEF Offline!Asks
<1>13. CASE Offline!Removed
  BY <1>5, <1>13 DEF Offline!Removed
<1>14. CASE Offline!Killed
  BY <1>5, <1>14 DEF Offline!Killed
<1>15. ASSUME NEW d \in Offline!Own, Offline!Removes(d) PROVE OfflineInv'
  <2>1. left' = left \ {d} /\ UNCHANGED <<game, holder, open, cmd, turns>>
    BY <1>15 DEF Offline!Removes
  <2> QED BY <1>4, <2>1 DEF Offline!TypeOK, Locked, Looking, Restoring
<1> QED BY <1>7, <1>8, <1>9, <1>10, <1>11, <1>12, <1>13, <1>14, <1>15

\* The steps that put a game back.
LEMMA OfflineRecovery ==
  ASSUME Offline!OfflineAssumption, OfflineInv, NEW g \in Game,
         \/ Offline!RecoverLoader(g) \/ Offline!RecoverRoot(g) \/ Offline!RecoverData(g) \/ Offline!DeactivateRoot(g)
         \/ Offline!RestoreFromBackup(g) \/ Offline!ClearTicket(g)
  PROVE  OfflineInv' /\ left' = left /\ g \in cmd.games /\ cmd.at \notin {"idle", "look"}
           /\ \A k \in Game \ {g} : game'[k] = game[k]
<1> USE DEF OfflineInv
<1>1. g \in cmd.todo /\ UNCHANGED <<open, left, turns>> /\ cmd.at \in {"restore", "tickets"}
  BY DEF Offline!RecoverLoader, Offline!RecoverRoot, Offline!RecoverData, Offline!DeactivateRoot,
     Offline!RestoreFromBackup, Offline!ClearTicket, Offline!Turns, Offline!Then, Offline!TypeOK
<1>2. g \in cmd.games /\ holder = "command" /\ cmd \in CmdType /\ cmd.games \subseteq Game
  BY <1>1 DEF Looking, Locked, Offline!TypeOK, CmdType
<1>3. game \in [Game -> Offline!Condition] /\ game[g] \in Offline!Condition
  BY DEF Offline!TypeOK
\* Such a step changes one field of g's condition, or nothing.
<1>4. \E c \in Offline!Condition : game' = [game EXCEPT ![g] = c] /\ c.ticket \in {game[g].ticket, "none"}
  <2>0. game = [game EXCEPT ![g] = game[g]]
    BY <1>3
  <2>1. CASE Offline!RecoverLoader(g)
    <3>1. [game[g] EXCEPT !.loader = "none"] \in Offline!Condition /\ [game[g] EXCEPT !.loader = "none"].ticket = game[g].ticket
      BY <1>3 DEF Offline!Condition
    <3> QED BY <1>3, <2>0, <2>1, <3>1 DEF Offline!RecoverLoader
  <2>2. CASE Offline!RecoverRoot(g)
    <3>1. PICK r \in IF game[g].root = "intent" THEN {"plain", "links"} ELSE {game[g].root} :
             game' = [game EXCEPT ![g].root = r]
      BY <2>2 DEF Offline!RecoverRoot
    <3>2. [game[g] EXCEPT !.root = r] \in Offline!Condition /\ [game[g] EXCEPT !.root = r].ticket = game[g].ticket
      BY <1>3 DEF Offline!Condition
    <3> QED BY <1>3, <3>1, <3>2
  <2>3. CASE Offline!RecoverData(g) \/ Offline!RestoreFromBackup(g)
    <3>1. [game[g] EXCEPT !.data = "plain"] \in Offline!Condition /\ [game[g] EXCEPT !.data = "plain"].ticket = game[g].ticket
      BY <1>3 DEF Offline!Condition
    <3> QED BY <1>3, <2>0, <2>3, <3>1 DEF Offline!RecoverData, Offline!RestoreFromBackup
  <2>4. CASE Offline!DeactivateRoot(g)
    <3>1. [game[g] EXCEPT !.root = "plain"] \in Offline!Condition /\ [game[g] EXCEPT !.root = "plain"].ticket = game[g].ticket
      BY <1>3 DEF Offline!Condition
    <3> QED BY <1>3, <2>0, <2>4, <3>1 DEF Offline!DeactivateRoot
  <2>5. CASE Offline!ClearTicket(g)
    <3>1. [game[g] EXCEPT !.ticket = "none"] \in Offline!Condition /\ [game[g] EXCEPT !.ticket = "none"].ticket = "none"
      BY <1>3 DEF Offline!Condition
    <3> QED BY <1>3, <2>0, <2>5, <3>1 DEF Offline!ClearTicket
  <2> QED BY <2>1, <2>2, <2>3, <2>4, <2>5
<1>5. game' \in [Game -> Offline!Condition] /\ \A k \in Game \ {g} : game'[k] = game[k]
  BY <1>3, <1>4
<1>6. \A k \in cmd.games : game'[k].ticket # "fresh"
  BY <1>1, <1>2, <1>3, <1>4 DEF Locked
<1>7. \A k \in Game \ {g} : (Offline!Back(k) => Offline!Back(k)') /\ (Offline!Restored(k) => Offline!Restored(k)')
  BY <1>5 DEF Offline!Back, Offline!Restored
<1>8. ASSUME cmd'.at \in {"restore", "verify"}, cmd'.todo = cmd.todo, cmd'.games = cmd.games, cmd'.kind = cmd.kind,
             cmd' \in CmdType, holder' = holder, cmd.at = "restore"
      PROVE  OfflineInv'
  <2>1. Offline!TypeOK'
    BY <1>1, <1>5, <1>8 DEF Offline!TypeOK, CmdType
  <2>2. Locked' /\ Looking'
    BY <1>1, <1>2, <1>6, <1>8 DEF Locked, Looking
  <2>3. Restoring'
    BY <1>1, <1>2, <1>7, <1>8 DEF Restoring
  <2> QED BY <2>1, <2>2, <2>3
<1>9. CASE Offline!RecoverLoader(g) \/ Offline!RecoverRoot(g) \/ Offline!RecoverData(g)
  <2>1. PICK part \in {"loader", "root", "data", "again", "links"} : Offline!Then(part)
    BY <1>9 DEF Offline!RecoverLoader, Offline!RecoverRoot, Offline!RecoverData
  <2>2. cmd.at = "restore"
    BY <1>9 DEF Offline!RecoverLoader, Offline!RecoverRoot, Offline!RecoverData, Offline!Turns
  <2> QED BY <1>1, <1>2, <1>5, <1>8, <2>1, <2>2 DEF Offline!Then, CmdType
<1>10. CASE Offline!DeactivateRoot(g)
  <2>1. cmd' = [cmd EXCEPT !.at = "verify", !.part = "loader"] /\ holder' = holder /\ cmd.at = "restore"
    BY <1>10 DEF Offline!DeactivateRoot, Offline!Turns
  <2> QED BY <1>1, <1>2, <1>5, <1>8, <2>1 DEF CmdType, Offline!Stages
<1>11. CASE Offline!RestoreFromBackup(g)
  <2>1. Offline!Ends("restored") \/ Offline!Ends("failed")
    BY <1>11 DEF Offline!RestoreFromBackup
  <2> QED BY <1>1, <1>2, <1>5, <2>1, OfflineEnds DEF Offline!TypeOK
<1>12. CASE Offline!ClearTicket(g)
  <2>1. CASE Offline!Ends("failed")
    BY <1>1, <1>2, <1>5, <2>1, OfflineEnds DEF Offline!TypeOK
  <2>2. CASE /\ Offline!verifyUninstallTarget(g) /\ game' = [game EXCEPT ![g].ticket = "none"]
             /\ Offline!Goes("tickets", cmd.todo \ {g})
    <3>1. cmd.at = "tickets" /\ cmd' = [cmd EXCEPT !.at = "tickets", !.todo = cmd.todo \ {g}, !.part = "loader"]
          /\ holder' = holder
      BY <1>12, <2>2 DEF Offline!ClearTicket, Offline!Goes
    <3>2. cmd'.at = "tickets" /\ cmd'.todo = cmd.todo \ {g} /\ cmd'.games = cmd.games /\ cmd'.kind = cmd.kind
          /\ cmd' \in CmdType
      BY <1>2, <3>1 DEF CmdType, Offline!Stages
    <3>3. Offline!Restored(g)' /\ Offline!Back(g)'
      BY <1>3, <2>2 DEF Offline!verifyUninstallTarget, Offline!Restored, Offline!Back, Offline!Condition
    <3>4. Offline!TypeOK'
      BY <1>1, <1>5, <3>1, <3>2 DEF Offline!TypeOK, CmdType
    <3>5. Locked' /\ Looking'
      BY <1>1, <1>2, <1>6, <3>1, <3>2 DEF Locked, Looking
    <3>6. Restoring'
      BY <1>1, <1>2, <1>7, <3>1, <3>2, <3>3 DEF Restoring
    <3> QED BY <1>1, <1>2, <1>5, <3>4, <3>5, <3>6
  <2> QED BY <1>12, <2>1, <2>2 DEF Offline!ClearTicket
<1> QED BY <1>1, <1>2, <1>5, <1>9, <1>10, <1>11, <1>12

\* A command begins, or the service or a window does.
LEMMA OfflineBegins ==
  ASSUME Offline!OfflineAssumption, OfflineInv,
         Offline!ServiceStarts \/ Offline!ServiceEnds \/ Offline!Window \/ (\E k \in Offline!Commands : Offline!Begins(k)) \/ UNCHANGED Offline!vars
  PROVE  OfflineInv'
<1> USE DEF OfflineInv
<1>1. game' = game /\ left' = left /\ turns' \in 0..MaxTurns /\ open' \in BOOLEAN
  <2>1. game' = game /\ left' = left
    BY DEF Offline!ServiceStarts, Offline!ServiceEnds, Offline!Window, Offline!Begins, Offline!vars
  <2>2. turns' = turns \/ Offline!Turn
    BY DEF Offline!ServiceStarts, Offline!ServiceEnds, Offline!Window, Offline!Begins, Offline!vars
  <2>3. open' = open \/ open' = ~open
    BY DEF Offline!ServiceStarts, Offline!ServiceEnds, Offline!Window, Offline!Begins, Offline!vars
  <2>4. turns' \in 0..MaxTurns
    BY <2>2 DEF Offline!Turn, Offline!TypeOK, Offline!OfflineAssumption
  <2>5. open' \in BOOLEAN
    BY <2>3, Zenon DEF Offline!TypeOK
  <2> QED BY <2>1, <2>4, <2>5
<1>2. \A g : (Offline!Back(g) <=> Offline!Back(g)') /\ (Offline!Restored(g) <=> Offline!Restored(g)')
  BY <1>1 DEF Offline!Back, Offline!Restored
<1>3. ASSUME NEW k \in Offline!Commands, Offline!Begins(k) PROVE OfflineInv'
  <2>1. PICK S \in SUBSET Game : /\ cmd' = [Offline!Idle EXCEPT !.at = "look", !.kind = k, !.todo = S]
                                 /\ k = "purge" => S = Game
    BY <1>3 DEF Offline!Begins
  <2>2. cmd'.at = "look" /\ cmd'.kind = k /\ cmd'.todo = S /\ cmd'.games = {} /\ holder' = "command"
    BY <1>3, <2>1 DEF Offline!Begins, Offline!Idle
  <2>3. cmd' \in CmdType
    BY <2>1 DEF CmdType, Offline!Idle, Offline!Stages
  <2>4. Offline!TypeOK'
    BY <1>1, <2>2, <2>3 DEF Offline!TypeOK, CmdType
  <2> QED BY <2>1, <2>2, <2>4 DEF Locked, Looking, Restoring
<1>4. CASE Offline!ServiceStarts \/ Offline!ServiceEnds \/ Offline!Window \/ UNCHANGED Offline!vars
  <2>1. cmd' = cmd /\ (holder' = "command" <=> holder = "command") /\ holder' \in {"nobody", "service", "command"}
    BY <1>4 DEF Offline!ServiceStarts, Offline!ServiceEnds, Offline!Window, Offline!vars, Offline!TypeOK
  <2> QED BY <1>1, <1>2, <2>1 DEF Offline!TypeOK, Locked, Looking, Restoring
<1> QED BY <1>3, <1>4

LEMMA OfflineNext == Offline!OfflineAssumption /\ OfflineInv /\ [Offline!Next]_(Offline!vars) => OfflineInv'
BY OfflineWorld, OfflineCommands, OfflineRecovery, OfflineBegins DEF Offline!Next, Offline!Recovery

\* The invariant holds in every state (Offline's Init and Next).
THEOREM OfflineInvariance ==
  ASSUME Offline!OfflineAssumption
  PROVE  Offline!Spec => []OfflineInv
BY OfflineInit, OfflineNext, PTL DEF Offline!Spec

\* Every variable of Offline keeps its type.
THEOREM OfflineTypeCorrect ==
  ASSUME Offline!OfflineAssumption
  PROVE  Offline!Spec => []Offline!TypeOK
<1>1. OfflineInv => Offline!TypeOK
  BY DEF OfflineInv
<1> QED BY <1>1, OfflineInvariance, PTL

\* Nothing is deleted before every game that was taken is back, nor the mods of
\* a game that was not there unless it is to be forgotten (uninstall.go:124, :147).
THEOREM NothingDeletedEarly ==
  ASSUME Offline!OfflineAssumption
  PROVE  Offline!Spec => [][Offline!DeletedWhenBack /\ Offline!MissingKeepsMods]_(Offline!vars)
<1>1. OfflineInv /\ [Offline!Next]_(Offline!vars) => Offline!DeletedWhenBack /\ Offline!MissingKeepsMods
  <2> SUFFICES ASSUME OfflineInv, [Offline!Next]_(Offline!vars), left' # left
               PROVE  /\ \A g \in cmd.games : Offline!Restored(g)
                      /\ cmd.kind = "purge" => cmd.games = Game
    BY DEF Offline!DeletedWhenBack, Offline!MissingKeepsMods
  <2>1. \E d \in Offline!Own : Offline!Removes(d)
    BY DEF Offline!Next, Offline!World, Offline!Recovery, Offline!ServiceStarts, Offline!ServiceEnds,
       Offline!Window, Offline!ServiceActs, Offline!ServiceLaunches, Offline!Settles, Offline!Happens,
       Offline!Begins, Offline!Looks, Offline!Looked, Offline!RecoverLoader, Offline!RecoverRoot, Offline!RecoverData, Offline!DeactivateRoot, Offline!RestoreFromBackup, Offline!Verify,
       Offline!Vanished, Offline!AllVerified, Offline!ClearTicket, Offline!Asks, Offline!Removed, Offline!Killed, Offline!Then, Offline!vars
  <2>2. cmd.at = "remove"
    BY <2>1 DEF Offline!Removes
  <2> QED BY <2>2 DEF OfflineInv, Looking, Restoring
<1> QED BY <1>1, OfflineInvariance, PTL DEF Offline!Spec

\* No command puts back the folder of a game that was launched a moment ago
\* (session_ticket.go:138).
THEOREM LaunchedGamesAreLeft ==
  ASSUME Offline!OfflineAssumption
  PROVE  Offline!Spec => [][Offline!LaunchedIsLeft]_(Offline!vars)
<1>1. Offline!OfflineAssumption /\ OfflineInv /\ [Offline!Next]_(Offline!vars) => Offline!LaunchedIsLeft
  <2> SUFFICES ASSUME Offline!OfflineAssumption, OfflineInv, [Offline!Next]_(Offline!vars), NEW g \in Game,
                      holder = "command", game[g].ticket = "fresh", ~Offline!Back(g)
               PROVE  ~Offline!Back(g)'
    BY DEF Offline!LaunchedIsLeft
  <2>1. ASSUME NEW k \in Game, Offline!World(k) PROVE ~Offline!Back(g)'
    BY <2>1, OfflineWorld DEF Offline!Back
  <2>2. ASSUME NEW k \in Game,
               \/ Offline!RecoverLoader(k) \/ Offline!RecoverRoot(k) \/ Offline!RecoverData(k) \/ Offline!DeactivateRoot(k)
               \/ Offline!RestoreFromBackup(k) \/ Offline!ClearTicket(k)
        PROVE  ~Offline!Back(g)'
    <3>1. k \in cmd.games /\ cmd.at # "idle" /\ \A l \in Game \ {k} : game'[l] = game[l]
      BY <2>2, OfflineRecovery
    <3>2. g # k
      BY <3>1 DEF OfflineInv, Locked
    <3> QED BY <3>1, <3>2 DEF Offline!Back
  <2>3. CASE game' = game
    BY <2>3 DEF Offline!Back
  <2> QED BY <2>1, <2>2, <2>3 DEF Offline!Next, Offline!Recovery, Offline!ServiceStarts,
     Offline!ServiceEnds, Offline!Window, Offline!Begins, Offline!Looks, Offline!Looked, Offline!Verify,
         Offline!Vanished, Offline!AllVerified, Offline!Asks, Offline!Removed, Offline!Killed, Offline!Removes, Offline!vars
<1> QED BY <1>1, OfflineInvariance, PTL DEF Offline!Spec

-----------------------------------------------------------------------------
(***************************************************************************)
(* ScriptExtender.  The invariant follows the two sides of the exclusion:  *)
(* while an install copies and records, nothing is mounted (Reserved), and *)
(* from the mount to the end of the game nothing is copied (Launching); so *)
(* what an install has copied, and what a launch has checked, still holds  *)
(* at the next step (Copied, Checked).                                     *)
(***************************************************************************)
\* An install that holds the reservation; what it has copied is in place.
Reserved == install.at \in {"copying", "copied"} => ~mounted /\ install.build \in Build
Copied ==
    /\ install.at = "fetched" => install.build \in Build /\ install.todo = DOMAIN install.build
    /\ install.at \in {"copying", "copied"} =>
         /\ install.todo \subseteq DOMAIN install.build
         /\ \A f \in DOMAIN install.build : disk[f] = install.build[f] \/ f \in install.todo
    /\ install.at = "copied" => install.todo = {}

\* A launch, and the game it started; the files it has checked are as recorded.
Launching ==
    /\ launch.at # "idle" => playing = "no"
    /\ launch.at \in {"mounted", "checking", "checked", "unverified"} \/ playing # "no" => mounted
Checked ==
    /\ launch.at \in {"checking", "checked"} =>
         /\ manifest # Extender!Nothing
         /\ \A f \in DOMAIN manifest : disk[f] = manifest[f] \/ f \in launch.todo
    /\ launch.at = "checked" => launch.todo = {}
    /\ playing = "checked" =>
         manifest # Extender!Nothing /\ \A f \in DOMAIN manifest : disk[f] = manifest[f]

ExtenderInv == Extender!TypeOK /\ Reserved /\ Copied /\ Launching /\ Checked

LEMMA InitExtends == Extender!ExtenderAssumption /\ Extender!Init => ExtenderInv
<1> SUFFICES ASSUME Extender!ExtenderAssumption, Extender!Init PROVE ExtenderInv
  OBVIOUS
<1>1. Extender!TypeOK
  <2>1. install \in [at : {"idle", "fetched", "copying", "copied"}, build : Build \cup {<<>>},
                     todo : SUBSET File]
        /\ launch \in [at : Extender!LaunchStates, todo : SUBSET File]
    BY DEF Extender!Init, Extender!Idle, Extender!NoLaunch, Extender!LaunchStates
  <2>2. disk \in [File -> Extender!Content \cup {Absent, "other"}] /\ manifest \in Extender!Listed \cup {Extender!Nothing}
        /\ kills \in 0..MaxKills
    BY DEF Extender!Init, Extender!ExtenderAssumption
  <2>3. mounted \in BOOLEAN /\ playing \in {"no", "checked", "unverified"}
    BY Zenon DEF Extender!Init
  <2> QED BY <2>1, <2>2, <2>3, Zenon DEF Extender!TypeOK
<1>2. Reserved /\ Copied /\ Launching /\ Checked
  BY DEF Extender!Init, Extender!Idle, Extender!NoLaunch, Reserved, Copied, Launching, Checked
<1> QED BY <1>1, <1>2 DEF ExtenderInv

LEMMA InstallExtends ==
  ASSUME Extender!ExtenderAssumption, ExtenderInv, (\E b \in Build : Extender!Download(b)) \/ Extender!Begin \/ Extender!Copy \/ Extender!Record
  PROVE  ExtenderInv'
<1> USE DEF ExtenderInv
<1>1. ASSUME NEW b \in Build, Extender!Download(b) PROVE ExtenderInv'
  <2>1. install' = [at |-> "fetched", build |-> b, todo |-> DOMAIN b] /\ DOMAIN b \subseteq File
        /\ UNCHANGED <<disk, manifest, launch, mounted, playing, kills>>
    BY <1>1 DEF Extender!Download, Extender!Fetched, Extender!ExtenderAssumption
  <2> QED BY <2>1 DEF Extender!TypeOK, Reserved, Copied, Launching, Checked
<1>2. CASE Extender!Begin
  <2>1. CASE Extender!FolderFree
    <3>1. install' = [install EXCEPT !.at = "copying"] /\ install.at = "fetched" /\ ~mounted
          /\ UNCHANGED <<disk, manifest, launch, mounted, playing, kills>>
      BY <1>2, <2>1 DEF Extender!Begin, Extender!FolderFree
    <3> QED BY <3>1 DEF Extender!TypeOK, Reserved, Copied, Launching, Checked
  <2>2. CASE ~Extender!FolderFree
    <3>1. install' = Extender!Idle /\ UNCHANGED <<disk, manifest, launch, mounted, playing, kills>>
      BY <1>2, <2>2 DEF Extender!Begin
    <3> QED BY <3>1 DEF Extender!Idle, Extender!TypeOK, Reserved, Copied, Launching, Checked
  <2> QED BY <2>1, <2>2
<1>3. CASE Extender!Copy
  <2>1. /\ install.at = "copying" /\ ~mounted /\ install.build \in Build
        /\ launch.at \notin {"mounted", "checking", "checked", "unverified"} /\ playing = "no"
        /\ UNCHANGED <<manifest, launch, mounted, playing, kills>>
    BY <1>3 DEF Extender!Copy, Reserved, Launching
  <2>2. ASSUME NEW f \in install.todo, Extender!Put(f), install' = [install EXCEPT !.todo = @ \ {f}]
        PROVE  ExtenderInv'
    <3>1. f \in File /\ disk' = [disk EXCEPT ![f] = install.build[f]]
      BY <2>2 DEF Extender!TypeOK, Extender!Put
    <3>2. f \in DOMAIN install.build /\ install.build[f] \in Extender!Content
      BY <2>1 DEF Copied, Extender!Content
    <3>3. Extender!TypeOK'
      <4>1. disk' \in [File -> Extender!Content \cup {Absent, "other"}]
        BY <3>1, <3>2 DEF Extender!TypeOK
      <4>2. install' \in [at : {"idle", "fetched", "copying", "copied"}, build : Build \cup {<<>>},
                          todo : SUBSET File]
        BY <2>2 DEF Extender!TypeOK
      <4> QED BY <2>1, <4>1, <4>2, Zenon DEF Extender!TypeOK
    <3>4. \A g \in DOMAIN install.build :
            disk'[g] = install.build[g] \/ g \in install.todo \ {f}
      <4>1. DOMAIN install.build \subseteq File /\ disk \in [File -> Extender!Content \cup {Absent, "other"}]
        BY <2>1 DEF Extender!ExtenderAssumption, Extender!TypeOK
      <4> QED BY <2>1, <3>1, <4>1 DEF Copied
    <3>5. install'.at = "copying" /\ install'.build = install.build
          /\ install'.todo = install.todo \ {f}
      BY <2>1, <2>2 DEF Extender!TypeOK
    <3>6. Reserved' /\ Copied'
      BY <2>1, <3>4, <3>5 DEF Reserved, Copied
    <3>7. Launching' /\ Checked'
      BY <2>1 DEF Launching, Checked
    <3> QED BY <3>3, <3>6, <3>7
  <2>3. CASE install.todo = {} /\ install' = [install EXCEPT !.at = "copied"] /\ UNCHANGED disk
    BY <2>1, <2>3 DEF Extender!TypeOK, Reserved, Copied, Launching, Checked
  <2>4. CASE Extender!CopyFails
    <3>1. install' = Extender!Idle /\ UNCHANGED disk
      BY <2>4 DEF Extender!CopyFails
    <3> QED BY <2>1, <3>1 DEF Extender!Idle, Extender!TypeOK, Reserved, Copied, Launching, Checked
  <2> QED BY <1>3, <2>2, <2>3, <2>4 DEF Extender!Copy
<1>4. CASE Extender!Record
  <2>1. install.at = "copied" /\ ~mounted /\ install.build \in Build
        /\ launch.at \notin {"mounted", "checking", "checked", "unverified"} /\ playing = "no"
        /\ install' = Extender!Idle /\ UNCHANGED <<disk, launch, mounted, playing, kills>>
    BY <1>4 DEF Extender!Record, Reserved, Launching
  <2>2. ASSUME NEW S \in SUBSET DOMAIN install.build, manifest' = [f \in S |-> disk[f]]
        PROVE  manifest' \in Extender!Listed
    <3>1. \A f \in S : disk[f] = install.build[f]
      BY <2>1, <2>2 DEF Copied
    <3>2. manifest' = [f \in S |-> install.build[f]]
      BY <2>2, <3>1
    <3>3. DEFINE b == install.build
    <3>4. [f \in S |-> b[f]] \in {[f \in T |-> b[f]] : T \in SUBSET DOMAIN b}
      BY <2>2, Zenon
    <3> QED BY <2>1, <3>2, <3>4 DEF Extender!Listed
  <2>3. manifest' \in Extender!Listed \cup {Extender!Nothing}
    BY <1>4, <2>1, <2>2 DEF Extender!Record, Extender!TypeOK
  <2> QED BY <2>1, <2>3 DEF Extender!Idle, Extender!TypeOK, Reserved, Copied, Launching, Checked
<1> QED BY <1>1, <1>2, <1>3, <1>4

LEMMA LaunchExtends ==
  ASSUME Extender!ExtenderAssumption, ExtenderInv, Extender!Admit \/ Extender!MountFarm \/ Extender!ReadManifest \/ Extender!CheckFile \/ Extender!Start
  PROVE  ExtenderInv'
<1> USE DEF ExtenderInv
<1>1. CASE Extender!Admit
  BY <1>1 DEF Extender!Admit, Extender!LaunchStates, Extender!TypeOK, Reserved, Copied, Launching, Checked
<1>2. CASE Extender!MountFarm
  <2>1. CASE Extender!MayMount /\ mounted' = TRUE /\ launch' = [launch EXCEPT !.at = "mounted"]
    BY <1>2, <2>1 DEF Extender!MountFarm, Extender!MayMount, Extender!LaunchStates, Extender!TypeOK, Reserved, Copied,
       Launching, Checked
  <2>2. CASE mounted /\ launch' = [launch EXCEPT !.at = "mounted"] /\ UNCHANGED mounted
    BY <1>2, <2>2 DEF Extender!MountFarm, Extender!LaunchStates, Extender!TypeOK, Reserved, Copied, Launching, Checked
  <2>3. CASE launch' = Extender!NoLaunch /\ UNCHANGED mounted
    BY <1>2, <2>3 DEF Extender!MountFarm, Extender!NoLaunch, Extender!LaunchStates, Extender!TypeOK, Reserved, Copied,
       Launching, Checked
  <2> QED BY <1>2, <2>1, <2>2, <2>3 DEF Extender!MountFarm
<1>3. CASE Extender!ReadManifest
  <2>1. DOMAIN manifest \subseteq File
    <3>1. CASE manifest \in Extender!Listed
      <4>1. PICK b \in Build : \E S \in SUBSET DOMAIN b : manifest = [f \in S |-> b[f]]
        BY <3>1 DEF Extender!Listed
      <4> QED BY <4>1 DEF Extender!ExtenderAssumption
    <3>2. CASE manifest = Extender!Nothing
      BY <3>2 DEF Extender!Nothing
    <3> QED BY <3>1, <3>2 DEF Extender!TypeOK
  <2>2. launch.at = "mounted" /\ UNCHANGED <<disk, manifest, install, mounted, playing, kills>>
    BY <1>3 DEF Extender!ReadManifest
  <2>3. CASE manifest # Extender!Nothing /\ launch' = [at |-> "checking", todo |-> DOMAIN manifest]
    BY <2>1, <2>2, <2>3 DEF Extender!LaunchStates, Extender!TypeOK, Reserved, Copied, Launching, Checked
  <2>4. CASE launch' = [at |-> "unverified", todo |-> {}]
    BY <2>2, <2>4 DEF Extender!LaunchStates, Extender!TypeOK, Reserved, Copied, Launching, Checked
  <2> QED BY <1>3, <2>3, <2>4 DEF Extender!ReadManifest
<1>4. CASE Extender!CheckFile
  BY <1>4 DEF Extender!CheckFile, Extender!AsRecorded, Extender!NoLaunch, Extender!LaunchStates, Extender!TypeOK, Reserved,
     Copied, Launching, Checked
<1>5. CASE Extender!Start
  BY <1>5 DEF Extender!Start, Extender!NoLaunch, Extender!LaunchStates, Extender!TypeOK, Reserved, Copied, Launching, Checked
<1> QED BY <1>1, <1>2, <1>3, <1>4, <1>5

LEMMA WorldExtends ==
  ASSUME Extender!ExtenderAssumption, ExtenderInv, Extender!Quit \/ Extender!Unmount \/ Extender!Meddle \/ Extender!Kill
  PROVE  ExtenderInv'
<1> USE DEF ExtenderInv
<1>1. CASE Extender!Quit
  BY <1>1 DEF Extender!Quit, Extender!TypeOK, Reserved, Copied, Launching, Checked
<1>2. CASE Extender!Unmount
  BY <1>2 DEF Extender!Unmount, Extender!TypeOK, Reserved, Copied, Launching, Checked
<1>3. CASE Extender!Meddle
  BY <1>3 DEF Extender!Meddle, Extender!TypeOK, Reserved, Copied, Launching, Checked
<1>4. CASE Extender!Kill
  BY <1>4 DEF Extender!Kill, Extender!ExtenderAssumption, Extender!Idle, Extender!NoLaunch,
     Extender!LaunchStates, Extender!TypeOK, Reserved, Copied, Launching, Checked
<1> QED BY <1>1, <1>2, <1>3, <1>4

THEOREM ExtenderInvariance ==
  ASSUME Extender!ExtenderAssumption
  PROVE  Extender!Spec => []ExtenderInv
<1>1. Extender!Init => ExtenderInv
  BY InitExtends
<1>2. ExtenderInv /\ [Extender!Next]_(Extender!vars) => ExtenderInv'
  <2> SUFFICES ASSUME ExtenderInv, [Extender!Next]_(Extender!vars) PROVE ExtenderInv'
    OBVIOUS
  <2>1. CASE UNCHANGED Extender!vars
    BY <2>1 DEF Extender!vars, ExtenderInv, Extender!TypeOK, Reserved, Copied, Launching, Checked
  <2> QED BY <2>1, InstallExtends, LaunchExtends, WorldExtends DEF Extender!Next
<1> QED BY <1>1, <1>2, PTL DEF Extender!Spec

\* Every variable of ScriptExtender keeps its type.
THEOREM ExtenderTypeCorrect ==
  ASSUME Extender!ExtenderAssumption
  PROVE  Extender!Spec => []Extender!TypeOK
<1>1. ExtenderInv => Extender!TypeOK
  BY DEF ExtenderInv
<1> QED BY <1>1, ExtenderInvariance, PTL

\* Of an extender whose launch was checked the recorded files are of one build and
\* as they were recorded (launch.go:133, script_extender.go:199).
THEOREM RecordedFilesPlay ==
  ASSUME Extender!ExtenderAssumption
  PROVE  Extender!Spec => []Extender!PlaysAsRecorded
<1>1. ExtenderInv => Extender!PlaysAsRecorded
  <2> SUFFICES ASSUME ExtenderInv, playing = "checked"
               PROVE  \E b \in Build : \A f \in DOMAIN manifest : f \in DOMAIN b /\ disk[f] = b[f]
    BY DEF Extender!PlaysAsRecorded
  <2>1. manifest \in Extender!Listed /\ \A f \in DOMAIN manifest : disk[f] = manifest[f]
    BY DEF ExtenderInv, Checked, Extender!TypeOK
  <2>2. PICK b \in Build : \E S \in SUBSET DOMAIN b : manifest = [f \in S |-> b[f]]
    BY <2>1 DEF Extender!Listed
  <2> QED BY <2>1, <2>2
<1> QED BY <1>1, ExtenderInvariance, PTL

\* No install changes a file of the extender between the check of a launch and
\* the end of the game (script_extender.go:220).
THEOREM LaunchesAreUndisturbed ==
  ASSUME Extender!ExtenderAssumption
  PROVE  Extender!Spec => [][Extender!NotUnderLaunch]_(Extender!vars)
<1>1. ExtenderInv /\ [Extender!Next]_(Extender!vars) => [Extender!NotUnderLaunch]_(Extender!vars)
  <2> SUFFICES ASSUME ExtenderInv, Extender!Next PROVE Extender!NotUnderLaunch
    OBVIOUS
  <2>1. CASE Extender!Copy
    BY <2>1 DEF Extender!Copy, ExtenderInv, Reserved, Launching, Extender!NotUnderLaunch
  <2>2. CASE Extender!Meddle
    BY <2>2 DEF Extender!Meddle, Extender!NotUnderLaunch
  <2>3. CASE ~Extender!Copy /\ ~Extender!Meddle
    BY <2>3 DEF Extender!Next, Extender!Download, Extender!Begin, Extender!Record, Extender!Admit,
       Extender!MountFarm, Extender!ReadManifest, Extender!CheckFile, Extender!Start, Extender!Quit,
       Extender!Unmount, Extender!Kill, Extender!NotUnderLaunch
  <2> QED BY <2>1, <2>2, <2>3
<1> QED BY <1>1, ExtenderInvariance, PTL DEF Extender!Spec

-----------------------------------------------------------------------------
(***************************************************************************)
(* Installs.  An extraction is on its way, kept, to be removed, or gone    *)
(* (Owners); what is kept is whole, and its lease is that of the one       *)
(* installation that is past the lock of the mod (Turns, Leases).  How far *)
(* an installation is says whether it has published, and so does what is   *)
(* remembered of its request (StageFits, Told).                            *)
(***************************************************************************)
(***************************************************************************)
(* The invariant.                                                          *)
(***************************************************************************)
Fetch == [kind : {"preview"}, pc : {"extract", "put"}, x : Installs!Extractions]
Steps == {"wait", "copy", "rename", "merge", "swap", "index", "discard", "register", "release", "finish"}
Serving == [kind : {"install"}, pc : Steps, r : Requests, mode : Installs!Modes, x : Installs!Extractions \cup {None},
            leased : BOOLEAN, cancelled : BOOLEAN, todo : SUBSET Archive, got : Installs!Contents,
            linked : SUBSET (Before \cup Archive), staged : Installs!Contents, published : BOOLEAN,
            err : {"none", "stopped", "error"}]

ShelfTyped ==
    /\ disk \in [Installs!Extractions -> {"none", "partial", "whole"}]
    /\ Installs!Cached \subseteq Installs!Extractions
    /\ previews \in [Installs!Cached -> [leases : {0, 1}, pendingEvict : BOOLEAN]]
    /\ doomed \subseteq Installs!Extractions /\ made \in 0..MaxExtractions
ModTyped == mod \in Installs!Contents \cup {None} /\ flag \in BOOLEAN
ToldTyped ==
    /\ outcome \in [Requests -> {None, "running", "succeeded", "failed", "cancelled"}]
    /\ did \in [Requests -> [published : {0, 1}, cleared : BOOLEAN]]
OpTyped == op \in [Clients -> {Installs!Idle} \cup Fetch \cup Serving]

\* An installation that is past the mod's lock, and one that has a lease.
Changing == {"copy", "rename", "merge", "swap", "index", "discard", "register"}
Works(o) == o.kind = "install" /\ (o.pc \in Changing \/ (o.pc = "release" /\ o.leased))
Holds(o) == o.kind = "install" /\ o.leased /\ o.pc # "finish"
Turns ==
    /\ \A c, d \in Clients : Works(op[c]) /\ Works(op[d]) => c = d
    /\ \A c \in Clients : op[c].kind = "install" =>
          /\ op[c].pc = "wait" => ~op[c].leased
          /\ op[c].mode = "merge" /\ op[c].pc = "copy" => mod # None

\* An extraction is on its way, kept, to be removed, or gone.
Fetches(o, x) == o.kind = "preview" /\ o.x = x
Owners ==
    /\ \A x \in Installs!Extractions : x > made => disk[x] = "none" /\ x \notin Installs!Cached \cup doomed
    /\ \A c \in Clients : op[c].kind = "preview" =>
          /\ op[c].x <= made /\ op[c].x \notin Installs!Cached \cup doomed
          /\ op[c].pc = "put" => disk[op[c].x] = "whole"
    /\ \A c, d \in Clients : op[c].kind = "preview" /\ op[d].kind = "preview" /\ op[c].x = op[d].x => c = d
    /\ \A x \in Installs!OnDisk : x \in Installs!Cached \cup doomed \cup left \/ \E c \in Clients : Fetches(op[c], x)

\* A preview that is kept is whole, and its lease is that of an installation.
Leases ==
    /\ \A x \in Installs!Cached :
          /\ disk[x] = "whole" /\ x \notin doomed
          /\ previews[x].leases = 1 => \E c \in Clients : Holds(op[c]) /\ op[c].x = x
          /\ previews[x].pendingEvict => previews[x].leases = 1
    /\ \A c \in Clients : Holds(op[c]) => op[c].x \in Installs!Cached /\ previews[op[c].x].leases = 1

\* How far an installation is says whether it has published, and so does its request.
StageFits(o) ==
    /\ o.pc \in {"wait", "copy", "rename", "merge", "swap"} => ~o.published /\ o.err = "none"
    /\ o.pc \in {"index", "discard", "register"} => o.published /\ o.err = "none"
    /\ o.err = "none" /\ o.pc \in {"release", "finish"} => o.published
Told ==
    /\ \A c \in Clients : op[c].kind = "install" =>
          /\ StageFits(op[c]) /\ outcome[op[c].r] = "running"
          /\ did[op[c].r].published = IF op[c].published THEN 1 ELSE 0
    /\ \A c, d \in Clients : op[c].kind = "install" /\ op[d].kind = "install" /\ op[c].r = op[d].r => c = d
    /\ \A r \in Requests :
          /\ outcome[r] = None => did[r].published = 0
          /\ outcome[r] = "succeeded" => did[r].published = 1
          /\ outcome[r] = "cancelled" => did[r].published = 0

Shelf == ShelfTyped /\ Owners /\ Leases
InstallsInv == OpTyped /\ ModTyped /\ ToldTyped /\ Turns /\ Shelf /\ Told

(***************************************************************************)
(* What a step of one client leaves as it was.                             *)
(***************************************************************************)
LEMMA OpKinds ==
  ASSUME OpTyped, NEW c \in Clients
  PROVE  /\ op[c].kind = "install" => op[c] \in Serving
         /\ op[c].kind = "preview" => op[c] \in Fetch
         /\ ~Installs!Busy(c) => op[c] = Installs!Idle
         /\ op[c] \in {Installs!Idle} \cup Fetch \cup Serving
BY DEF OpTyped, Installs!Idle, Fetch, Serving, Installs!Busy

LEMMA OpMoves ==
  ASSUME OpTyped, NEW c \in Clients, NEW o \in {Installs!Idle} \cup Fetch \cup Serving, op' = [op EXCEPT ![c] = o]
  PROVE  OpTyped' /\ op'[c] = o /\ \A d \in Clients \ {c} : op'[d] = op[d]
BY DEF OpTyped

\* For the previews, the requests are as they were.
Alike ==
    \A d \in Clients :
        /\ op'[d].kind = "preview" \/ op[d].kind = "preview" => op'[d] = op[d]
        /\ Holds(op'[d]) = Holds(op[d])
        /\ Holds(op[d]) => op'[d].x = op[d].x

LEMMA ShelfStays ==
  ASSUME Shelf, Alike, UNCHANGED Installs!disks
  PROVE  Shelf'
<1>1. ShelfTyped'
  BY DEF Shelf, ShelfTyped, Installs!disks, Installs!Cached
<1>2. \A d \in Clients : (op'[d].kind = "preview") = (op[d].kind = "preview")
  BY DEF Alike
<1>3. Owners'
  BY <1>2 DEF Shelf, Owners, Installs!disks, Installs!Cached, Installs!OnDisk, Alike, Fetches
<1>4. Leases'
  BY DEF Shelf, Leases, Installs!disks, Installs!Cached, Alike
<1> QED BY <1>1, <1>3, <1>4 DEF Shelf

LEMMA DropKeeps ==
  ASSUME Shelf, Alike, NEW xs \in SUBSET Installs!Cached, Installs!Drop(xs), UNCHANGED <<disk, left, made>>
  PROVE  Shelf'
<1> DEFINE out == xs \ Installs!Leased
<1>1. /\ Installs!Cached' = Installs!Cached \ out /\ doomed' = doomed \cup out /\ out \subseteq Installs!Cached
      /\ \A x \in Installs!Cached' : previews'[x] = [previews[x] EXCEPT !.pendingEvict = @ \/ x \in Installs!Leased \cap xs]
      /\ previews' = [x \in Installs!Cached' |-> previews'[x]]
  BY DEF Installs!Drop, Installs!Without, Installs!Marked, Installs!Cached
<1>2. \A x \in Installs!Cached : x \in out \/ x \notin xs \/ previews[x].leases = 1
  BY DEF Installs!Leased, Shelf, ShelfTyped
<1>3. \A x \in out : previews[x].leases = 0
  BY DEF Installs!Leased, Shelf, ShelfTyped
<1> HIDE DEF out
<1>4. \A x \in Installs!Cached' : /\ previews'[x] \in [leases : {0, 1}, pendingEvict : BOOLEAN]
                                  /\ previews'[x].leases = previews[x].leases
                                  /\ previews'[x].pendingEvict => previews[x].leases = 1
  <2> SUFFICES ASSUME NEW x \in Installs!Cached'
               PROVE  /\ previews'[x] \in [leases : {0, 1}, pendingEvict : BOOLEAN]
                      /\ previews'[x].leases = previews[x].leases
                      /\ previews'[x].pendingEvict => previews[x].leases = 1
    OBVIOUS
  <2>1. x \in Installs!Cached /\ previews[x] \in [leases : {0, 1}, pendingEvict : BOOLEAN]
    BY <1>1 DEF Shelf, ShelfTyped
  <2>2. /\ previews'[x] = [leases |-> previews[x].leases,
                           pendingEvict |-> previews[x].pendingEvict \/ x \in Installs!Leased \cap xs]
    BY <1>1, <2>1
  <2>3. previews[x].pendingEvict \/ x \in Installs!Leased \cap xs => previews[x].leases = 1
    BY <2>1 DEF Installs!Leased, Shelf, Leases
  <2> QED BY <2>1, <2>2, <2>3
<1>5. ShelfTyped'
  BY <1>1, <1>4 DEF Shelf, ShelfTyped
<1>6. \A d \in Clients : (op'[d].kind = "preview") = (op[d].kind = "preview")
  BY DEF Alike
<1>7. Owners'
  <2>1. Installs!Cached' \cup doomed' = Installs!Cached \cup doomed
    BY <1>1
  <2> QED BY <2>1, <1>6 DEF Shelf, Owners, Installs!OnDisk, Alike, Fetches
<1>8. Leases'
  <2>1. ASSUME NEW x \in Installs!Cached'
        PROVE  /\ disk'[x] = "whole" /\ x \notin doomed'
               /\ previews'[x].leases = 1 => \E c \in Clients : Holds(op'[c]) /\ op'[c].x = x
               /\ previews'[x].pendingEvict => previews'[x].leases = 1
    BY <1>1, <1>4 DEF Shelf, Leases, Alike
  <2>2. ASSUME NEW c \in Clients, Holds(op'[c])
        PROVE  op'[c].x \in Installs!Cached' /\ previews'[op'[c].x].leases = 1
    <3>1. op'[c].x = op[c].x /\ op[c].x \in Installs!Cached /\ previews[op[c].x].leases = 1
      BY <2>2 DEF Shelf, Leases, Alike
    <3> QED BY <3>1, <1>1, <1>3, <1>4
  <2> QED BY <2>1, <2>2 DEF Leases
<1> QED BY <1>5, <1>7, <1>8 DEF Shelf

\* A step of an installation that leaves the previews alone.
LEMMA InstallMoves ==
  ASSUME Installs!InstallsAssumption, OpTyped, Turns, Told, NEW c \in Clients, op[c].kind = "install", NEW o \in Serving,
         op' = [op EXCEPT ![c] = o],
         o.r = op[c].r, o.x = op[c].x, o.leased = op[c].leased, o.mode = op[c].mode,
         Works(o) => Works(op[c]),
         o.pc \in {"wait", "copy"} => o.pc = op[c].pc,
         mod' # None \/ mod' = mod,
         StageFits(o), outcome' = outcome, did' \in [Requests -> [published : {0, 1}, cleared : BOOLEAN]],
         \A r \in Requests \ {o.r} : did'[r].published = did[r].published,
         did'[o.r].published = IF o.published THEN 1 ELSE 0
  PROVE  OpTyped' /\ Turns' /\ Told'
<1>1. OpTyped' /\ op'[c] = o /\ \A d \in Clients \ {c} : op'[d] = op[d]
  BY OpMoves
<1>2. Turns'
  <2>1. \A d \in Clients : Works(op'[d]) => Works(op[d])
    BY <1>1
  <2>2. \A d \in Clients : op'[d].kind = "install" =>
          /\ op'[d].pc = "wait" => ~op'[d].leased
          /\ op'[d].mode = "merge" /\ op'[d].pc = "copy" => mod' # None
    BY <1>1 DEF Turns
  <2> QED BY <2>1, <2>2 DEF Turns
<1>3. Told'
  <2>1. \A d \in Clients : op'[d].kind = "install" =>
          op[d].kind = "install" /\ op'[d].r = op[d].r /\ op'[d] \in Serving /\ op[d].r \in Requests
    BY <1>1, OpKinds DEF Serving
  <2>2. \A d \in Clients : op'[d].kind = "install" =>
          /\ StageFits(op'[d]) /\ outcome'[op'[d].r] = "running"
          /\ did'[op'[d].r].published = IF op'[d].published THEN 1 ELSE 0
    BY <1>1, <2>1 DEF Told
  <2>3. /\ \A r \in Requests : outcome'[r] # "running" => did'[r].published = did[r].published
        /\ None # "running"
    BY DEF Told, Installs!InstallsAssumption
  <2> QED BY <2>1, <2>2, <2>3 DEF Told
<1> QED BY <1>1, <1>2, <1>3

LEMMA InstallAlike ==
  ASSUME OpTyped, NEW c \in Clients, op[c].kind = "install", NEW o \in Serving, op' = [op EXCEPT ![c] = o],
         o.x = op[c].x, Holds(o) = Holds(op[c])
  PROVE  Alike
<1>1. op'[c] = o /\ o.kind = "install" /\ \A d \in Clients \ {c} : op'[d] = op[d]
  BY OpMoves DEF Serving
<1> QED BY <1>1 DEF Alike

LEMMA InstallStep ==
  ASSUME Installs!InstallsAssumption, InstallsInv, NEW c \in Clients, op[c].kind = "install", NEW o \in Serving,
         op' = [op EXCEPT ![c] = o],
         o.r = op[c].r, o.x = op[c].x, o.leased = op[c].leased, o.mode = op[c].mode,
         o.pc = "finish" <=> op[c].pc = "finish",
         Works(o) => Works(op[c]),
         o.pc \in {"wait", "copy"} => o.pc = op[c].pc,
         mod' # None \/ mod' = mod, ModTyped',
         StageFits(o), outcome' = outcome, did' \in [Requests -> [published : {0, 1}, cleared : BOOLEAN]],
         \A r \in Requests \ {o.r} : did'[r].published = did[r].published,
         did'[o.r].published = IF o.published THEN 1 ELSE 0,
         UNCHANGED Installs!disks
  PROVE  InstallsInv'
<1>1. OpTyped' /\ Turns' /\ Told'
  BY InstallMoves DEF InstallsInv
<1>2. Alike
  BY InstallAlike DEF InstallsInv, Holds, Serving
<1>3. Shelf'
  BY <1>2, ShelfStays DEF InstallsInv
<1>4. ToldTyped'
  BY DEF InstallsInv, ToldTyped
<1> QED BY <1>1, <1>3, <1>4 DEF InstallsInv

\* The step changes no request, and the mod only as it says.
LEMMA QuietStep ==
  ASSUME Installs!InstallsAssumption, InstallsInv, NEW c \in Clients, op[c].kind = "install", NEW o \in Serving,
         op' = [op EXCEPT ![c] = o],
         o.r = op[c].r, o.x = op[c].x, o.leased = op[c].leased, o.mode = op[c].mode,
         o.published = op[c].published, o.pc = "finish" <=> op[c].pc = "finish",
         Works(o) => Works(op[c]), o.pc \in {"wait", "copy"} => o.pc = op[c].pc, StageFits(o),
         UNCHANGED <<Installs!disks, mod, outcome, did>>, flag' \in BOOLEAN
  PROVE  InstallsInv'
<1>1. did[o.r].published = (IF o.published THEN 1 ELSE 0)
  BY DEF InstallsInv, Told
<1>2. did \in [Requests -> [published : {0, 1}, cleared : BOOLEAN]] /\ ModTyped'
  BY DEF InstallsInv, ToldTyped, ModTyped
<1> QED BY <1>1, <1>2, InstallStep

LEMMA CancelKeeps ==
  ASSUME Installs!InstallsAssumption, InstallsInv, NEW c \in Clients, Installs!Cancel(c)
  PROVE  InstallsInv'
<1> DEFINE o == [op[c] EXCEPT !.cancelled = TRUE]
<1>1. op[c] \in Serving /\ StageFits(op[c])
  BY OpKinds DEF Installs!Cancel, InstallsInv, Told
<1>2. /\ o \in Serving /\ o.r = op[c].r /\ o.x = op[c].x /\ o.leased = op[c].leased /\ o.mode = op[c].mode
      /\ o.published = op[c].published /\ o.pc = op[c].pc /\ o.err = op[c].err /\ o.kind = op[c].kind
  BY <1>1 DEF Serving
<1>3. op' = [op EXCEPT ![c] = o] /\ UNCHANGED <<Installs!disks, mod, outcome, did>> /\ flag' \in BOOLEAN
  BY DEF Installs!Cancel, Installs!mods, InstallsInv, ModTyped
<1> HIDE DEF o
<1>4. StageFits(o) /\ (Works(o) => Works(op[c]))
  BY <1>1, <1>2 DEF StageFits, Works
<1> QED BY <1>1, <1>2, <1>3, <1>4, QuietStep DEF Serving

LEMMA FailKeeps ==
  ASSUME Installs!InstallsAssumption, InstallsInv, NEW c \in Clients, op[c].kind = "install",
         op[c].pc \notin {"release", "finish"}, NEW err \in {"none", "stopped", "error"}, Installs!Fail(c, err),
         err = "none" => op[c].pc = "register",
         UNCHANGED <<Installs!disks, Installs!mods, outcome, did>>
  PROVE  InstallsInv'
<1> DEFINE o == [op[c] EXCEPT !.err = err, !.pc = "release"]
<1>1. op[c] \in Serving /\ StageFits(op[c]) /\ (op[c].pc = "wait" => ~op[c].leased)
  BY OpKinds DEF InstallsInv, Told, Turns
<1>2. /\ o \in Serving /\ o.r = op[c].r /\ o.x = op[c].x /\ o.leased = op[c].leased /\ o.mode = op[c].mode
      /\ o.published = op[c].published /\ o.pc = "release" /\ o.err = err /\ o.kind = op[c].kind
  BY <1>1 DEF Serving, Steps
<1>3. op' = [op EXCEPT ![c] = o] /\ UNCHANGED <<Installs!disks, mod, outcome, did>> /\ flag' \in BOOLEAN
  BY DEF Installs!Fail, Installs!mods, InstallsInv, ModTyped
<1> HIDE DEF o
<1>4. StageFits(o)
  BY <1>1, <1>2 DEF StageFits
<1>5. Works(o) => Works(op[c])
  BY <1>1, <1>2 DEF Works, Changing, Serving, Steps
<1> QED BY <1>1, <1>2, <1>3, <1>4, <1>5, QuietStep DEF Serving

\* An installation goes on with its files; what it has read and staged is of no matter here.
LEMMA StagingKeeps ==
  ASSUME Installs!InstallsAssumption, InstallsInv, NEW c \in Clients,
         Installs!Copy(c) \/ Installs!Copied(c) \/ Installs!MergeTree(c) \/ Installs!IndexUpdate(c)
  PROVE  InstallsInv'
<1> USE DEF Installs!At
<1>0. OpTyped /\ (op[c].kind = "install" => op[c] \in Serving /\ StageFits(op[c]))
  BY OpKinds DEF InstallsInv, Told
<1>1. CASE Installs!Copy(c)
  <2> PICK f \in op[c].todo : op' = [op EXCEPT ![c].todo = @ \ {f}, ![c].got[f] = "new"]
    BY <1>1 DEF Installs!Copy
  <2> DEFINE o == [op[c] EXCEPT !.todo = @ \ {f}, !.got[f] = "new"]
  <2>1. op[c] \in Serving /\ op[c].pc = "copy" /\ f \in Archive
    BY <1>0, <1>1 DEF Installs!Copy, Serving
  <2>2. /\ o \in Serving /\ o.r = op[c].r /\ o.x = op[c].x /\ o.leased = op[c].leased /\ o.mode = op[c].mode
        /\ o.published = op[c].published /\ o.pc = op[c].pc /\ o.err = op[c].err /\ o.kind = op[c].kind
    BY <2>1 DEF Serving, Installs!Contents
  <2>3. op' = [op EXCEPT ![c] = o] /\ UNCHANGED <<Installs!disks, mod, outcome, did>> /\ flag' \in BOOLEAN
    BY <1>1 DEF Installs!Copy, Installs!mods, InstallsInv, ModTyped
  <2> HIDE DEF o
  <2>4. StageFits(o) /\ (Works(o) => Works(op[c]))
    BY <1>0, <2>1, <2>2 DEF StageFits, Works, Serving
  <2> QED BY <1>0, <2>1, <2>2, <2>3, <2>4, QuietStep DEF Serving
<1>2. CASE Installs!Copied(c)
  <2> DEFINE pc == IF op[c].mode = "new" THEN "rename" ELSE "merge"
             staged == IF op[c].mode = "merge" THEN mod ELSE Installs!Nothing
             linked == IF op[c].mode = "merge" THEN {f \in DOMAIN mod : mod[f] # "none"} ELSE {}
             o == [op[c] EXCEPT !.pc = pc, !.staged = staged, !.linked = linked]
  <2>1. op[c] \in Serving /\ op[c].pc = "copy" /\ Works(op[c])
    BY <1>0, <1>2 DEF Installs!Copied, Works, Changing
  <2>2. op[c].mode = "merge" => mod \in Installs!Contents
    BY <2>1 DEF InstallsInv, Turns, ModTyped, Serving
  <2>3. staged \in Installs!Contents /\ linked \subseteq Before \cup Archive /\ pc \in {"rename", "merge"}
    BY <2>2 DEF Installs!Nothing, Installs!Contents
  <2> HIDE DEF pc, staged, linked
  <2>4. /\ o \in Serving /\ o.r = op[c].r /\ o.x = op[c].x /\ o.leased = op[c].leased /\ o.mode = op[c].mode
        /\ o.published = op[c].published /\ o.pc = pc /\ o.err = op[c].err /\ o.kind = op[c].kind
    BY <2>1, <2>3 DEF Serving, Steps
  <2>5. op' = [op EXCEPT ![c] = o] /\ UNCHANGED <<Installs!disks, mod, outcome, did>> /\ flag' \in BOOLEAN
    BY <1>2 DEF Installs!Copied, Installs!mods, InstallsInv, ModTyped, pc, staged, linked
  <2> HIDE DEF o
  <2>6. StageFits(o)
    BY <1>0, <2>1, <2>3, <2>4 DEF StageFits, Serving
  <2> QED BY <1>0, <2>1, <2>3, <2>4, <2>5, <2>6, QuietStep DEF Serving
<1>3. CASE Installs!MergeTree(c)
  <2> PICK f \in Archive : op' = [op EXCEPT ![c].got[f] = "none", ![c].staged[f] = "new", ![c].linked = @ \ {f}]
    BY <1>3 DEF Installs!MergeTree
  <2> DEFINE o == [op[c] EXCEPT !.got[f] = "none", !.staged[f] = "new", !.linked = @ \ {f}]
  <2>1. op[c] \in Serving /\ op[c].pc = "merge"
    BY <1>0, <1>3 DEF Installs!MergeTree
  <2>2. /\ o \in Serving /\ o.r = op[c].r /\ o.x = op[c].x /\ o.leased = op[c].leased /\ o.mode = op[c].mode
        /\ o.published = op[c].published /\ o.pc = op[c].pc /\ o.err = op[c].err /\ o.kind = op[c].kind
    <3> DEFINE got == [op[c].got EXCEPT ![f] = "none"]
               staged == [op[c].staged EXCEPT ![f] = "new"]
    <3>1. got \in Installs!Contents /\ staged \in Installs!Contents
      BY <2>1 DEF Serving, Installs!Contents
    <3>2. o = [op[c] EXCEPT !.got = got, !.staged = staged, !.linked = @ \ {f}]
      BY <2>1 DEF Serving
    <3> HIDE DEF got, staged, o
    <3> QED BY <2>1, <3>1, <3>2 DEF Serving
  <2>3. op' = [op EXCEPT ![c] = o] /\ UNCHANGED <<Installs!disks, mod, outcome, did>> /\ flag' \in BOOLEAN
    <3>1. op' = [op EXCEPT ![c] = o]
      OBVIOUS
    <3> HIDE DEF o
    <3> QED BY <1>3, <3>1 DEF Installs!MergeTree, Installs!mods, InstallsInv, ModTyped
  <2> HIDE DEF o
  <2>4. StageFits(o) /\ (Works(o) => Works(op[c]))
    BY <1>0, <2>1, <2>2 DEF StageFits, Works, Serving
  <2> QED BY <1>0, <2>1, <2>2, <2>3, <2>4, QuietStep DEF Serving
<1>4. CASE Installs!IndexUpdate(c)
  <2> DEFINE o == [op[c] EXCEPT !.pc = "discard"]
  <2>1. op[c] \in Serving /\ op[c].pc = "index" /\ Works(op[c])
    BY <1>0, <1>4 DEF Installs!IndexUpdate, Works, Changing
  <2>2. /\ o \in Serving /\ o.r = op[c].r /\ o.x = op[c].x /\ o.leased = op[c].leased /\ o.mode = op[c].mode
        /\ o.published = op[c].published /\ o.pc = "discard" /\ o.err = op[c].err /\ o.kind = op[c].kind
    BY <2>1 DEF Serving, Steps
  <2>3. op' = [op EXCEPT ![c] = o] /\ UNCHANGED <<Installs!disks, mod, outcome, did>> /\ flag' \in BOOLEAN
    BY <1>4 DEF Installs!IndexUpdate, Installs!Go
  <2> HIDE DEF o
  <2>4. StageFits(o)
    BY <1>0, <2>1, <2>2 DEF StageFits, Serving
  <2> QED BY <1>0, <2>1, <2>2, <2>3, <2>4, QuietStep DEF Serving
<1> QED BY <1>1, <1>2, <1>3, <1>4

LEMMA MergedKeeps ==
  ASSUME Installs!InstallsAssumption, InstallsInv, NEW c \in Clients, Installs!Merged(c)
  PROVE  InstallsInv'
<1> DEFINE o == [op[c] EXCEPT !.pc = "swap"]
           q == op[c].r
<1>1. op[c] \in Serving /\ op[c].pc = "merge" /\ StageFits(op[c]) /\ Works(op[c]) /\ q \in Requests
  BY OpKinds DEF Installs!Merged, Installs!At, InstallsInv, Told, Works, Changing, Serving
<1>2. /\ o \in Serving /\ o.r = q /\ o.x = op[c].x /\ o.leased = op[c].leased /\ o.mode = op[c].mode
      /\ o.published = op[c].published /\ o.pc = "swap" /\ o.err = op[c].err /\ o.kind = op[c].kind
  BY <1>1 DEF Serving, Steps
<1>3. op' = [op EXCEPT ![c] = o] /\ UNCHANGED <<Installs!disks, mod, outcome>>
  BY DEF Installs!Merged, Installs!Go
<1>4. did \in [Requests -> [published : {0, 1}, cleared : BOOLEAN]] /\ flag \in BOOLEAN
      /\ did[q].published = (IF op[c].published THEN 1 ELSE 0)
  BY <1>1 DEF InstallsInv, ToldTyped, ModTyped, Told, Serving
<1>5. flag' \in BOOLEAN /\ (did' = did \/ did' = [did EXCEPT ![q].cleared = flag])
  BY <1>4 DEF Installs!Merged
<1>6. /\ did' \in [Requests -> [published : {0, 1}, cleared : BOOLEAN]]
      /\ \A r \in Requests : did'[r].published = did[r].published
  <2>1. CASE did' = did
    BY <2>1, <1>4
  <2>2. CASE did' = [did EXCEPT ![q].cleared = flag]
    BY <2>2, <1>1, <1>4
  <2> QED BY <1>5, <2>1, <2>2
<1> HIDE DEF o, q
<1>7. StageFits(o)
  BY <1>1, <1>2 DEF StageFits, Serving
<1>8. ModTyped'
  BY <1>3, <1>5 DEF ModTyped, InstallsInv
<1>9. did'[o.r].published = (IF o.published THEN 1 ELSE 0)
  BY <1>1, <1>2, <1>4, <1>6
<1> QED BY <1>1, <1>2, <1>3, <1>6, <1>7, <1>8, <1>9, InstallStep DEF Serving, q

LEMMA PublishStep ==
  ASSUME Installs!InstallsAssumption, InstallsInv, NEW c \in Clients, op[c] \in Serving,
         op[c].pc \in {"rename", "swap"}, NEW o \in Serving, op' = [op EXCEPT ![c] = o],
         o.r = op[c].r, o.x = op[c].x, o.leased = op[c].leased, o.mode = op[c].mode, o.published = TRUE,
         (o.pc \in {"discard", "index"} /\ o.err = "none") \/ (o.pc = "release" /\ o.err = "error"),
         did' = [did EXCEPT ![op[c].r].published = @ + 1], mod' \in Installs!Contents,
         UNCHANGED <<Installs!disks, flag, outcome>>
  PROVE  InstallsInv'
<1> DEFINE q == op[c].r
<1>1. StageFits(op[c]) /\ Works(op[c]) /\ q \in Requests /\ ~op[c].published /\ op[c].kind = "install"
  BY DEF InstallsInv, Told, Works, Changing, Serving, StageFits
<1>2. did \in [Requests -> [published : {0, 1}, cleared : BOOLEAN]] /\ flag \in BOOLEAN /\ did[q].published = 0
  BY <1>1 DEF InstallsInv, ToldTyped, ModTyped, Told
<1>3. /\ did' \in [Requests -> [published : {0, 1}, cleared : BOOLEAN]]
      /\ \A r \in Requests \ {q} : did'[r].published = did[r].published
      /\ did'[q].published = 1
  BY <1>1, <1>2
<1> HIDE DEF q
<1>4. StageFits(o)
  BY DEF StageFits
<1>5. ModTyped' /\ mod' # None
  BY <1>2 DEF ModTyped, Installs!InstallsAssumption
<1>6. did'[o.r].published = (IF o.published THEN 1 ELSE 0)
  BY <1>3 DEF q
<1> QED BY <1>1, <1>3, <1>4, <1>5, <1>6, InstallStep DEF Serving, q

LEMMA PublishingKeeps ==
  ASSUME Installs!InstallsAssumption, InstallsInv, NEW c \in Clients,
         Installs!RenameStage(c) \/ Installs!SwapIn(c) \/ Installs!SwapUnsynced(c)
  PROVE  InstallsInv'
<1>0. op[c] \in Serving /\ op[c].err = "none" /\ op[c].pc \in {"rename", "swap"}
  BY OpKinds DEF Installs!RenameStage, Installs!SwapIn, Installs!SwapUnsynced, Installs!At, InstallsInv,
     Told, StageFits
<1>1. CASE Installs!RenameStage(c) \/ Installs!SwapIn(c)
  <2> DEFINE pc == IF op[c].mode = "merge" THEN "discard" ELSE "index"
             o == [op[c] EXCEPT !.published = TRUE, !.pc = pc]
  <2>1. /\ op' = [op EXCEPT ![c] = o] /\ did' = [did EXCEPT ![op[c].r].published = @ + 1]
        /\ mod' \in Installs!Contents /\ UNCHANGED <<Installs!disks, flag, outcome>>
    BY <1>0, <1>1 DEF Installs!RenameStage, Installs!SwapIn, Installs!Publish, Serving
  <2>2. pc \in {"discard", "index"}
    OBVIOUS
  <2> HIDE DEF pc
  <2>3. /\ o \in Serving /\ o.r = op[c].r /\ o.x = op[c].x /\ o.leased = op[c].leased /\ o.mode = op[c].mode
        /\ o.published = TRUE /\ o.pc = pc /\ o.err = "none"
    BY <1>0, <2>2 DEF Serving, Steps
  <2> HIDE DEF o
  <2>4. o.pc \in {"discard", "index"} /\ o.err = "none"
    BY <2>2, <2>3
  <2> QED BY <1>0, <2>1, <2>3, <2>4, PublishStep
<1>2. CASE Installs!SwapUnsynced(c)
  <2> DEFINE o == [op[c] EXCEPT !.published = TRUE, !.err = "error", !.pc = "release"]
  <2>1. /\ op' = [op EXCEPT ![c] = o] /\ did' = [did EXCEPT ![op[c].r].published = @ + 1]
        /\ mod' \in Installs!Contents /\ UNCHANGED <<Installs!disks, flag, outcome>>
    BY <1>0, <1>2 DEF Installs!SwapUnsynced, Serving
  <2>2. /\ o \in Serving /\ o.r = op[c].r /\ o.x = op[c].x /\ o.leased = op[c].leased /\ o.mode = op[c].mode
        /\ o.published = TRUE /\ o.pc = "release" /\ o.err = "error"
    BY <1>0 DEF Serving, Steps
  <2> HIDE DEF o
  <2> QED BY <1>0, <2>1, <2>2, PublishStep
<1> QED BY <1>1, <1>2

(***************************************************************************)
(* Steps of a preview.                                                     *)
(***************************************************************************)
\* Installations and the mod do not notice.
LEMMA OnlyPreviews ==
  ASSUME OpTyped, Turns, Told, NEW c \in Clients, op[c].kind # "install",
         NEW o \in {Installs!Idle} \cup Fetch, op' = [op EXCEPT ![c] = o], UNCHANGED <<Installs!mods, outcome, did>>
  PROVE  OpTyped' /\ Turns' /\ Told' /\ \A d \in Clients : Holds(op'[d]) = Holds(op[d]) /\ (Holds(op[d]) => op'[d] = op[d])
<1>0. o.kind # "install"
  BY DEF Installs!Idle, Fetch
<1>1. OpTyped' /\ op'[c] = o /\ o.kind # "install" /\ \A d \in Clients \ {c} : op'[d] = op[d]
  <2>1. o \in {Installs!Idle} \cup Fetch \cup Serving
    OBVIOUS
  <2> QED BY <1>0, <2>1, OpMoves
<1>2. Turns'
  BY <1>1 DEF Turns, Works, Installs!mods
<1>3. Told'
  BY <1>1 DEF Told
<1>4. \A d \in Clients : Holds(op'[d]) = Holds(op[d]) /\ (Holds(op[d]) => op'[d] = op[d])
  BY <1>1 DEF Holds
<1> QED BY <1>1, <1>2, <1>3, <1>4

LEMMA PreviewKeeps ==
  ASSUME Installs!InstallsAssumption, InstallsInv, NEW c \in Clients, Installs!PreviewInstall(c)
  PROVE  InstallsInv'
<1> DEFINE x == made + 1
           o == [kind |-> "preview", pc |-> "extract", x |-> x]
<1>1. /\ op[c] = Installs!Idle /\ x \in Installs!Extractions /\ x > made /\ made' = x /\ made \in Nat /\ o \in Fetch
      /\ made' \in 0..MaxExtractions
  BY OpKinds DEF Installs!PreviewInstall, InstallsInv, Shelf, ShelfTyped, Installs!Extractions,
     Installs!InstallsAssumption, Fetch
<1>2. disk' = [disk EXCEPT ![x] = "partial"] /\ op' = [op EXCEPT ![c] = o]
      /\ UNCHANGED <<previews, doomed, left, Installs!mods, outcome, did>>
  BY DEF Installs!PreviewInstall
<1>3. OpTyped' /\ Turns' /\ Told' /\ \A d \in Clients : Holds(op'[d]) = Holds(op[d]) /\ (Holds(op[d]) => op'[d] = op[d])
  <2>1. o \in {Installs!Idle} \cup Fetch /\ op[c].kind # "install"
    BY <1>1 DEF Installs!Idle
  <2> HIDE DEF o
  <2> QED BY <1>2, <2>1, OnlyPreviews DEF InstallsInv
<1>4. op'[c] = o /\ o.kind = "preview" /\ o.x = x /\ o.pc = "extract" /\ \A d \in Clients \ {c} : op'[d] = op[d]
  BY <1>1, <1>2, OpMoves DEF InstallsInv
<1>5. disk[x] = "none" /\ x \notin Installs!Cached \cup doomed
  BY <1>1 DEF InstallsInv, Shelf, Owners
<1> HIDE DEF o, x
<1>6. ShelfTyped'
  BY <1>1, <1>2 DEF InstallsInv, Shelf, ShelfTyped, Installs!Cached
<1>7. disk'[x] = "partial" /\ \A y \in Installs!Extractions \ {x} : disk'[y] = disk[y]
  BY <1>1, <1>2 DEF InstallsInv, Shelf, ShelfTyped
<1>8. Owners'
  <2>1. \A y \in Installs!Extractions : y > made' => disk'[y] = "none" /\ y \notin Installs!Cached' \cup doomed'
    BY <1>1, <1>2, <1>7 DEF InstallsInv, Shelf, Owners, Installs!Cached, Installs!Extractions
  <2>2. \A d \in Clients : op'[d].kind = "preview" =>
          /\ op'[d].x <= made' /\ op'[d].x \notin Installs!Cached' \cup doomed' /\ op'[d].x \in Installs!Extractions
          /\ op'[d].pc = "put" => disk'[op'[d].x] = "whole"
          /\ d # c => op'[d].x # x
    <3> SUFFICES ASSUME NEW d \in Clients, op'[d].kind = "preview"
                 PROVE  /\ op'[d].x <= made' /\ op'[d].x \notin Installs!Cached' \cup doomed' /\ op'[d].x \in Installs!Extractions
                        /\ op'[d].pc = "put" => disk'[op'[d].x] = "whole"
                        /\ d # c => op'[d].x # x
      OBVIOUS
    <3>1. CASE d = c
      BY <3>1, <1>1, <1>2, <1>4, <1>5 DEF Installs!Cached
    <3>2. CASE d # c
      <4>1. op'[d] = op[d] /\ op[d] \in Fetch
        BY <3>2, <1>4, OpKinds DEF InstallsInv
      <4>2. op[d].x <= made /\ op[d].x \notin Installs!Cached \cup doomed /\ op[d].x \in Installs!Extractions
            /\ (op[d].pc = "put" => disk[op[d].x] = "whole")
        BY <4>1 DEF InstallsInv, Shelf, Owners, Fetch
      <4> QED BY <3>2, <4>1, <4>2, <1>1, <1>2, <1>7 DEF Installs!Cached, Installs!Extractions
    <3> QED BY <3>1, <3>2
  <2>3. \A d, e \in Clients : op'[d].kind = "preview" /\ op'[e].kind = "preview" /\ op'[d].x = op'[e].x => d = e
    BY <2>2, <1>4 DEF InstallsInv, Shelf, Owners
  <2>4. \A y \in Installs!OnDisk' : y \in Installs!Cached' \cup doomed' \cup left' \/ \E d \in Clients : Fetches(op'[d], y)
    <3> SUFFICES ASSUME NEW y \in Installs!OnDisk', y # x
                 PROVE  y \in Installs!Cached' \cup doomed' \cup left' \/ \E d \in Clients : Fetches(op'[d], y)
      BY <1>4 DEF Fetches
    <3>1. y \in Installs!OnDisk
      BY <1>7 DEF Installs!OnDisk
    <3>2. \A d \in Clients : Fetches(op[d], y) => Fetches(op'[d], y)
      BY <1>1, <1>4 DEF Fetches, Installs!Idle
    <3> QED BY <3>1, <3>2, <1>2 DEF InstallsInv, Shelf, Owners, Installs!Cached
  <2> QED BY <2>1, <2>2, <2>3, <2>4 DEF Owners
<1>9. Leases'
  BY <1>2, <1>3, <1>5, <1>7 DEF InstallsInv, Shelf, ShelfTyped, Leases, Installs!Cached
<1>10. ModTyped' /\ ToldTyped'
  BY <1>2 DEF InstallsInv, ModTyped, ToldTyped, Installs!mods
<1> QED BY <1>3, <1>6, <1>8, <1>9, <1>10 DEF InstallsInv, Shelf

LEMMA ExtractedKeeps ==
  ASSUME Installs!InstallsAssumption, InstallsInv, NEW c \in Clients, Installs!Extracted(c)
  PROVE  InstallsInv'
<1> DEFINE x == op[c].x
           o == [op[c] EXCEPT !.pc = "put"]
<1>1. op[c] \in Fetch /\ x \in Installs!Extractions /\ o \in Fetch /\ o.x = x /\ o.pc = "put" /\ o.kind = "preview"
      /\ op[c].kind = "preview"
  BY OpKinds DEF Installs!Extracted, Installs!At, InstallsInv, Fetch
<1>2. disk' = [disk EXCEPT ![x] = "whole"] /\ op' = [op EXCEPT ![c] = o]
      /\ UNCHANGED <<previews, doomed, left, made, Installs!mods, outcome, did>>
  BY DEF Installs!Extracted, Installs!Go
<1>3. OpTyped' /\ Turns' /\ Told' /\ \A d \in Clients : Holds(op'[d]) = Holds(op[d]) /\ (Holds(op[d]) => op'[d] = op[d])
  BY <1>1, <1>2, OnlyPreviews DEF InstallsInv
<1>4. op'[c] = o /\ \A d \in Clients \ {c} : op'[d] = op[d]
  BY <1>1, <1>2, OpMoves DEF InstallsInv
<1>5. x <= made /\ x \notin Installs!Cached \cup doomed /\ \A d \in Clients \ {c} : op[d].kind = "preview" => op[d].x # x
  BY <1>1 DEF InstallsInv, Shelf, Owners
<1> HIDE DEF o, x
<1>6. ShelfTyped'
  BY <1>1, <1>2 DEF InstallsInv, Shelf, ShelfTyped, Installs!Cached
<1>7. disk'[x] = "whole" /\ \A y \in Installs!Extractions \ {x} : disk'[y] = disk[y]
  BY <1>1, <1>2 DEF InstallsInv, Shelf, ShelfTyped
<1>8. Owners'
  <2>1. \A y \in Installs!Extractions : y > made' => disk'[y] = "none" /\ y \notin Installs!Cached' \cup doomed'
    BY <1>1, <1>2, <1>5, <1>7 DEF InstallsInv, Shelf, ShelfTyped, Owners, Installs!Cached,
       Installs!Extractions, Installs!InstallsAssumption
  <2>2. \A d \in Clients : op'[d].kind = "preview" =>
          /\ op'[d].x <= made' /\ op'[d].x \notin Installs!Cached' \cup doomed'
          /\ op'[d].pc = "put" => disk'[op'[d].x] = "whole"
    <3> SUFFICES ASSUME NEW d \in Clients, op'[d].kind = "preview"
                 PROVE  /\ op'[d].x <= made' /\ op'[d].x \notin Installs!Cached' \cup doomed'
                        /\ op'[d].pc = "put" => disk'[op'[d].x] = "whole"
      OBVIOUS
    <3>1. CASE d = c
      BY <3>1, <1>1, <1>2, <1>4, <1>5, <1>7 DEF Installs!Cached
    <3>2. CASE d # c
      <4>1. op'[d] = op[d] /\ op[d] \in Fetch
        BY <3>2, <1>4, OpKinds DEF InstallsInv
      <4>2. op[d].x <= made /\ op[d].x \notin Installs!Cached \cup doomed /\ op[d].x \in Installs!Extractions /\ op[d].x # x
            /\ (op[d].pc = "put" => disk[op[d].x] = "whole")
        BY <4>1, <3>2, <1>5 DEF InstallsInv, Shelf, Owners, Fetch
      <4> QED BY <4>1, <4>2, <1>2, <1>7 DEF Installs!Cached
    <3> QED BY <3>1, <3>2
  <2>3. \A d, e \in Clients : op'[d].kind = "preview" /\ op'[e].kind = "preview" /\ op'[d].x = op'[e].x => d = e
    BY <1>1, <1>4, <1>5 DEF InstallsInv, Shelf, Owners
  <2>4. \A y \in Installs!OnDisk' : y \in Installs!Cached' \cup doomed' \cup left' \/ \E d \in Clients : Fetches(op'[d], y)
    <3> SUFFICES ASSUME NEW y \in Installs!OnDisk', y # x
                 PROVE  y \in Installs!Cached' \cup doomed' \cup left' \/ \E d \in Clients : Fetches(op'[d], y)
      BY <1>1, <1>4 DEF Fetches
    <3>1. y \in Installs!OnDisk
      BY <1>7 DEF Installs!OnDisk
    <3>2. \A d \in Clients : Fetches(op[d], y) => Fetches(op'[d], y)
      BY <1>4 DEF Fetches, x
    <3> QED BY <3>1, <3>2, <1>2 DEF InstallsInv, Shelf, Owners, Installs!Cached
  <2> QED BY <2>1, <2>2, <2>3, <2>4 DEF Owners
<1>9. Leases'
  BY <1>2, <1>3, <1>5, <1>7 DEF InstallsInv, Shelf, ShelfTyped, Leases, Installs!Cached
<1>10. ModTyped' /\ ToldTyped'
  BY <1>2 DEF InstallsInv, ModTyped, ToldTyped, Installs!mods
<1> QED BY <1>3, <1>6, <1>8, <1>9, <1>10 DEF InstallsInv, Shelf

LEMMA PreviewFailsKeeps ==
  ASSUME Installs!InstallsAssumption, InstallsInv, NEW c \in Clients, Installs!PreviewFails(c)
  PROVE  InstallsInv'
<1> DEFINE x == op[c].x
<1>1. op[c] \in Fetch /\ x \in Installs!Extractions /\ op[c].kind = "preview"
  BY OpKinds DEF Installs!PreviewFails, InstallsInv, Fetch
<1>2. disk' = Installs!Removed({x}) /\ op' = [op EXCEPT ![c] = Installs!Idle]
      /\ UNCHANGED <<previews, doomed, left, made, Installs!mods, outcome, did>>
  BY DEF Installs!PreviewFails, Installs!Done
<1>3. OpTyped' /\ Turns' /\ Told' /\ \A d \in Clients : Holds(op'[d]) = Holds(op[d]) /\ (Holds(op[d]) => op'[d] = op[d])
  BY <1>1, <1>2, OnlyPreviews DEF InstallsInv
<1>4. op'[c] = Installs!Idle /\ \A d \in Clients \ {c} : op'[d] = op[d]
  BY <1>1, <1>2, OpMoves DEF InstallsInv
<1>5. x <= made /\ x \notin Installs!Cached \cup doomed /\ \A d \in Clients \ {c} : op[d].kind = "preview" => op[d].x # x
  BY <1>1 DEF InstallsInv, Shelf, Owners
<1> HIDE DEF x
<1>6. disk'[x] = "none" /\ \A y \in Installs!Extractions \ {x} : disk'[y] = disk[y]
  BY <1>1, <1>2 DEF Installs!Removed
<1>7. ShelfTyped'
  BY <1>1, <1>2 DEF InstallsInv, Shelf, ShelfTyped, Installs!Cached, Installs!Removed
<1>8. Owners'
  <2>1. \A y \in Installs!Extractions : y > made' => disk'[y] = "none" /\ y \notin Installs!Cached' \cup doomed'
    BY <1>2, <1>6 DEF InstallsInv, Shelf, Owners, Installs!Cached
  <2>2. \A d \in Clients : op'[d].kind = "preview" =>
          /\ op'[d].x <= made' /\ op'[d].x \notin Installs!Cached' \cup doomed'
          /\ op'[d].pc = "put" => disk'[op'[d].x] = "whole"
    <3> SUFFICES ASSUME NEW d \in Clients, op'[d].kind = "preview"
                 PROVE  /\ op'[d].x <= made' /\ op'[d].x \notin Installs!Cached' \cup doomed'
                        /\ op'[d].pc = "put" => disk'[op'[d].x] = "whole"
      OBVIOUS
    <3>1. d # c /\ op'[d] = op[d] /\ op[d] \in Fetch
      BY <1>3, <1>4, OpKinds DEF InstallsInv, Installs!Idle
    <3>2. op[d].x <= made /\ op[d].x \notin Installs!Cached \cup doomed /\ op[d].x \in Installs!Extractions /\ op[d].x # x
          /\ (op[d].pc = "put" => disk[op[d].x] = "whole")
      BY <3>1, <1>5 DEF InstallsInv, Shelf, Owners, Fetch
    <3> QED BY <3>1, <3>2, <1>2, <1>6 DEF Installs!Cached
  <2>3. \A d, e \in Clients : op'[d].kind = "preview" /\ op'[e].kind = "preview" /\ op'[d].x = op'[e].x => d = e
    BY <1>4 DEF InstallsInv, Shelf, Owners, Installs!Idle
  <2>4. \A y \in Installs!OnDisk' : y \in Installs!Cached' \cup doomed' \cup left' \/ \E d \in Clients : Fetches(op'[d], y)
    <3> SUFFICES ASSUME NEW y \in Installs!OnDisk'
                 PROVE  y \in Installs!Cached' \cup doomed' \cup left' \/ \E d \in Clients : Fetches(op'[d], y)
      OBVIOUS
    <3>1. y \in Installs!OnDisk /\ y # x
      BY <1>6 DEF Installs!OnDisk
    <3>2. \A d \in Clients : Fetches(op[d], y) => Fetches(op'[d], y)
      BY <3>1, <1>4 DEF Fetches, x
    <3> QED BY <3>1, <3>2, <1>2 DEF InstallsInv, Shelf, Owners, Installs!Cached
  <2> QED BY <2>1, <2>2, <2>3, <2>4 DEF Owners
<1>9. Leases'
  <2>1. Installs!Cached' = Installs!Cached /\ \A y \in Installs!Cached : disk'[y] = disk[y]
    BY <1>2, <1>5, <1>6 DEF InstallsInv, Shelf, ShelfTyped, Installs!Cached
  <2>2. \A y \in Installs!Cached, d \in Clients : Holds(op[d]) /\ op[d].x = y => Holds(op'[d]) /\ op'[d].x = y
    BY <1>3
  <2>3. \A d \in Clients : Holds(op'[d]) => Holds(op[d]) /\ op'[d].x = op[d].x
    BY <1>3
  <2>4. ASSUME NEW y \in Installs!Cached'
        PROVE  /\ disk'[y] = "whole" /\ y \notin doomed'
               /\ previews'[y].leases = 1 => \E d \in Clients : Holds(op'[d]) /\ op'[d].x = y
               /\ previews'[y].pendingEvict => previews'[y].leases = 1
    BY <2>1, <2>2, <1>2 DEF InstallsInv, Shelf, Leases
  <2>5. ASSUME NEW d \in Clients, Holds(op'[d])
        PROVE  op'[d].x \in Installs!Cached' /\ previews'[op'[d].x].leases = 1
    BY <2>1, <2>3, <2>5, <1>2 DEF InstallsInv, Shelf, Leases
  <2> QED BY <2>4, <2>5 DEF Leases
<1>10. ModTyped' /\ ToldTyped'
  BY <1>2 DEF InstallsInv, ModTyped, ToldTyped, Installs!mods
<1> QED BY <1>3, <1>7, <1>8, <1>9, <1>10 DEF InstallsInv, Shelf

\* What is evicted is kept and read by nobody.
LEMMA EvictedIsUnread == Installs!Evicted \subseteq Installs!Unleased
BY DEF Installs!Evicted

LEMMA PutKeeps ==
  ASSUME Installs!InstallsAssumption, InstallsInv, NEW c \in Clients, Installs!Put(c)
  PROVE  InstallsInv'
<1> DEFINE x == op[c].x
           entry == [leases |-> 0, pendingEvict |-> FALSE]
<1>1. op[c] \in Fetch /\ x \in Installs!Extractions /\ op[c].kind = "preview" /\ op[c].pc = "put"
  BY OpKinds DEF Installs!Put, Installs!At, InstallsInv, Fetch
<1>2. /\ disk' = Installs!Removed(Installs!Evicted) /\ op' = [op EXCEPT ![c] = Installs!Idle]
      /\ UNCHANGED <<doomed, left, made, Installs!mods, outcome, did>>
      /\ previews' = [y \in (Installs!Cached \ Installs!Evicted) \cup {x} |-> IF y = x THEN entry ELSE Installs!Without(previews, Installs!Evicted)[y]]
  BY DEF Installs!Put, Installs!Done, Installs!Without, Installs!Cached
<1>3. OpTyped' /\ Turns' /\ Told' /\ \A d \in Clients : Holds(op'[d]) = Holds(op[d]) /\ (Holds(op[d]) => op'[d] = op[d])
  BY <1>1, <1>2, OnlyPreviews DEF InstallsInv
<1>4. op'[c] = Installs!Idle /\ \A d \in Clients \ {c} : op'[d] = op[d]
  BY <1>1, <1>2, OpMoves DEF InstallsInv
<1>5. x <= made /\ x \notin Installs!Cached \cup doomed /\ disk[x] = "whole"
      /\ \A d \in Clients \ {c} : op[d].kind = "preview" => op[d].x # x
  BY <1>1 DEF InstallsInv, Shelf, Owners
<1>6. Installs!Evicted \subseteq Installs!Cached /\ \A y \in Installs!Evicted : previews[y].leases = 0
  BY EvictedIsUnread DEF Installs!Unleased
<1>7. /\ Installs!Cached' = (Installs!Cached \ Installs!Evicted) \cup {x} /\ previews'[x] = entry
      /\ \A y \in Installs!Cached \ Installs!Evicted : previews'[y] = previews[y]
  BY <1>2, <1>5 DEF Installs!Without, Installs!Cached
<1>8. previews' \in [Installs!Cached' -> [leases : {0, 1}, pendingEvict : BOOLEAN]]
  <2>1. entry \in [leases : {0, 1}, pendingEvict : BOOLEAN]
    OBVIOUS
  <2>2. \A y \in Installs!Cached' : previews'[y] \in [leases : {0, 1}, pendingEvict : BOOLEAN]
    BY <1>7, <2>1 DEF InstallsInv, Shelf, ShelfTyped
  <2>3. previews' = [y \in Installs!Cached' |-> previews'[y]]
    BY <1>2, <1>7
  <2> QED BY <2>2, <2>3
<1>9. \A y \in Installs!Extractions : disk'[y] = IF y \in Installs!Evicted THEN "none" ELSE disk[y]
  BY <1>2 DEF Installs!Removed
<1>10. entry.leases = 0 /\ entry.pendingEvict = FALSE
  OBVIOUS
<1> HIDE DEF x, entry
<1>11. ShelfTyped'
  BY <1>1, <1>2, <1>7, <1>8 DEF InstallsInv, Shelf, ShelfTyped, Installs!Removed
<1>12. Owners'
  <2>1. \A y \in Installs!Extractions : y > made' => disk'[y] = "none" /\ y \notin Installs!Cached' \cup doomed'
    BY <1>1, <1>2, <1>5, <1>7, <1>9 DEF InstallsInv, Shelf, ShelfTyped, Owners, Installs!Extractions,
       Installs!InstallsAssumption
  <2>2. \A d \in Clients : op'[d].kind = "preview" =>
          /\ op'[d].x <= made' /\ op'[d].x \notin Installs!Cached' \cup doomed'
          /\ op'[d].pc = "put" => disk'[op'[d].x] = "whole"
    <3> SUFFICES ASSUME NEW d \in Clients, op'[d].kind = "preview"
                 PROVE  /\ op'[d].x <= made' /\ op'[d].x \notin Installs!Cached' \cup doomed'
                        /\ op'[d].pc = "put" => disk'[op'[d].x] = "whole"
      OBVIOUS
    <3>1. d # c /\ op'[d] = op[d] /\ op[d] \in Fetch
      BY <1>3, <1>4, OpKinds DEF InstallsInv, Installs!Idle
    <3>2. op[d].x <= made /\ op[d].x \notin Installs!Cached \cup doomed /\ op[d].x \in Installs!Extractions /\ op[d].x # x
          /\ (op[d].pc = "put" => disk[op[d].x] = "whole")
      BY <3>1, <1>5 DEF InstallsInv, Shelf, Owners, Fetch
    <3> QED BY <3>1, <3>2, <1>2, <1>6, <1>7, <1>9
  <2>3. \A d, e \in Clients : op'[d].kind = "preview" /\ op'[e].kind = "preview" /\ op'[d].x = op'[e].x => d = e
    BY <1>4 DEF InstallsInv, Shelf, Owners, Installs!Idle
  <2>4. \A y \in Installs!OnDisk' : y \in Installs!Cached' \cup doomed' \cup left' \/ \E d \in Clients : Fetches(op'[d], y)
    <3> SUFFICES ASSUME NEW y \in Installs!OnDisk', y # x
                 PROVE  y \in Installs!Cached' \cup doomed' \cup left' \/ \E d \in Clients : Fetches(op'[d], y)
      BY <1>7
    <3>1. y \in Installs!OnDisk /\ y \notin Installs!Evicted
      BY <1>9 DEF Installs!OnDisk
    <3>2. \A d \in Clients : Fetches(op[d], y) => Fetches(op'[d], y)
      BY <1>4 DEF Fetches, x
    <3> QED BY <3>1, <3>2, <1>2, <1>7 DEF InstallsInv, Shelf, Owners
  <2> QED BY <2>1, <2>2, <2>3, <2>4 DEF Owners
<1>13. Leases'
  <2>1. ASSUME NEW y \in Installs!Cached'
        PROVE  /\ disk'[y] = "whole" /\ y \notin doomed'
               /\ previews'[y].leases = 1 => \E d \in Clients : Holds(op'[d]) /\ op'[d].x = y
               /\ previews'[y].pendingEvict => previews'[y].leases = 1
    <3>1. CASE y = x
      BY <3>1, <1>1, <1>2, <1>5, <1>6, <1>7, <1>9, <1>10
    <3>2. CASE y # x
      <4>1. y \in Installs!Cached /\ y \notin Installs!Evicted /\ y \in Installs!Extractions
        BY <3>2, <1>7 DEF InstallsInv, Shelf, ShelfTyped
      <4>2. disk'[y] = disk[y] /\ previews'[y] = previews[y] /\ doomed' = doomed
        BY <4>1, <1>2, <1>7, <1>9
      <4>3. \A d \in Clients : Holds(op[d]) /\ op[d].x = y => Holds(op'[d]) /\ op'[d].x = y
        BY <1>3
      <4> QED BY <4>1, <4>2, <4>3 DEF InstallsInv, Shelf, Leases
    <3> QED BY <3>1, <3>2
  <2>2. ASSUME NEW d \in Clients, Holds(op'[d])
        PROVE  op'[d].x \in Installs!Cached' /\ previews'[op'[d].x].leases = 1
    <3>1. op'[d] = op[d] /\ op[d].x \in Installs!Cached /\ previews[op[d].x].leases = 1
      BY <2>2, <1>3 DEF InstallsInv, Shelf, Leases
    <3> QED BY <3>1, <1>6, <1>7
  <2> QED BY <2>1, <2>2 DEF Leases
<1>14. ModTyped' /\ ToldTyped'
  BY <1>2 DEF InstallsInv, ModTyped, ToldTyped, Installs!mods
<1> QED BY <1>3, <1>11, <1>12, <1>13, <1>14 DEF InstallsInv, Shelf

(***************************************************************************)
(* Steps of the cache, and of an installation that has to do with it.      *)
(***************************************************************************)
LEMMA SameOps == op' = op => Alike
BY DEF Alike

LEMMA CacheKeeps ==
  ASSUME Installs!InstallsAssumption, InstallsInv,
         Installs!Sweep \/ (\E x \in Installs!Extractions : Installs!DiscardPreview(x))
  PROVE  InstallsInv'
<1>1. UNCHANGED <<disk, left, made, Installs!mods, outcome, did, op>> /\ \E xs \in SUBSET Installs!Cached : Installs!Drop(xs)
  <2>1. CASE Installs!Sweep
    <3>1. PICK n \in 1..Len(order) : Installs!Drop({order[i] : i \in 1..n} \cap Installs!Cached)
      BY <2>1 DEF Installs!Sweep
    <3> QED BY <2>1, <3>1 DEF Installs!Sweep
  <2>2. ASSUME NEW x \in Installs!Extractions, Installs!DiscardPreview(x)
        PROVE  UNCHANGED <<disk, left, made, Installs!mods, outcome, did, op>> /\ \E xs \in SUBSET Installs!Cached : Installs!Drop(xs)
    <3>1. {x} \in SUBSET Installs!Cached /\ Installs!Drop({x})
      BY <2>2 DEF Installs!DiscardPreview
    <3> QED BY <2>2, <3>1 DEF Installs!DiscardPreview
  <2> QED BY <2>1, <2>2
<1>2. Shelf'
  BY <1>1, SameOps, DropKeeps DEF InstallsInv
<1> QED BY <1>1, <1>2 DEF InstallsInv, OpTyped, ModTyped, ToldTyped, Turns, Told, Installs!mods

LEMMA RemoveDoomedKeeps ==
  ASSUME Installs!InstallsAssumption, InstallsInv, Installs!RemoveDoomed
  PROVE  InstallsInv'
<1>1. PICK x \in doomed : disk' = Installs!Removed({x}) /\ doomed' = doomed \ {x}
  BY DEF Installs!RemoveDoomed
<1>2. UNCHANGED <<previews, left, made, Installs!mods, outcome, did, op>> /\ Installs!Cached' = Installs!Cached
  BY DEF Installs!RemoveDoomed, Installs!Cached
<1>3. x \in Installs!Extractions /\ x \notin Installs!Cached /\ doomed \subseteq Installs!Extractions /\ Installs!Cached \subseteq Installs!Extractions
  BY DEF InstallsInv, Shelf, ShelfTyped, Leases
<1>4. \A y \in Installs!Extractions : disk'[y] = IF y = x THEN "none" ELSE disk[y]
  BY <1>1 DEF Installs!Removed
<1>5. ShelfTyped'
  BY <1>1, <1>2, <1>3 DEF InstallsInv, Shelf, ShelfTyped, Installs!Removed
<1>6. Owners'
  <2>1. \A c \in Clients : op[c].kind = "preview" => op[c].x # x /\ op[c].x \in Installs!Extractions
    BY <1>3, OpKinds DEF InstallsInv, Shelf, Owners, Fetch
  <2>2. \A y \in Installs!OnDisk' : y \in Installs!OnDisk /\ y # x
    BY <1>4 DEF Installs!OnDisk
  <2>3. \A y \in Installs!OnDisk' : y \in Installs!Cached' \cup doomed' \cup left' \/ \E d \in Clients : Fetches(op'[d], y)
    BY <1>1, <1>2, <2>2 DEF InstallsInv, Shelf, Owners
  <2> QED BY <1>1, <1>2, <1>4, <2>1, <2>3 DEF InstallsInv, Shelf, Owners
<1>7. Leases'
  <2>1. \A y \in Installs!Cached : disk'[y] = disk[y]
    BY <1>3, <1>4
  <2> QED BY <1>1, <1>2, <2>1 DEF InstallsInv, Shelf, Leases
<1> QED BY <1>2, <1>5, <1>6, <1>7 DEF InstallsInv, Shelf, OpTyped, ModTyped, ToldTyped, Turns, Told,
   Installs!mods

LEMMA DiscardServedKeeps ==
  ASSUME Installs!InstallsAssumption, InstallsInv, NEW c \in Clients, Installs!DiscardServed(c)
  PROVE  InstallsInv'
<1> DEFINE o == [op[c] EXCEPT !.pc = "register"]
<1>1. op[c] \in Serving /\ op[c].pc = "discard" /\ StageFits(op[c]) /\ Works(op[c]) /\ op[c].kind = "install"
  BY OpKinds DEF Installs!DiscardServed, Installs!At, InstallsInv, Told, Works, Changing
<1>2. /\ o \in Serving /\ o.r = op[c].r /\ o.x = op[c].x /\ o.leased = op[c].leased /\ o.mode = op[c].mode
      /\ o.published = op[c].published /\ o.pc = "register" /\ o.err = op[c].err /\ o.kind = op[c].kind
  BY <1>1 DEF Serving, Steps
<1>3. op' = [op EXCEPT ![c] = o] /\ UNCHANGED <<disk, left, made, mod, flag, outcome, did>>
  BY DEF Installs!DiscardServed, Installs!Go, Installs!mods
<1> HIDE DEF o
<1>4. StageFits(o) /\ Holds(o) = Holds(op[c])
  BY <1>1, <1>2 DEF StageFits, Holds
<1>5. did \in [Requests -> [published : {0, 1}, cleared : BOOLEAN]] /\ did[o.r].published = (IF o.published THEN 1 ELSE 0)
  BY <1>1, <1>2 DEF InstallsInv, ToldTyped, Told
<1>6. OpTyped' /\ Turns' /\ Told'
  BY <1>1, <1>2, <1>3, <1>4, <1>5, InstallMoves DEF InstallsInv
<1>7. Alike
  BY <1>1, <1>2, <1>3, <1>4, InstallAlike DEF InstallsInv
<1>8. Shelf'
  <2>1. CASE op[c].x = None
    BY <2>1, <1>3, <1>7, ShelfStays DEF Installs!DiscardServed, Installs!disks, InstallsInv
  <2>2. CASE op[c].x # None
    <3>1. Installs!Drop({op[c].x} \cap Installs!Cached) /\ {op[c].x} \cap Installs!Cached \in SUBSET Installs!Cached
      BY <2>2 DEF Installs!DiscardServed
    <3> QED BY <3>1, <1>3, <1>7, DropKeeps DEF InstallsInv
  <2> QED BY <2>1, <2>2
<1> QED BY <1>3, <1>6, <1>8 DEF InstallsInv, ModTyped, ToldTyped

LEMMA ReleaseKeeps ==
  ASSUME Installs!InstallsAssumption, InstallsInv, NEW c \in Clients, Installs!Release(c)
  PROVE  InstallsInv'
<1> DEFINE x == op[c].x
           o == [op[c] EXCEPT !.pc = "finish"]
<1>1. op[c] \in Serving /\ op[c].pc = "release" /\ StageFits(op[c]) /\ op[c].kind = "install"
  BY OpKinds DEF Installs!Release, Installs!At, InstallsInv, Told
<1>2. /\ o \in Serving /\ o.r = op[c].r /\ o.x = op[c].x /\ o.leased = op[c].leased /\ o.mode = op[c].mode
      /\ o.published = op[c].published /\ o.pc = "finish" /\ o.err = op[c].err /\ o.kind = op[c].kind
  BY <1>1 DEF Serving, Steps
<1>3. op' = [op EXCEPT ![c] = o] /\ UNCHANGED <<disk, left, made, mod, flag, outcome, did>>
  BY DEF Installs!Release, Installs!Go, Installs!mods
<1> HIDE DEF o
<1>4. StageFits(o) /\ ~Holds(o) /\ ~Works(o) /\ (Holds(op[c]) = op[c].leased)
  BY <1>1, <1>2 DEF StageFits, Holds, Works, Changing, Serving
<1>5. did \in [Requests -> [published : {0, 1}, cleared : BOOLEAN]] /\ did[o.r].published = (IF o.published THEN 1 ELSE 0)
  BY <1>1, <1>2 DEF InstallsInv, ToldTyped, Told
<1>6. OpTyped' /\ Turns' /\ Told'
  BY <1>1, <1>2, <1>3, <1>4, <1>5, InstallMoves DEF InstallsInv
<1>7. CASE ~op[c].leased
  <2>1. UNCHANGED Installs!disks
    BY <1>3, <1>7 DEF Installs!Release, Installs!disks
  <2>2. Shelf'
    <3>1. Alike
      <4>1. Holds(o) = FALSE /\ Holds(op[c]) = FALSE
        BY <1>2, <1>7 DEF Holds
      <4> QED BY <4>1, <1>1, <1>2, <1>3, InstallAlike DEF InstallsInv
    <3> QED BY <2>1, <3>1, ShelfStays DEF InstallsInv
  <2> QED BY <2>2, <1>3, <1>6 DEF InstallsInv, ModTyped, ToldTyped
<1>8. CASE op[c].leased
  <2>1. x \in Installs!Cached /\ previews[x].leases = 1 /\ x \in Installs!Extractions /\ x \notin doomed /\ disk[x] = "whole"
    BY <1>1, <1>4, <1>8 DEF InstallsInv, Shelf, ShelfTyped, Leases
  <2>2. op'[c] = o /\ \A d \in Clients \ {c} : op'[d] = op[d]
    BY <1>2, <1>3, OpMoves DEF InstallsInv
  <2>3. \A d \in Clients \ {c} : Holds(op[d]) => op[d].x # x
    <3>1. \A d \in Clients : Holds(op[d]) => Works(op[d])
      BY OpKinds DEF Holds, Works, Changing, InstallsInv, Turns, Serving, Steps
    <3> QED BY <3>1, <1>4, <1>8 DEF InstallsInv, Turns
  <2>4. \A d \in Clients \ {c} : Holds(op[d]) => op[d].x \in Installs!Cached /\ previews[op[d].x].leases = 1
    BY DEF InstallsInv, Shelf, Leases
  <2>5. \A d \in Clients : (op'[d].kind = "preview") = (op[d].kind = "preview") /\ (op[d].kind = "preview" => op'[d] = op[d])
    BY <1>1, <1>2, <2>2
  <2>6. CASE Installs!Gone(x)
    <3>1. /\ Installs!Cached' = Installs!Cached \ {x} /\ doomed' = doomed \cup {x}
          /\ previews' = [y \in Installs!Cached \ {x} |-> previews[y]]
      BY <1>8, <2>6 DEF Installs!Release, Installs!Without, Installs!Cached
    <3>2. ShelfTyped'
      BY <3>1, <2>1, <1>3 DEF InstallsInv, Shelf, ShelfTyped
    <3>3. Owners'
      <4>1. Installs!Cached' \cup doomed' = Installs!Cached \cup doomed
        BY <3>1, <2>1
      <4> QED BY <4>1, <2>5, <1>3 DEF InstallsInv, Shelf, Owners, Installs!OnDisk, Fetches
    <3>4. Leases'
      <4>1. ASSUME NEW y \in Installs!Cached'
            PROVE  /\ disk'[y] = "whole" /\ y \notin doomed'
                   /\ previews'[y].leases = 1 => \E d \in Clients : Holds(op'[d]) /\ op'[d].x = y
                   /\ previews'[y].pendingEvict => previews'[y].leases = 1
        BY <3>1, <2>2, <1>3 DEF InstallsInv, Shelf, Leases
      <4>2. \A d \in Clients : Holds(op'[d]) => op'[d].x \in Installs!Cached' /\ previews'[op'[d].x].leases = 1
        BY <3>1, <2>2, <2>3, <2>4, <1>4
      <4> QED BY <4>1, <4>2 DEF Leases
    <3> QED BY <3>2, <3>3, <3>4, <1>3, <1>6 DEF InstallsInv, Shelf, ModTyped, ToldTyped
  <2>7. CASE ~Installs!Gone(x)
    <3>1. previews' = [previews EXCEPT ![x].leases = @ - 1] /\ doomed' = doomed
      BY <1>8, <2>7 DEF Installs!Release
    <3>2. /\ Installs!Cached' = Installs!Cached /\ previews'[x].leases = 0 /\ previews'[x].pendingEvict = FALSE
          /\ previews' \in [Installs!Cached -> [leases : {0, 1}, pendingEvict : BOOLEAN]]
          /\ \A y \in Installs!Cached \ {x} : previews'[y] = previews[y]
      BY <3>1, <2>1, <2>7 DEF InstallsInv, Shelf, ShelfTyped, Installs!Gone, Installs!Cached
    <3>3. ShelfTyped'
      BY <3>1, <3>2, <1>3 DEF InstallsInv, Shelf, ShelfTyped
    <3>4. Owners'
      BY <3>1, <3>2, <2>5, <1>3 DEF InstallsInv, Shelf, Owners, Installs!OnDisk, Fetches
    <3>5. Leases'
      <4>1. ASSUME NEW y \in Installs!Cached'
            PROVE  /\ disk'[y] = "whole" /\ y \notin doomed'
                   /\ previews'[y].leases = 1 => \E d \in Clients : Holds(op'[d]) /\ op'[d].x = y
                   /\ previews'[y].pendingEvict => previews'[y].leases = 1
        BY <3>1, <3>2, <2>2, <1>3 DEF InstallsInv, Shelf, Leases
      <4>2. \A d \in Clients : Holds(op'[d]) => op'[d].x \in Installs!Cached' /\ previews'[op'[d].x].leases = 1
        BY <3>2, <2>2, <2>3, <2>4, <1>4
      <4> QED BY <4>1, <4>2 DEF Leases
    <3> QED BY <3>3, <3>4, <3>5, <1>3, <1>6 DEF InstallsInv, Shelf, ModTyped, ToldTyped
  <2> QED BY <2>6, <2>7
<1> QED BY <1>7, <1>8 DEF Serving

LEMMA AcquireKeeps ==
  ASSUME Installs!InstallsAssumption, InstallsInv, NEW c \in Clients, Installs!Acquire(c)
  PROVE  InstallsInv'
<1> DEFINE x == op[c].x
           o == [op[c] EXCEPT !.pc = "copy", !.leased = x # None]
<1>1. /\ op[c] \in Serving /\ op[c].pc = "wait" /\ StageFits(op[c]) /\ op[c].kind = "install"
      /\ ~op[c].leased /\ ~Installs!Locked /\ (op[c].mode = "merge" => mod # None)
  BY OpKinds DEF Installs!Acquire, Installs!At, InstallsInv, Told, Turns
<1>2. UNCHANGED <<disk, doomed, left, made, mod, flag, outcome, did>>
  BY DEF Installs!Acquire, Installs!mods
<1>3. CASE x # None /\ x \notin Installs!Cached
  <2>1. Installs!Fail(c, "error") /\ UNCHANGED <<Installs!disks, Installs!mods, outcome, did>>
    BY <1>2, <1>3 DEF Installs!Acquire, Installs!disks, Installs!mods
  <2> QED BY <2>1, <1>1, FailKeeps
<1>4. CASE x = None \/ x \in Installs!Cached
  <2>1. /\ o \in Serving /\ o.r = op[c].r /\ o.x = x /\ o.leased = (x # None) /\ o.mode = op[c].mode
        /\ o.published = op[c].published /\ o.pc = "copy" /\ o.err = op[c].err /\ o.kind = "install"
    BY <1>1 DEF Serving, Steps
  <2>2. /\ op' = [op EXCEPT ![c] = o]
        /\ previews' = IF x = None THEN previews ELSE [previews EXCEPT ![x].leases = @ + 1]
    BY <1>4 DEF Installs!Acquire
  <2> HIDE DEF o
  <2>3. OpTyped' /\ op'[c] = o /\ \A d \in Clients \ {c} : op'[d] = op[d]
    BY <2>1, <2>2, OpMoves DEF InstallsInv
  <2>4. \A d \in Clients : ~Works(op[d]) /\ ~Holds(op[d])
    BY <1>1 DEF Installs!Locked, Works, Holds, Changing, InstallsInv, Turns
  <2>5. Turns'
    BY <1>1, <1>2, <2>1, <2>3, <2>4 DEF InstallsInv, Turns
  <2>6. Told'
    <3>1. StageFits(o) /\ outcome[o.r] = "running" /\ did[o.r].published = (IF o.published THEN 1 ELSE 0)
      BY <1>1, <2>1 DEF StageFits, InstallsInv, Told
    <3>2. \A d \in Clients : (op'[d].kind = "install") = (op[d].kind = "install") /\ (op[d].kind = "install" => op'[d].r = op[d].r)
      BY <1>1, <2>1, <2>3
    <3> QED BY <1>2, <2>3, <3>1, <3>2 DEF InstallsInv, Told
  <2>7. \A d \in Clients : (op'[d].kind = "preview") = (op[d].kind = "preview") /\ (op[d].kind = "preview" => op'[d] = op[d])
    BY <1>1, <2>1, <2>3
  <2>8. Shelf'
    <3>1. CASE x = None
      <4>2. ~Holds(o)
        BY <3>1, <2>1 DEF Holds
      <4>3. Installs!Cached' = Installs!Cached /\ previews' = previews
        BY <3>1, <2>2 DEF Installs!Cached
      <4>4. ShelfTyped'
        BY <4>3, <1>2 DEF InstallsInv, Shelf, ShelfTyped
      <4>5. Owners'
        BY <4>3, <1>2, <2>7 DEF InstallsInv, Shelf, Owners, Installs!OnDisk, Fetches
      <4>6. Leases'
        <5>1. \A d \in Clients : ~Holds(op'[d])
          BY <4>2, <2>3, <2>4
        <5>2. \A y \in Installs!Cached : previews[y].leases # 1
          BY <2>4 DEF InstallsInv, Shelf, Leases
        <5> QED BY <5>1, <5>2, <4>3, <1>2 DEF InstallsInv, Shelf, Leases
      <4> QED BY <4>4, <4>5, <4>6 DEF Shelf
    <3>2. CASE x # None
      <4>1. x \in Installs!Cached /\ x \in Installs!Extractions /\ \A y \in Installs!Cached : previews[y].leases = 0 /\ ~previews[y].pendingEvict
        BY <3>2, <1>4, <2>4 DEF InstallsInv, Shelf, ShelfTyped, Leases
      <4>2. /\ Installs!Cached' = Installs!Cached /\ previews'[x].leases = 1 /\ ~previews'[x].pendingEvict
            /\ previews' \in [Installs!Cached -> [leases : {0, 1}, pendingEvict : BOOLEAN]]
            /\ \A y \in Installs!Cached \ {x} : previews'[y] = previews[y]
        BY <3>2, <4>1, <2>2 DEF InstallsInv, Shelf, ShelfTyped, Installs!Cached
      <4>3. ShelfTyped'
        BY <4>2, <1>2 DEF InstallsInv, Shelf, ShelfTyped
      <4>4. Owners'
        BY <4>2, <1>2, <2>7 DEF InstallsInv, Shelf, Owners, Installs!OnDisk, Fetches
      <4>5. Leases'
        <5>1. Holds(op'[c]) /\ op'[c].x = x /\ \A d \in Clients \ {c} : ~Holds(op'[d])
          BY <3>2, <2>1, <2>3, <2>4 DEF Holds
        <5>2. ASSUME NEW y \in Installs!Cached'
              PROVE  /\ disk'[y] = "whole" /\ y \notin doomed'
                     /\ previews'[y].leases = 1 => \E d \in Clients : Holds(op'[d]) /\ op'[d].x = y
                     /\ previews'[y].pendingEvict => previews'[y].leases = 1
          BY <4>1, <4>2, <5>1, <1>2 DEF InstallsInv, Shelf, Leases
        <5>3. \A d \in Clients : Holds(op'[d]) => op'[d].x \in Installs!Cached' /\ previews'[op'[d].x].leases = 1
          BY <4>1, <4>2, <5>1
        <5> QED BY <5>2, <5>3 DEF Leases
      <4> QED BY <4>3, <4>4, <4>5 DEF Shelf
    <3> QED BY <3>1, <3>2
  <2> QED BY <1>2, <2>3, <2>5, <2>6, <2>8 DEF InstallsInv, ModTyped, ToldTyped
<1> QED BY <1>3, <1>4

LEMMA StartKeeps ==
  ASSUME Installs!InstallsAssumption, InstallsInv, NEW c \in Clients, NEW r \in Requests, NEW mode \in Installs!Modes,
         NEW x \in Installs!Extractions \cup {None}, Installs!StartInstall(c, r, mode, x)
  PROVE  InstallsInv'
<1> DEFINE o == [kind |-> "install", pc |-> "wait", r |-> r, mode |-> mode, x |-> x,
        leased |-> FALSE, cancelled |-> FALSE, todo |-> Archive, got |-> Installs!Nothing, linked |-> {},
        staged |-> Installs!Nothing, published |-> FALSE, err |-> "none"]
<1>1. op[c] = Installs!Idle /\ outcome[r] = None
  BY OpKinds DEF Installs!StartInstall, InstallsInv, Installs!MayRegister
<1>2. /\ o \in Serving /\ o.kind = "install" /\ o.pc = "wait" /\ o.r = r /\ ~o.leased /\ ~o.published /\ o.err = "none"
  BY DEF Serving, Installs!Nothing, Installs!Contents, Steps
<1>3. op' = [op EXCEPT ![c] = o] /\ outcome' = [outcome EXCEPT ![r] = "running"] /\ UNCHANGED <<Installs!disks, Installs!mods, did>>
  BY DEF Installs!StartInstall
<1> HIDE DEF o
<1>4. OpTyped' /\ op'[c] = o /\ \A d \in Clients \ {c} : op'[d] = op[d]
  BY <1>2, <1>3, OpMoves DEF InstallsInv
<1>5. outcome'[r] = "running" /\ \A q \in Requests \ {r} : outcome'[q] = outcome[q]
  BY <1>3 DEF InstallsInv, ToldTyped
<1>6. ToldTyped' /\ ModTyped'
  BY <1>3 DEF InstallsInv, ToldTyped, ModTyped, Installs!mods
<1>7. ~Works(o) /\ ~Holds(o) /\ ~Holds(op[c]) /\ StageFits(o)
  BY <1>1, <1>2 DEF Works, Holds, StageFits, Changing, Installs!Idle
<1>8. Turns'
  BY <1>2, <1>3, <1>4, <1>7 DEF InstallsInv, Turns, Installs!mods
<1>9. Told'
  <2>1. None # "running" /\ did[r].published = 0
    BY <1>1 DEF Installs!InstallsAssumption, InstallsInv, Told
  <2>2. \A d \in Clients : op[d].kind = "install" => op[d].r # r /\ op[d].r \in Requests
    BY <1>1, <2>1, OpKinds DEF InstallsInv, Told, Serving
  <2>3. \A d \in Clients : op'[d].kind = "install" =>
          /\ StageFits(op'[d]) /\ outcome'[op'[d].r] = "running"
          /\ did'[op'[d].r].published = IF op'[d].published THEN 1 ELSE 0
    BY <1>2, <1>3, <1>4, <1>5, <1>7, <2>1, <2>2 DEF InstallsInv, Told
  <2>4. \A d, e \in Clients : op'[d].kind = "install" /\ op'[e].kind = "install" /\ op'[d].r = op'[e].r => d = e
    BY <1>2, <1>4, <2>2 DEF InstallsInv, Told
  <2>5. \A q \in Requests :
          /\ outcome'[q] = None => did'[q].published = 0
          /\ outcome'[q] = "succeeded" => did'[q].published = 1
          /\ outcome'[q] = "cancelled" => did'[q].published = 0
    BY <1>3, <1>5, <2>1 DEF InstallsInv, Told
  <2> QED BY <2>3, <2>4, <2>5 DEF Told
<1>10. Alike
  <2>1. op[c].kind # "preview" /\ op'[c].kind # "preview" /\ Holds(op'[c]) = FALSE /\ Holds(op[c]) = FALSE
    BY <1>1, <1>2, <1>4 DEF Installs!Idle, Holds
  <2> QED BY <1>4, <2>1 DEF Alike
<1> QED BY <1>3, <1>4, <1>6, <1>8, <1>9, <1>10, ShelfStays DEF InstallsInv

LEMMA FinishKeeps ==
  ASSUME Installs!InstallsAssumption, InstallsInv, NEW c \in Clients, Installs!Finish(c)
  PROVE  InstallsInv'
<1> DEFINE r == op[c].r
           told == Installs!State(op[c].err, op[c].cancelled, op[c].published)
<1>1. /\ op[c] \in Serving /\ op[c].pc = "finish" /\ op[c].kind = "install" /\ r \in Requests /\ StageFits(op[c])
      /\ did[r].published = (IF op[c].published THEN 1 ELSE 0)
  BY OpKinds DEF Installs!Finish, Installs!At, InstallsInv, Told, Serving
<1>2. /\ told \in {"succeeded", "failed", "cancelled"}
      /\ told = "succeeded" => op[c].published
      /\ told = "cancelled" => ~op[c].published
  BY <1>1 DEF Installs!State, StageFits
<1>3. op' = [op EXCEPT ![c] = Installs!Idle] /\ outcome' = [outcome EXCEPT ![r] = told] /\ UNCHANGED <<Installs!disks, Installs!mods, did>>
  BY DEF Installs!Finish, Installs!Done
<1> HIDE DEF r, told
<1>4. OpTyped' /\ op'[c] = Installs!Idle /\ \A d \in Clients \ {c} : op'[d] = op[d]
  BY <1>3, OpMoves DEF InstallsInv
<1>5. outcome'[r] = told /\ \A q \in Requests \ {r} : outcome'[q] = outcome[q]
  BY <1>1, <1>3 DEF InstallsInv, ToldTyped
<1>6. ToldTyped' /\ ModTyped'
  BY <1>2, <1>3 DEF InstallsInv, ToldTyped, ModTyped, Installs!mods
<1>7. Installs!Idle.kind = "idle"
  BY DEF Installs!Idle
<1>8. Turns'
  <2>1. \A d \in Clients : op'[d].kind = "install" => op'[d] = op[d]
    BY <1>4, <1>7
  <2>2. \A d \in Clients : Works(op'[d]) => Works(op[d])
    BY <2>1 DEF Works
  <2> QED BY <2>1, <2>2, <1>3 DEF InstallsInv, Turns, Installs!mods
<1>9. Told'
  <2>1. None \notin {"succeeded", "failed", "cancelled"}
    BY DEF Installs!InstallsAssumption
  <2>2. \A d \in Clients : op'[d].kind = "install" => op'[d] = op[d] /\ op[d].r # r /\ op[d].r \in Requests
    BY <1>1, <1>4, <1>7, OpKinds DEF InstallsInv, Told, Serving, r
  <2>3. \A d \in Clients : op'[d].kind = "install" =>
          /\ StageFits(op'[d]) /\ outcome'[op'[d].r] = "running"
          /\ did'[op'[d].r].published = IF op'[d].published THEN 1 ELSE 0
    BY <1>3, <1>5, <2>2 DEF InstallsInv, Told
  <2>4. \A d, e \in Clients : op'[d].kind = "install" /\ op'[e].kind = "install" /\ op'[d].r = op'[e].r => d = e
    BY <2>2 DEF InstallsInv, Told
  <2>5. \A q \in Requests :
          /\ outcome'[q] = None => did'[q].published = 0
          /\ outcome'[q] = "succeeded" => did'[q].published = 1
          /\ outcome'[q] = "cancelled" => did'[q].published = 0
    BY <1>1, <1>2, <1>3, <1>5, <2>1 DEF InstallsInv, Told
  <2> QED BY <2>3, <2>4, <2>5 DEF Told
<1>10. Alike
  <2>1. op[c].kind # "preview" /\ op'[c].kind # "preview" /\ Holds(op'[c]) = FALSE /\ Holds(op[c]) = FALSE
    BY <1>1, <1>4, <1>7 DEF Holds
  <2> QED BY <1>4, <2>1 DEF Alike
<1> QED BY <1>3, <1>4, <1>6, <1>8, <1>9, <1>10, ShelfStays DEF InstallsInv

LEMMA ExpireKeeps ==
  ASSUME Installs!InstallsAssumption, InstallsInv, NEW r \in Requests, Installs!Expire(r)
  PROVE  InstallsInv'
<1>1. /\ outcome' = [outcome EXCEPT ![r] = None] /\ did' = [did EXCEPT ![r] = Installs!Undone] /\ outcome[r] # "running"
      /\ UNCHANGED <<Installs!disks, Installs!mods, op>>
  BY DEF Installs!Expire, Installs!Running
<1>2. ToldTyped' /\ OpTyped' /\ ModTyped' /\ Turns'
  BY <1>1 DEF InstallsInv, ToldTyped, OpTyped, ModTyped, Turns, Installs!mods, Installs!Undone
<1>3. /\ outcome'[r] = None /\ did'[r].published = 0
      /\ \A q \in Requests \ {r} : outcome'[q] = outcome[q] /\ did'[q] = did[q]
  BY <1>1 DEF InstallsInv, ToldTyped, Installs!Undone
<1>4. \A c \in Clients : op[c].kind = "install" => op[c].r \in Requests \ {r}
  BY <1>1, OpKinds DEF InstallsInv, Told, Serving
<1>5. Told'
  <2>1. None \notin {"succeeded", "cancelled"}
    BY DEF Installs!InstallsAssumption
  <2>2. \A d \in Clients : op'[d].kind = "install" =>
          /\ StageFits(op'[d]) /\ outcome'[op'[d].r] = "running"
          /\ did'[op'[d].r].published = IF op'[d].published THEN 1 ELSE 0
    BY <1>1, <1>3, <1>4 DEF InstallsInv, Told
  <2>3. \A q \in Requests :
          /\ outcome'[q] = None => did'[q].published = 0
          /\ outcome'[q] = "succeeded" => did'[q].published = 1
          /\ outcome'[q] = "cancelled" => did'[q].published = 0
    BY <1>3, <2>1 DEF InstallsInv, Told
  <2> QED BY <1>1, <2>2, <2>3 DEF InstallsInv, Told
<1>6. Shelf'
  BY <1>1, SameOps, ShelfStays DEF InstallsInv
<1> QED BY <1>2, <1>5, <1>6 DEF InstallsInv

LEMMA UninstallKeeps ==
  ASSUME Installs!InstallsAssumption, InstallsInv, Installs!Uninstall
  PROVE  InstallsInv'
<1>1. mod' = None /\ flag' = TRUE /\ ~Installs!Locked /\ UNCHANGED <<Installs!disks, outcome, did, op>>
  BY DEF Installs!Uninstall
<1>2. Turns'
  BY <1>1 DEF InstallsInv, Turns, Installs!Locked, Works
<1>3. Shelf'
  BY <1>1, SameOps, ShelfStays DEF InstallsInv
<1> QED BY <1>1, <1>2, <1>3 DEF InstallsInv, OpTyped, ModTyped, ToldTyped, Told

LEMMA RestartKeeps ==
  ASSUME Installs!InstallsAssumption, InstallsInv, Installs!Kill \/ Installs!Shutdown
  PROVE  InstallsInv'
<1>1. Installs!NewLife /\ UNCHANGED <<made, Installs!mods>> /\ \E xs \in SUBSET Installs!OnDisk : Installs!Restart(xs)
  BY DEF Installs!Kill, Installs!Shutdown
<1>2. PICK young \in SUBSET Installs!OnDisk : left' = young /\ disk' = [x \in Installs!Extractions |-> IF x \in young THEN disk[x] ELSE "none"]
  BY <1>1 DEF Installs!Restart
<1>3. /\ Installs!Cached' = {} /\ doomed' = {} /\ previews' = <<>> /\ \A c \in Clients : op'[c] = Installs!Idle
      /\ \A r \in Requests : outcome'[r] = None /\ did'[r].published = 0
  BY <1>1 DEF Installs!NewLife, Installs!Cached, Installs!Undone
<1>4. OpTyped' /\ ToldTyped' /\ ModTyped'
  BY <1>1 DEF Installs!NewLife, InstallsInv, OpTyped, ToldTyped, ModTyped, Installs!mods, Installs!Undone
<1>5. ShelfTyped'
  <2>1. disk' \in [Installs!Extractions -> {"none", "partial", "whole"}] /\ made' \in 0..MaxExtractions
    BY <1>1, <1>2 DEF InstallsInv, Shelf, ShelfTyped
  <2>2. previews' \in [Installs!Cached' -> [leases : {0, 1}, pendingEvict : BOOLEAN]]
    BY <1>3
  <2> QED BY <1>3, <2>1, <2>2 DEF ShelfTyped
<1>6. Owners'
  BY <1>1, <1>2, <1>3 DEF InstallsInv, Shelf, Owners, Installs!OnDisk, Installs!Idle
<1>7. Leases' /\ Turns'
  BY <1>3 DEF Leases, Turns, Holds, Works, Installs!Idle
<1>8. Told'
  BY <1>3 DEF Told, Installs!Idle, Installs!InstallsAssumption
<1> QED BY <1>4, <1>5, <1>6, <1>7, <1>8 DEF InstallsInv, Shelf

LEMMA InstallsInit == Installs!InstallsAssumption /\ Installs!Init => InstallsInv
<1> SUFFICES ASSUME Installs!InstallsAssumption, Installs!Init PROVE InstallsInv
  OBVIOUS
<1>1. Installs!Cached = {} /\ doomed = {} /\ (\A c \in Clients : op[c] = Installs!Idle) /\ made = 0
      /\ \A r \in Requests : outcome[r] = None /\ did[r].published = 0
  BY DEF Installs!Init, Installs!Cached, Installs!Undone
<1>2. OpTyped /\ ToldTyped
  BY DEF Installs!Init, OpTyped, ToldTyped, Installs!Undone
<1>3. ModTyped
  BY DEF Installs!Init, ModTyped, Installs!Original, Installs!Contents
<1>4. ShelfTyped
  BY <1>1 DEF Installs!Init, ShelfTyped, Installs!InstallsAssumption
<1>5. Owners
  BY <1>1 DEF Installs!Init, Owners, Installs!OnDisk, Installs!Idle
<1>6. Leases /\ Turns
  BY <1>1 DEF Leases, Turns, Holds, Works, Installs!Idle
<1>7. Told
  BY <1>1 DEF Told, Installs!Idle, Installs!InstallsAssumption
<1> QED BY <1>2, <1>3, <1>4, <1>5, <1>6, <1>7 DEF InstallsInv, Shelf

LEMMA InstallsNext == Installs!InstallsAssumption /\ InstallsInv /\ [Installs!Next]_(Installs!vars) => InstallsInv'
<1> SUFFICES ASSUME Installs!InstallsAssumption, InstallsInv, [Installs!Next]_(Installs!vars) PROVE InstallsInv'
  OBVIOUS
<1>1. ASSUME NEW c \in Clients, Installs!Previewing(c) PROVE InstallsInv'
  BY <1>1, PreviewKeeps, ExtractedKeeps, PreviewFailsKeeps, PutKeeps DEF Installs!Previewing
<1>2. ASSUME NEW c \in Clients, Installs!Staging(c) PROVE InstallsInv'
  BY <1>2, AcquireKeeps, StagingKeeps, MergedKeeps DEF Installs!Staging
<1>3. ASSUME NEW c \in Clients, Installs!Publishing(c) PROVE InstallsInv'
  BY <1>3, PublishingKeeps, StagingKeeps DEF Installs!Publishing
<1>4. ASSUME NEW c \in Clients, Installs!ModList(c) PROVE InstallsInv'
  <2>1. PICK err \in {"none", "error"} : Installs!Fail(c, err)
    BY <1>4 DEF Installs!ModList
  <2>2. op[c].kind = "install" /\ op[c].pc = "register" /\ UNCHANGED <<Installs!disks, Installs!mods, outcome, did>>
    BY <1>4 DEF Installs!ModList, Installs!At
  <2> QED BY <2>1, <2>2, FailKeeps
<1>5. ASSUME NEW c \in Clients, Installs!Ending(c) PROVE InstallsInv'
  BY <1>4, <1>5, DiscardServedKeeps, ReleaseKeeps, FinishKeeps DEF Installs!Ending
<1>6. ASSUME NEW c \in Clients, Installs!Stop(c) \/ Installs!Fault(c) PROVE InstallsInv'
  <2>1. PICK err \in {"stopped", "error"} : Installs!Fail(c, err)
    BY <1>6 DEF Installs!Stop, Installs!Fault
  <2>2. op[c].kind = "install" /\ op[c].pc \notin {"release", "finish"} /\ UNCHANGED <<Installs!disks, Installs!mods, outcome, did>>
    BY <1>6 DEF Installs!Stop, Installs!Fault
  <2> QED BY <2>1, <2>2, FailKeeps
<1>7. CASE UNCHANGED Installs!vars
  <2>1. UNCHANGED <<Installs!disks, mod, flag, outcome, did, op>>
    BY <1>7 DEF Installs!vars, Installs!disks
  <2>2. Shelf'
    BY <2>1, SameOps, ShelfStays DEF InstallsInv
  <2> QED BY <2>1, <2>2 DEF InstallsInv, OpTyped, ModTyped, ToldTyped, Turns, Told
<1> QED BY <1>1, <1>2, <1>3, <1>5, <1>6, <1>7, CancelKeeps, StartKeeps, CacheKeeps, ExpireKeeps,
           RemoveDoomedKeeps, UninstallKeeps, RestartKeeps DEF Installs!Next

(***************************************************************************)
(* The theorems.                                                           *)
(***************************************************************************)
\* The invariant holds at every step of the previews and installations.
THEOREM InstallsInvariance ==
  ASSUME Installs!InstallsAssumption
  PROVE  Installs!Spec => []InstallsInv
BY InstallsInit, InstallsNext, PTL DEF Installs!Spec

\* An installation that copies out of a preview's extraction finds it whole,
\* whatever is discarded, swept or evicted meanwhile (preview_cache.go:83).
THEOREM InstallsReadWhole ==
  ASSUME Installs!InstallsAssumption
  PROVE  Installs!Spec => []Installs!ReadsWhole
<1>1. InstallsInv => Installs!ReadsWhole
  BY DEF InstallsInv, Shelf, Leases, Installs!ReadsWhole, Holds
<1> QED BY <1>1, InstallsInvariance, PTL

\* Every extraction on disk belongs to somebody who will remove it
\* (preview_cache.go:102).
THEOREM NothingIsLeaked ==
  ASSUME Installs!InstallsAssumption
  PROVE  Installs!Spec => []Installs!NothingLeaks
<1>1. InstallsInv => Installs!NothingLeaks
  BY DEF InstallsInv, Shelf, Owners, Leases, Installs!NothingLeaks, Fetches, Holds
<1> QED BY <1>1, InstallsInvariance, PTL

\* A client is told that its request succeeded if the mod was published, once,
\* and that it was cancelled only if it was not (install_outcome.go:75).
THEOREM OutcomesAreTrue ==
  ASSUME Installs!InstallsAssumption
  PROVE  Installs!Spec => []Installs!OutcomeIsTrue
<1>1. InstallsInv => Installs!OutcomeIsTrue
  BY DEF InstallsInv, ToldTyped, Told, Installs!OutcomeIsTrue
<1> QED BY <1>1, InstallsInvariance, PTL

\* The files of a mod change when an installation is published or the mod is
\* uninstalled (merge.go:18).
THEOREM ModsChangeAtOnce ==
  ASSUME Installs!InstallsAssumption
  PROVE  Installs!Spec => [][Installs!ChangesAtOnce]_(Installs!vars)
<1>1. InstallsInv /\ [Installs!Next]_(Installs!vars) => [Installs!ChangesAtOnce]_(Installs!vars)
  <2> SUFFICES ASSUME InstallsInv, Installs!Next, mod' # mod, mod' # None
               PROVE  \E r \in Requests : did'[r].published = did[r].published + 1
    BY DEF Installs!ChangesAtOnce, Installs!vars
  <2>1. PICK c \in Clients : Installs!RenameStage(c) \/ Installs!SwapIn(c) \/ Installs!SwapUnsynced(c)
    <3>1. \A c \in Clients : ~Installs!Previewing(c)
      BY DEF Installs!Previewing, Installs!PreviewInstall, Installs!Extracted, Installs!PreviewFails,
         Installs!Put, Installs!mods
    <3>2. \A c \in Clients : ~Installs!Staging(c) /\ ~Installs!IndexUpdate(c)
      BY DEF Installs!Staging, Installs!Acquire, Installs!Copy, Installs!Copied, Installs!MergeTree,
         Installs!Merged, Installs!IndexUpdate, Installs!mods
    <3>3. \A c \in Clients : ~Installs!Ending(c) /\ ~Installs!Cancel(c) /\ ~Installs!Stop(c) /\ ~Installs!Fault(c)
      BY DEF Installs!Ending, Installs!DiscardServed, Installs!ModList, Installs!Release,
         Installs!Finish, Installs!Cancel, Installs!Stop, Installs!Fault, Installs!mods
    <3>4. \A c \in Clients, r \in Requests, mode \in Installs!Modes, x \in Installs!Extractions \cup {None} : ~Installs!StartInstall(c, r, mode, x)
      BY DEF Installs!StartInstall, Installs!mods
    <3>5. (\A x \in Installs!Extractions : ~Installs!DiscardPreview(x)) /\ \A r \in Requests : ~Installs!Expire(r)
      BY DEF Installs!DiscardPreview, Installs!Expire, Installs!mods
    <3>6. ~Installs!Sweep /\ ~Installs!RemoveDoomed /\ ~Installs!Uninstall /\ ~Installs!Kill /\ ~Installs!Shutdown
      BY DEF Installs!Sweep, Installs!RemoveDoomed, Installs!Uninstall, Installs!Kill,
         Installs!Shutdown, Installs!mods
    <3> QED BY <3>1, <3>2, <3>3, <3>4, <3>5, <3>6 DEF Installs!Next, Installs!Publishing
  <2>2. op[c] \in Serving /\ op[c].r \in Requests
    BY <2>1, OpKinds DEF Installs!RenameStage, Installs!SwapIn, Installs!SwapUnsynced, Installs!At,
       InstallsInv, Serving
  <2>3. did' = [did EXCEPT ![op[c].r].published = @ + 1]
    BY <2>1 DEF Installs!RenameStage, Installs!SwapIn, Installs!SwapUnsynced, Installs!Publish
  <2>4. did'[op[c].r].published = did[op[c].r].published + 1
    BY <2>2, <2>3 DEF InstallsInv, ToldTyped
  <2> QED BY <2>2, <2>4
<1> QED BY <1>1, InstallsInvariance, PTL DEF Installs!Spec

-----------------------------------------------------------------------------
(***************************************************************************)
(* ToolOutput.  A hard link makes a write through one name a write through *)
(* all, so the proof is about names: an inode has names at one path only   *)
(* (OnePath), a new one has none (Gives).  Then the tool's own name of its *)
(* input is not the source's (InputCopied, LayerPrivate), and how far an   *)
(* import is says what the folder, the stage and the parked folder contain *)
(* (Importing).  That a tool's last version of a path is somewhere needs   *)
(* more: where it may be while the farm is deployed, so that no sweep and  *)
(* no capture of another file can replace it (LastIsThere).                *)
(***************************************************************************)
\* Where a tool run is, from its admission to the capture.
RunSteps == {"idle", "admitted", "prepared", "copied", "unlinked", "ready", "running",
             "import", "staged", "parked", "installed", "dirty", "clean", "capture"}
OfImport == {"import", "staged", "parked", "installed", "dirty", "clean"}
IsRun ==
    /\ run = [pc |-> run.pc, policy |-> run.policy, needs |-> run.needs,
              profile |-> run.profile, target |-> run.target, sel |-> run.sel,
              ok |-> run.ok, kept |-> run.kept, old |-> run.old, new |-> run.new]
    /\ run.pc \in RunSteps
    /\ run.target \in {"out", "over"}
    /\ run.needs \in BOOLEAN
ToolsTyped ==
    /\ live \in BOOLEAN /\ mounted \in BOOLEAN
    /\ folder \in [Tools!Folders -> Tools!Files \cup {None}]
    /\ farm \in Tools!Files /\ owned \in Tools!Files
    /\ parked \in Tools!Files \cup {None}
    /\ data = [i \in Inodes |-> data[i]]
    /\ IsRun

\* An inode has names at one path only, whichever folders it is linked into.
Trees == ({folder[f] : f \in Tools!Folders} \cup {farm, owned, parked}) \ {None}
Apart(trees) ==
    \A a, b \in trees : \A p, q \in Paths : a[p] # None /\ a[p] = b[q] => p = q
OnePath == Apart(Trees)

Source(p) == 2 * p
SourceStays == folder["src"] \in Tools!Files /\ folder["src"] = [p \in Paths |-> Source(p)]

\* What the policy of a run decides.
PolicyHolds ==
    /\ ~live => run.pc = "idle"
    /\ run.pc = "idle" => run.policy = None
    /\ run.pc \in OfImport => run.policy = "scratch"
    /\ run.policy = "named" => run.target = "out"
    /\ run.policy = "copyup" => run.sel \in Paths
    /\ run.policy = "exclusive" => ~run.needs
    /\ run.policy = "exclusive" /\ run.pc # "admitted" => ~mounted

\* The input a copyup tool selected is its own copy before the tool starts.
InputCopied ==
    /\ run.pc \in {"copied", "unlinked"} =>
         /\ run.policy = "copyup" /\ mounted
         /\ folder[run.target] # None /\ folder[run.target][run.sel] # Source(run.sel)
    /\ run.policy = "copyup" /\ mounted /\ run.pc \in {"ready", "running"} =>
         farm[run.sel] # Source(run.sel)

\* A named tool's farm shares no file with its mod.
LayerPrivate ==
    run.policy = "named" /\ mounted /\ run.pc \in {"ready", "running"} =>
        \A p \in Paths : farm[p] # None /\ folder["out"] # None => farm[p] # folder["out"][p]

\* How far the import is.
Importing ==
    /\ run.pc \notin {"parked", "installed"} => parked = None
    /\ run.pc \in {"admitted", "prepared", "copied", "unlinked", "ready", "running", "import"} =>
         run.new = None
    /\ run.pc = "staged" => /\ Tools!CopyOf(folder[run.target]) = run.old
                            /\ stage = run.new /\ stage = [p \in Paths |-> stage[p]]
    /\ run.pc = "parked" => /\ Tools!CopyOf(parked) = run.old /\ folder[run.target] = None
                            /\ stage = run.new /\ stage = [p \in Paths |-> stage[p]]
    /\ run.pc = "installed" => Tools!CopyOf(folder[run.target]) = run.new
    /\ run.pc \in {"dirty", "clean"} /\ run.new # None =>
         \/ Tools!CopyOf(folder[run.target]) \in {run.old, run.new}
         \/ folder[run.target] = None /\ Tools!Remains(run.old) \subseteq left

ToolsInv ==
    ToolsTyped /\ OnePath /\ SourceStays /\ PolicyHolds /\ InputCopied /\ LayerPrivate /\ Importing

-----------------------------------------------------------------------------
(***************************************************************************)
(* Lemmas.                                                                 *)
(***************************************************************************)
\* A folder that is there is not the absence of one.
LEMMA TreesAreThere ==
    ASSUME Tools!PathsAssumption
    PROVE  /\ \A c \in Tools!Files : c # None
           /\ Tools!NoFile \in Tools!Files
BY DEF Tools!PathsAssumption, Tools!Files, Tools!NoFile

\* A step of the run in progress changes its program counter, and no more that matters.
Goes(pc) ==
    /\ IsRun' /\ run'.pc = pc /\ run'.policy = run.policy /\ run'.needs = run.needs
    /\ run'.target = run.target /\ run'.sel = run.sel
    /\ run'.new = run.new /\ run'.old = run.old
LEMMA RunGoes ==
    ASSUME IsRun, NEW pc \in RunSteps,
           run' = Tools!At(pc) \/ run' = Tools!Failed(pc) \/ run' = [Tools!Failed(pc) EXCEPT !.kept = TRUE]
    PROVE  Goes(pc)
<1>1. CASE run' = Tools!At(pc)
  BY <1>1 DEF Tools!At, IsRun, Goes
<1>2. CASE run' = Tools!Failed(pc)
  BY <1>2 DEF Tools!Failed, IsRun, Goes
<1>3. CASE run' = [Tools!Failed(pc) EXCEPT !.kept = TRUE]
  BY <1>3 DEF Tools!Failed, IsRun, Goes
<1>4. QED BY <1>1, <1>2, <1>3

LEMMA NoRunIsIdle ==
    ASSUME run = Tools!NoRun
    PROVE  IsRun /\ run.pc = "idle" /\ run.policy = None
BY DEF Tools!NoRun, IsRun, RunSteps

\* Without a run, what is said of one holds.
LEMMA IdleHolds ==
    ASSUME Tools!PathsAssumption, run.pc = "idle", run.policy = None, parked = None
    PROVE  PolicyHolds /\ InputCopied /\ LayerPrivate /\ Importing
BY DEF Tools!PathsAssumption, PolicyHolds, InputCopied, LayerPrivate, Importing, OfImport

\* The trees of the state.
LEMMA InTrees ==
    ASSUME Tools!PathsAssumption, ToolsTyped
    PROVE  /\ farm \in Trees /\ owned \in Trees
           /\ parked # None => parked \in Trees
           /\ \A f \in Tools!Folders : folder[f] # None => folder[f] \in Trees /\ folder[f] \in Tools!Files
           /\ Trees \subseteq Tools!Files
BY TreesAreThere DEF Trees, ToolsTyped

\* Trees made of the names of others, at the same paths, are as far apart.
LEMMA SameNamesApart ==
    ASSUME NEW A, NEW B, Apart(A),
           \A c \in B : \A p \in Paths : c[p] = None \/ \E a \in A : a[p] = c[p]
    PROVE  Apart(B)
BY DEF Apart

\* What a new inode is: one that no tree has a name of.
LEMMA NamesAreUsed ==
    ASSUME Tools!PathsAssumption, ToolsTyped
    PROVE  /\ \A files \in Tools!Files : \A q \in Paths : files[q] = None \/ files[q] \in Tools!Linked(files)
           /\ \A f \in Tools!Folders : Tools!Linked(folder[f]) \subseteq Tools!Used
           /\ Tools!Linked(farm) \subseteq Tools!Used /\ Tools!Linked(owned) \subseteq Tools!Used
<1>1. \A files \in Tools!Files : \A q \in Paths : files[q] = None \/ files[q] \in Tools!Linked(files)
  BY TreesAreThere DEF Tools!Linked
<1>2. \A f \in Tools!Folders : Tools!Linked(folder[f]) \subseteq UNION {Tools!Linked(folder[g]) : g \in Tools!Folders}
  OBVIOUS
<1>3. \A f \in Tools!Folders : Tools!Linked(folder[f]) \subseteq Tools!Used
  BY <1>2 DEF Tools!Used
<1>4. Tools!Linked(farm) \subseteq Tools!Used
  BY DEF Tools!Used
<1>5. Tools!Linked(owned) \subseteq Tools!Used
  BY DEF Tools!Used
<1>6. QED BY <1>1, <1>3, <1>4, <1>5

LEMMA FreeIsNew ==
    ASSUME Tools!PathsAssumption, ToolsTyped, NEW i \in Inodes \ (Tools!Used \cup Tools!Linked(parked))
    PROVE  \A a \in Trees : \A q \in Paths : a[q] # i
<1>1. i # None
  BY DEF Tools!PathsAssumption
<1>2. \A f \in Tools!Folders : folder[f] # None => \A q \in Paths : folder[f][q] # i
  BY <1>1, NamesAreUsed DEF ToolsTyped
<1>3. \A q \in Paths : farm[q] # i /\ owned[q] # i
  BY <1>1, NamesAreUsed DEF ToolsTyped
<1>4. parked # None => \A q \in Paths : parked[q] # i
  BY <1>1, NamesAreUsed DEF ToolsTyped
<1>5. QED BY <1>2, <1>3, <1>4 DEF Trees

LEMMA FreshIsFree ==
    ASSUME Inodes \ Tools!Used # {}
    PROVE  Tools!Fresh \in Inodes \ Tools!Used
BY DEF Tools!Fresh

LEMMA LowestDiffer ==
    ASSUME Tools!PathsAssumption, NEW files, NEW done, done \subseteq Paths, NEW free,
           free \subseteq Inodes, Tools!Lowest(files, done, free)
    PROVE  \A p, q \in done : files[p] = files[q] => p = q
<1> SUFFICES ASSUME NEW p \in done, NEW q \in done, files[p] = files[q], p # q
             PROVE  FALSE
  OBVIOUS
<1>1. p \in Nat /\ q \in Nat
  BY DEF Tools!PathsAssumption
<1>a. files[p] \in Nat
  BY DEF Tools!PathsAssumption, Tools!Lowest
<1>2. p < q \/ q < p
  BY <1>1
<1>3. files[p] < files[q] \/ files[q] < files[p]
  BY <1>2 DEF Tools!Lowest
<1>4. QED BY <1>a, <1>3

\* What is built from folders has their names.
LEMMA BuiltFrom ==
    ASSUME Tools!PathsAssumption, NEW dirs \in [Tools!Folders -> Tools!Files \cup {None}]
    PROVE  /\ Tools!Built(dirs) \in Tools!Files
           /\ \A p \in Paths : \/ Tools!Built(dirs)[p] = None
                               \/ \E f \in Tools!Folders : dirs[f] # None /\ dirs[f][p] = Tools!Built(dirs)[p]
<1>1. \A p \in Paths : \/ Tools!Winner(dirs, p) = None
                       \/ \E f \in Tools!Folders : dirs[f] # None /\ dirs[f][p] = Tools!Winner(dirs, p)
  BY DEF Tools!Winner, Tools!Folders
<1>2. \A p \in Paths : Tools!Winner(dirs, p) \in Inodes \cup {None}
  BY <1>1 DEF Tools!Files
<1>3. QED BY <1>1, <1>2 DEF Tools!Built, Tools!Files

\* What is moved has the names of the farm and of the folder.
LEMMA MovedFrom ==
    ASSUME Tools!PathsAssumption, farm \in Tools!Files, NEW files \in Tools!Files \cup {None}, NEW done
    PROVE  /\ Tools!Moved(Tools!Present(files), done) \in Tools!Files
           /\ \A p \in Paths : \/ Tools!Moved(Tools!Present(files), done)[p] = None
                               \/ Tools!Moved(Tools!Present(files), done)[p] = farm[p]
                               \/ /\ files # None
                                  /\ Tools!Moved(Tools!Present(files), done)[p] = files[p]
<1>1. Tools!Present(files) \in Tools!Files
  BY TreesAreThere DEF Tools!Present
<1>2. Tools!Moved(Tools!Present(files), done) \in Tools!Files
  BY <1>1 DEF Tools!Moved, Tools!Files
<1>3. \A p \in Paths : Tools!Present(files)[p] = None \/ (files # None /\ Tools!Present(files)[p] = files[p])
  BY DEF Tools!Present, Tools!NoFile
<1>4. QED BY <1>2, <1>3 DEF Tools!Moved

\* The output goes to Overwrite.
LEMMA SweptFrom ==
    ASSUME Tools!PathsAssumption, ToolsTyped
    PROVE  /\ Tools!Swept \in [Tools!Folders -> Tools!Files \cup {None}]
           /\ \A f \in Tools!Folders : f # "over" => Tools!Swept[f] = folder[f]
           /\ \A f \in Tools!Folders : Tools!Swept[f] # None =>
                \A p \in Paths : Tools!Swept[f][p] = None \/ \E a \in Trees : a[p] = Tools!Swept[f][p]
<1>1. "over" \in Tools!Folders /\ folder["over"] \in Tools!Files \cup {None}
  BY DEF Tools!Folders, ToolsTyped
<1>2. Tools!Swept = [folder EXCEPT !["over"] = Tools!Moved(Tools!Present(folder["over"]), Tools!Output)]
  BY DEF Tools!Swept
<1>3. Tools!Swept["over"] = Tools!Moved(Tools!Present(folder["over"]), Tools!Output)
  BY <1>1, <1>2 DEF ToolsTyped
<1>4. \A f \in Tools!Folders : f # "over" => Tools!Swept[f] = folder[f]
  BY <1>2 DEF ToolsTyped
<1>5. Tools!Moved(Tools!Present(folder["over"]), Tools!Output) \in Tools!Files
  BY <1>1, MovedFrom DEF ToolsTyped
<1>6. Tools!Swept \in [Tools!Folders -> Tools!Files \cup {None}]
  BY <1>2, <1>5 DEF ToolsTyped
<1>7. ASSUME NEW p \in Paths
      PROVE  Tools!Swept["over"][p] = None \/ \E a \in Trees : a[p] = Tools!Swept["over"][p]
  BY <1>1, <1>3, MovedFrom, InTrees DEF ToolsTyped
<1>8. QED BY <1>4, <1>6, <1>7, InTrees

LEMMA WithFolderFrom ==
    ASSUME Tools!PathsAssumption, NEW dirs \in [Tools!Folders -> Tools!Files \cup {None}]
    PROVE  /\ Tools!WithFolder(dirs) \in [Tools!Folders -> Tools!Files \cup {None}]
           /\ \A f \in Tools!Folders : f # "out" => Tools!WithFolder(dirs)[f] = dirs[f]
           /\ \A f \in Tools!Folders : Tools!WithFolder(dirs)[f] # None =>
                \A p \in Paths : \/ Tools!WithFolder(dirs)[f][p] = None
                                 \/ dirs[f] # None /\ Tools!WithFolder(dirs)[f][p] = dirs[f][p]
<1>1. \A p \in Paths : Tools!NoFile[p] = None
  BY DEF Tools!NoFile
<1>2. QED
  BY <1>1, TreesAreThere DEF Tools!WithFolder, Tools!Folders

-----------------------------------------------------------------------------
(***************************************************************************)
(* The invariant holds.                                                    *)
(***************************************************************************)
LEMMA ToolsStart == ASSUME Tools!PathsAssumption, Tools!Init PROVE ToolsInv
<1>1. \A p \in Paths : p \in Nat /\ 2 * p \in Inodes /\ 2 * p + 1 \in Inodes
  BY DEF Tools!PathsAssumption
<1>2. /\ folder["src"] = [p \in Paths |-> 2 * p]
      /\ folder["out"] = [p \in Paths |-> IF p \in OutFiles THEN 2 * p + 1 ELSE None]
      /\ folder["over"] = Tools!NoFile
      /\ folder = [f \in Tools!Folders |-> folder[f]]
  BY DEF Tools!Init, Tools!Folders
<1>3. folder["src"] \in Tools!Files /\ folder["out"] \in Tools!Files /\ folder["over"] \in Tools!Files
  BY <1>1, <1>2, TreesAreThere DEF Tools!Files
<1>4. folder \in [Tools!Folders -> Tools!Files \cup {None}]
  BY <1>2, <1>3 DEF Tools!Folders
<1>5. ToolsTyped
  BY <1>4, TreesAreThere, NoRunIsIdle DEF Tools!Init, ToolsTyped
<1>6. Trees \subseteq {folder["src"], folder["out"], Tools!NoFile}
  BY <1>2 DEF Trees, Tools!Init, Tools!Folders
<1>7. OnePath
  <2>2. \A p, q \in Nat : /\ 2 * p # 2 * q + 1 /\ 2 * p = 2 * q => p = q
                         /\ 2 * p + 1 = 2 * q + 1 => p = q
    OBVIOUS
  <2>3. Apart({folder["src"], folder["out"], Tools!NoFile})
    BY <1>1, <1>2, <2>2 DEF Apart, Tools!NoFile
  <2>4. QED BY <1>6, <2>3 DEF OnePath, Apart
<1>8. PolicyHolds /\ InputCopied /\ LayerPrivate /\ Importing
  BY NoRunIsIdle, IdleHolds DEF Tools!Init
<1>9. QED BY <1>2, <1>3, <1>5, <1>7, <1>8 DEF ToolsInv, SourceStays, Source

\* A step that touches no file of a folder, of the farm or of a parked folder.
LEMMA FilesStay ==
    ASSUME Tools!PathsAssumption, ToolsInv, IsRun', live' \in BOOLEAN,
           UNCHANGED <<mounted, folder, farm, owned, parked, data>>
    PROVE  ToolsTyped' /\ OnePath' /\ SourceStays'
<1>1. Trees' = Trees
  BY DEF Trees
<1>2. QED BY <1>1 DEF ToolsInv, ToolsTyped, OnePath, Apart, SourceStays

\* A run that ends, or does not start, without touching a file.
LEMMA RefusedKept ==
    ASSUME Tools!PathsAssumption, ToolsInv, run' = Tools!NoRun, live' = live,
           UNCHANGED <<mounted, folder, farm, owned, parked, data>>,
           run.pc \notin {"parked", "installed"}
    PROVE  ToolsInv'
<1>1. IsRun' /\ run'.pc = "idle" /\ run'.policy = None
  BY DEF Tools!NoRun, IsRun, RunSteps
<1>2. parked' = None
  BY DEF ToolsInv, Importing
<1>3. PolicyHolds' /\ InputCopied' /\ LayerPrivate' /\ Importing'
  BY <1>1, <1>2 DEF Tools!PathsAssumption, PolicyHolds, InputCopied, LayerPrivate, Importing, OfImport
<1>4. live' \in BOOLEAN
  BY DEF ToolsInv, ToolsTyped
<1>5. QED BY <1>1, <1>3, <1>4, FilesStay DEF ToolsInv

\* A run in progress that touches no file, but for the farm's marks.
LEMMA QuietRuns ==
    ASSUME Tools!PathsAssumption, ToolsInv, live, live' = live,
           UNCHANGED <<mounted, folder, farm, owned, parked, data>>,
           NEW pc \in RunSteps, pc # "idle", Goes(pc),
           pc \in OfImport => run.policy = "scratch",
           run.pc # "idle", run.policy = "exclusive" /\ run.pc = "admitted" => ~mounted,
           pc \notin {"copied", "unlinked"},
           run.policy \in {"copyup", "named"} /\ mounted /\ pc \in {"ready", "running"} =>
             run.pc \in {"ready", "running"}
    PROVE  ToolsTyped' /\ OnePath' /\ SourceStays' /\ PolicyHolds' /\ InputCopied' /\ LayerPrivate'
<1>1. IsRun' /\ live' \in BOOLEAN
  BY DEF Goes
<1>2. ToolsTyped' /\ OnePath' /\ SourceStays'
  BY <1>1, FilesStay
<1>3. PolicyHolds'
  BY DEF ToolsInv, PolicyHolds, Goes
<1>4. InputCopied' /\ LayerPrivate'
  BY DEF ToolsInv, InputCopied, LayerPrivate, Goes
<1>5. QED BY <1>2, <1>3, <1>4

(***************************************************************************)
(* The steps of a run that touch no file.                                  *)
(***************************************************************************)
LEMMA AdmitKept == ASSUME Tools!PathsAssumption, ToolsInv, Tools!Admit PROVE ToolsInv'
<1>1. PICK policy \in Policies, needs \in BOOLEAN, profile \in BOOLEAN,
           target \in {"out", "over"}, sel \in Paths :
         /\ policy \in {"named", "scratch"} => needs
         /\ policy = "exclusive" => ~needs
         /\ policy = "named" => target = "out"
         /\ policy = "copyup" => target = (IF needs THEN "out" ELSE "over")
         /\ policy \in {"direct", "exclusive"} => target = "over"
         /\ ~needs => profile
         /\ policy # "copyup" => sel = Tools!Min(Paths)
         /\ run' = [Tools!NoRun EXCEPT !.pc = "admitted", !.policy = policy, !.needs = needs,
                                 !.profile = profile, !.target = target, !.sel = sel]
  BY DEF Tools!Admit
<1>2. /\ IsRun' /\ run'.pc = "admitted" /\ run'.policy = policy /\ run'.needs = needs
      /\ run'.target = target /\ run'.sel = sel /\ run'.new = None
  BY <1>1 DEF Tools!NoRun, IsRun, RunSteps
<1>3. UNCHANGED <<mounted, folder, farm, owned, parked, data, live>> /\ live
  BY DEF Tools!Admit, Tools!world, Tools!import
<1>4. ToolsTyped' /\ OnePath' /\ SourceStays'
  BY <1>2, <1>3, FilesStay
<1>5. PolicyHolds'
  BY <1>1, <1>2, <1>3 DEF PolicyHolds, OfImport
<1>6. InputCopied' /\ LayerPrivate' /\ Importing'
  BY <1>2, <1>3 DEF Tools!Admit, ToolsInv, InputCopied, LayerPrivate, Importing
<1>7. QED BY <1>4, <1>5, <1>6 DEF ToolsInv

LEMMA RefusalsKept ==
    ASSUME Tools!PathsAssumption, ToolsInv,
           \/ Tools!RefuseMounted \/ Tools!PrepareFails \/ Tools!CopyFails \/ Tools!StartFails \/ Tools!NoCapture
           \/ Tools!NothingToCopy /\ run' = Tools!NoRun
           \/ Tools!PrepareLayer /\ run' = Tools!NoRun /\ UNCHANGED <<farm, data>>
    PROVE  ToolsInv'
<1>1. run' = Tools!NoRun /\ run.pc \notin {"parked", "installed"}
  BY DEF Tools!RefuseMounted, Tools!PrepareFails, Tools!CopyFails, Tools!StartFails, Tools!NoCapture,
     Tools!NothingToCopy, Tools!PrepareLayer,
         Tools!Refused, Tools!Untracked, Tools!Busy
<1>2. UNCHANGED <<live, mounted, folder, farm, owned, parked, data>>
  BY DEF Tools!RefuseMounted, Tools!PrepareFails, Tools!CopyFails, Tools!StartFails, Tools!NoCapture,
     Tools!NothingToCopy, Tools!PrepareLayer,
         Tools!world, Tools!import
<1>3. QED BY <1>1, <1>2, RefusedKept

LEMMA NothingToCopyKept == ASSUME Tools!PathsAssumption, ToolsInv, Tools!NothingToCopy PROVE ToolsInv'
<1>1. CASE run' = Tools!NoRun
  BY <1>1, RefusalsKept
<1>2. CASE run' = Tools!At("ready") /\ ~(run.policy = "copyup" /\ mounted)
  <2>1. Goes("ready")
    BY <1>2, RunGoes DEF ToolsInv, ToolsTyped, RunSteps
  <2>2. live /\ run.pc = "prepared" /\ UNCHANGED <<live, mounted, folder, farm, owned, parked, data>>
    BY DEF Tools!NothingToCopy, Tools!Busy, Tools!world, Tools!import
  <2>3. ~(run.policy = "named" /\ mounted)
    BY DEF Tools!NothingToCopy, Tools!WantsLayer, ToolsInv, PolicyHolds
  <2>4. /\ ToolsTyped' /\ OnePath' /\ SourceStays' /\ PolicyHolds' /\ InputCopied' /\ LayerPrivate'
    BY <1>2, <2>1, <2>2, <2>3, QuietRuns DEF RunSteps, OfImport
  <2>5. Importing'
    BY <2>1, <2>2 DEF ToolsInv, Importing, Goes
  <2>6. QED BY <2>4, <2>5 DEF ToolsInv
<1>3. QED BY <1>1, <1>2 DEF Tools!NothingToCopy, Tools!Refused

LEMMA StartKept == ASSUME Tools!PathsAssumption, ToolsInv, Tools!Start PROVE ToolsInv'
<1>1. Goes("running")
  BY RunGoes DEF Tools!Start, ToolsInv, ToolsTyped, RunSteps
<1>2. live /\ run.pc = "ready" /\ UNCHANGED <<live, mounted, folder, farm, owned, parked, data>>
  BY DEF Tools!Start, Tools!Busy, Tools!world
<1>3. /\ ToolsTyped' /\ OnePath' /\ SourceStays' /\ PolicyHolds' /\ InputCopied' /\ LayerPrivate'
  BY <1>1, <1>2, QuietRuns DEF RunSteps, OfImport
<1>4. Importing'
  BY <1>1, <1>2 DEF ToolsInv, Importing, Goes
<1>5. QED BY <1>3, <1>4 DEF ToolsInv

LEMMA WriteScratchKept ==
    ASSUME Tools!PathsAssumption, ToolsInv, NEW p \in Paths, Tools!WriteScratch(p)
    PROVE  ToolsInv'
<1>1. run' = run /\ UNCHANGED <<live, mounted, folder, farm, owned, parked, data>> /\ run.pc = "running"
  BY DEF Tools!WriteScratch, Tools!world, Tools!Busy
<1>2. ToolsTyped' /\ OnePath' /\ SourceStays'
  BY <1>1, FilesStay DEF ToolsInv, ToolsTyped, IsRun
<1>3. PolicyHolds' /\ InputCopied' /\ LayerPrivate' /\ Importing'
  BY <1>1 DEF ToolsInv, PolicyHolds, InputCopied, LayerPrivate, Importing
<1>4. QED BY <1>2, <1>3 DEF ToolsInv

LEMMA ExitKept == ASSUME Tools!PathsAssumption, ToolsInv, Tools!Exit PROVE ToolsInv'
<1>1. PICK pc \in {"import", "clean", "capture"} :
         /\ run' = Tools!At(pc) \/ run' = Tools!Failed(pc)
         /\ pc # "capture" => run.policy = "scratch"
  BY DEF Tools!Exit
<1>2. Goes(pc)
  BY <1>1, RunGoes DEF ToolsInv, ToolsTyped, RunSteps
<1>3. live /\ run.pc = "running" /\ UNCHANGED <<live, mounted, folder, farm, owned, parked, data>>
  BY DEF Tools!Exit, Tools!Busy, Tools!world, Tools!import
<1>a. /\ pc \in RunSteps /\ pc # "idle" /\ pc \notin {"ready", "running", "copied", "unlinked"}
      /\ pc \in OfImport => run.policy = "scratch"
  BY <1>1 DEF RunSteps, OfImport
<1>4. /\ ToolsTyped' /\ OnePath' /\ SourceStays' /\ PolicyHolds' /\ InputCopied' /\ LayerPrivate'
  <2>1. /\ run.pc # "idle" /\ run.pc # "admitted"
        /\ ~(pc \in {"ready", "running"}) /\ pc \notin {"ready", "running", "copied", "unlinked"}
    BY <1>a, <1>3
  <2>2. QED BY <1>a, <1>2, <1>3, <2>1, QuietRuns
<1>5. Importing'
  BY <1>1, <1>2, <1>3 DEF ToolsInv, Importing, Goes
<1>6. QED BY <1>4, <1>5 DEF ToolsInv

(***************************************************************************)
(* The steps of the import that touch no file of a folder.                 *)
(***************************************************************************)
LEMMA StageOutputKept == ASSUME Tools!PathsAssumption, ToolsInv, Tools!StageOutput PROVE ToolsInv'
<1>1. /\ run.pc = "import" /\ live /\ UNCHANGED <<live, mounted, folder, farm, owned, parked, data>>
      /\ stage' = Tools!Overlaid(Tools!Base, scratch)
      /\ run' = [Tools!At("staged") EXCEPT !.old = Tools!CopyOf(folder[run.target]),
                                     !.new = Tools!Overlaid(Tools!Base, scratch)]
  BY DEF Tools!StageOutput, Tools!Busy, Tools!world
<1>2. /\ IsRun' /\ run'.pc = "staged" /\ run'.policy = run.policy /\ run'.needs = run.needs
      /\ run'.target = run.target /\ run'.sel = run.sel
      /\ run'.old = Tools!CopyOf(folder[run.target]) /\ run'.new = Tools!Overlaid(Tools!Base, scratch)
  BY <1>1 DEF Tools!At, ToolsInv, ToolsTyped, IsRun, RunSteps
<1>3. ToolsTyped' /\ OnePath' /\ SourceStays'
  BY <1>1, <1>2, FilesStay
<1>4. PolicyHolds' /\ InputCopied' /\ LayerPrivate'
  BY <1>1, <1>2 DEF ToolsInv, PolicyHolds, InputCopied, LayerPrivate, OfImport
<1>5. Tools!CopyOf(folder[run.target])' = Tools!CopyOf(folder[run.target])
  BY <1>1, <1>2 DEF Tools!CopyOf
<1>6. stage' = [p \in Paths |-> stage'[p]]
  BY <1>1 DEF Tools!Overlaid
<1>7. Importing'
  BY <1>1, <1>2, <1>5, <1>6 DEF ToolsInv, Importing
<1>8. QED BY <1>3, <1>4, <1>7 DEF ToolsInv

LEMMA NothingToImportKept ==
    ASSUME Tools!PathsAssumption, ToolsInv, Tools!NothingToImport \/ Tools!StageFails
    PROVE  ToolsInv'
<1>1. PICK pc \in {"dirty", "clean"} :
         run' = Tools!At(pc) \/ run' = [Tools!Failed(pc) EXCEPT !.kept = TRUE]
  BY DEF Tools!NothingToImport, Tools!StageFails, Tools!ImportFailed
<1>2. Goes(pc) /\ pc \in RunSteps /\ pc \in OfImport
  BY <1>1, RunGoes DEF ToolsInv, ToolsTyped, RunSteps, OfImport
<1>3. live /\ run.pc = "import" /\ UNCHANGED <<live, mounted, folder, farm, owned, parked, data>>
  BY DEF Tools!NothingToImport, Tools!StageFails, Tools!Busy, Tools!world, Tools!import
<1>4. run.policy = "scratch"
  BY <1>3 DEF ToolsInv, PolicyHolds, OfImport
<1>5. /\ ToolsTyped' /\ OnePath' /\ SourceStays' /\ PolicyHolds' /\ InputCopied' /\ LayerPrivate'
  BY <1>1, <1>2, <1>3, <1>4, QuietRuns
<1>6. Importing'
  BY <1>1, <1>2, <1>3 DEF ToolsInv, Importing, Goes
<1>7. QED BY <1>5, <1>6 DEF ToolsInv

LEMMA MarkDirtyKept == ASSUME Tools!PathsAssumption, ToolsInv, Tools!MarkDirty PROVE ToolsInv'
<1>1. /\ run' = Tools!At("clean") \/ run' = Tools!Failed("clean")
      /\ run.pc = "dirty" /\ live /\ UNCHANGED <<live, mounted, folder, farm, owned, parked, left, data>>
  BY DEF Tools!MarkDirty, Tools!Busy, Tools!import
<1>2. Goes("clean")
  BY <1>1, RunGoes DEF ToolsInv, ToolsTyped, RunSteps
<1>3. run.policy = "scratch"
  BY <1>1 DEF ToolsInv, PolicyHolds, OfImport
<1>4. /\ ToolsTyped' /\ OnePath' /\ SourceStays' /\ PolicyHolds' /\ InputCopied' /\ LayerPrivate'
  BY <1>1, <1>2, <1>3, QuietRuns DEF RunSteps, OfImport
<1>5. Tools!CopyOf(folder[run.target])' = Tools!CopyOf(folder[run.target])
  BY <1>1, <1>2 DEF Tools!CopyOf, Goes
<1>6. Importing'
  BY <1>1, <1>2, <1>5 DEF ToolsInv, Importing, Goes
<1>7. QED BY <1>4, <1>6 DEF ToolsInv

LEMMA CleanUpKept == ASSUME Tools!PathsAssumption, ToolsInv, Tools!CleanUp PROVE ToolsInv'
<1>1. /\ run' = Tools!At("capture") /\ run.pc = "clean" /\ live
      /\ UNCHANGED <<live, mounted, folder, farm, owned, parked, data>>
  BY DEF Tools!CleanUp, Tools!Busy, Tools!world
<1>2. Goes("capture")
  BY <1>1, RunGoes DEF ToolsInv, ToolsTyped, RunSteps
<1>3. /\ ToolsTyped' /\ OnePath' /\ SourceStays' /\ PolicyHolds' /\ InputCopied' /\ LayerPrivate'
  <2>1. /\ "capture" \in RunSteps /\ "capture" # "idle" /\ ~("capture" \in {"ready", "running"})
        /\ "capture" \notin {"ready", "running", "copied", "unlinked"} /\ ~("capture" \in OfImport)
        /\ run.pc # "idle" /\ run.pc # "admitted"
    BY <1>1 DEF RunSteps, OfImport
  <2>2. QED BY <1>1, <1>2, <2>1, QuietRuns
<1>4. Importing'
  BY <1>1, <1>2 DEF ToolsInv, Importing, Goes
<1>5. QED BY <1>3, <1>4 DEF ToolsInv

(***************************************************************************)
(* The mount.                                                              *)
(***************************************************************************)
\* When the step leaves no run, only the files matter.
LEMMA WithoutRun ==
    ASSUME Tools!PathsAssumption, ToolsTyped', OnePath', SourceStays',
           run' = Tools!NoRun \/ (run' = run /\ ToolsInv /\ run.pc = "idle"), parked' = None
    PROVE  ToolsInv'
<1>1. run'.pc = "idle" /\ run'.policy = None
  BY DEF Tools!NoRun, ToolsInv, PolicyHolds
<1>2. PolicyHolds' /\ InputCopied' /\ LayerPrivate' /\ Importing'
  BY <1>1 DEF Tools!PathsAssumption, PolicyHolds, InputCopied, LayerPrivate, Importing, OfImport
<1>3. QED BY <1>2 DEF ToolsInv

\* A farm built from folders whose files have names already.
LEMMA MountApart ==
    ASSUME Tools!PathsAssumption, ToolsInv, NEW dirs \in [Tools!Folders -> Tools!Files \cup {None}],
           \A f \in Tools!Folders : dirs[f] # None =>
              \A p \in Paths : dirs[f][p] = None \/ \E a \in Trees : a[p] = dirs[f][p],
           \A f \in Tools!Folders : folder'[f] # None =>
              \A p \in Paths : folder'[f][p] = None \/ (dirs[f] # None /\ folder'[f][p] = dirs[f][p]),
           \/ farm' = Tools!Built(dirs) /\ owned' = Tools!Built(dirs)
           \/ farm' = Tools!NoFile /\ owned' = Tools!NoFile,
           parked' = None
    PROVE  OnePath'
<1>1. \A p \in Paths : Tools!Built(dirs)[p] = None \/ \E a \in Trees : a[p] = Tools!Built(dirs)[p]
  BY BuiltFrom
<1>2. \A p \in Paths : Tools!NoFile[p] = None
  BY DEF Tools!NoFile
<1>3. ASSUME NEW c \in Trees', NEW p \in Paths
      PROVE  c[p] = None \/ \E a \in Trees : a[p] = c[p]
  <2>1. CASE c = farm' \/ c = owned'
    BY <2>1, <1>1, <1>2
  <2>2. CASE \E f \in Tools!Folders : c = folder'[f] /\ folder'[f] # None
    BY <2>2
  <2>3. QED BY <1>3, <2>1, <2>2 DEF Trees
<1>4. Apart(Trees)'
  BY <1>3, SameNamesApart DEF ToolsInv, OnePath, Apart
<1>5. QED BY <1>4 DEF OnePath

LEMMA MountKept == ASSUME Tools!PathsAssumption, ToolsInv, Tools!Mount PROVE ToolsInv'
<1>1. /\ run.pc = "idle" /\ run' = run /\ mounted' = TRUE /\ farm' = Tools!Built(folder) /\ owned' = Tools!Built(folder)
      /\ UNCHANGED <<live, folder, data, parked>>
  BY DEF Tools!Mount, Tools!ToolBusy, Tools!Deployed, Tools!import
<1>2. parked' = None /\ folder \in [Tools!Folders -> Tools!Files \cup {None}]
  BY <1>1 DEF ToolsInv, ToolsTyped, Importing
<1>3. OnePath'
  <2>1. \A f \in Tools!Folders : folder[f] # None =>
          \A p \in Paths : folder[f][p] = None \/ \E a \in Trees : a[p] = folder[f][p]
    BY InTrees DEF ToolsInv
  <2>2. QED BY <1>1, <1>2, <2>1, MountApart
<1>4. ToolsTyped' /\ SourceStays'
  BY <1>1, <1>2, BuiltFrom DEF ToolsInv, ToolsTyped, SourceStays, IsRun
<1>5. QED BY <1>1, <1>2, <1>3, <1>4, WithoutRun

LEMMA DroppedKept == ASSUME Tools!PathsAssumption, ToolsInv, Tools!Unmount \/ Tools!Restart PROVE ToolsInv'
<1>1. /\ run.pc = "idle" /\ run' = run /\ mounted' = FALSE /\ farm' = Tools!NoFile /\ owned' = Tools!NoFile
      /\ folder' = Tools!Swept /\ Tools!Tidied /\ parked' = parked /\ live' \in BOOLEAN
  BY DEF Tools!Unmount, Tools!Restart, Tools!ToolBusy, Tools!Dropped, Tools!import, ToolsInv,
     ToolsTyped, PolicyHolds
<1>2. parked' = None
  BY <1>1 DEF ToolsInv, ToolsTyped, Importing
<1>3. OnePath'
  BY <1>1, <1>2, MountApart, SweptFrom DEF ToolsInv
<1>4. folder'["src"] = folder["src"]
  BY <1>1, SweptFrom DEF ToolsInv, Tools!Folders
<1>5. ToolsTyped' /\ SourceStays'
  BY <1>1, <1>2, <1>4, SweptFrom, TreesAreThere
    DEF ToolsInv, ToolsTyped, SourceStays, IsRun, Tools!Tidied
<1>6. QED BY <1>1, <1>2, <1>3, <1>5, WithoutRun

LEMMA CaptureKept == ASSUME Tools!PathsAssumption, ToolsInv, Tools!Capture PROVE ToolsInv'
<1>1. /\ run.pc = "capture" /\ run' = Tools!NoRun
      /\ UNCHANGED <<live, mounted, farm, data, parked>>
  BY DEF Tools!Capture, Tools!Busy, Tools!Untracked, Tools!import
<1>2. parked' = None /\ parked = None
  BY <1>1 DEF ToolsInv, Importing
<1>3. /\ \E done : folder' = [folder EXCEPT ![run.target] = Tools!Moved(Tools!Present(@), done)]
      /\ owned' \in {[p \in Paths |-> IF p \in Tools!Output THEN farm[p] ELSE owned[p]], owned}
  BY DEF Tools!Capture
<1>a. PICK done : folder' = [folder EXCEPT ![run.target] = Tools!Moved(Tools!Present(@), done)]
  BY <1>3
<1>b. owned' \in Tools!Files /\ \A p \in Paths : owned'[p] = farm[p] \/ owned'[p] = owned[p]
  BY <1>3 DEF ToolsInv, ToolsTyped, Tools!Files
<1>4. run.target \in Tools!Folders /\ run.target # "src"
  BY DEF ToolsInv, ToolsTyped, IsRun, Tools!Folders
<1>5. /\ folder'[run.target] = Tools!Moved(Tools!Present(folder[run.target]), done)
      /\ \A f \in Tools!Folders : f # run.target => folder'[f] = folder[f]
  BY <1>a, <1>4 DEF ToolsInv, ToolsTyped
<1>6. folder[run.target] \in Tools!Files \cup {None} /\ farm \in Tools!Files
  BY <1>4 DEF ToolsInv, ToolsTyped
<1>7. ToolsTyped'
  <2>1. folder' \in [Tools!Folders -> Tools!Files \cup {None}]
    BY <1>a, <1>6, MovedFrom DEF ToolsInv, ToolsTyped
  <2>3. IsRun'
    BY <1>1 DEF Tools!NoRun, IsRun, RunSteps
  <2>4. QED BY <1>1, <1>b, <2>1, <2>3 DEF ToolsInv, ToolsTyped
<1>8. OnePath'
  <2>1. ASSUME NEW p \in Paths
        PROVE  \/ folder'[run.target][p] = None
               \/ \E a \in Trees : a[p] = folder'[run.target][p]
    BY <1>4, <1>5, <1>6, MovedFrom, InTrees DEF ToolsInv
  <2>3. ASSUME NEW c \in Trees', NEW p \in Paths
        PROVE  c[p] = None \/ \E a \in Trees : a[p] = c[p]
    <3>1. c = farm \/ c = owned' \/ \E f \in Tools!Folders : c = folder'[f] /\ folder'[f] # None
      BY <1>1, <1>2 DEF Trees
    <3>2. QED BY <1>5, <1>b, <2>1, <3>1, InTrees DEF ToolsInv
  <2>4. QED BY <2>3, SameNamesApart DEF ToolsInv, OnePath, Apart
<1>9. SourceStays'
  BY <1>4, <1>5 DEF ToolsInv, SourceStays, Tools!Folders
<1>10. QED BY <1>1, <1>2, <1>7, <1>8, <1>9, WithoutRun

LEMMA KillKept == ASSUME Tools!PathsAssumption, ToolsInv, Tools!Kill PROVE ToolsInv'
<1>1. /\ run' = Tools!NoRun /\ live' = FALSE /\ parked' = None
      /\ UNCHANGED <<mounted, farm, owned, data, folder>>
  BY DEF Tools!Kill
<1>2. IsRun'
  BY <1>1 DEF Tools!NoRun, IsRun, RunSteps
<1>3. ToolsTyped' /\ SourceStays'
  BY <1>1, <1>2 DEF ToolsInv, ToolsTyped, SourceStays
<1>4. Trees' \subseteq Trees
  BY <1>1 DEF Trees
<1>5. OnePath'
  BY <1>4 DEF ToolsInv, OnePath, Apart
<1>6. QED BY <1>1, <1>3, <1>5, WithoutRun

(***************************************************************************)
(* The preparation of a run.                                               *)
(***************************************************************************)
LEMMA PrepareKept == ASSUME Tools!PathsAssumption, ToolsInv, Tools!Prepare PROVE ToolsInv'
<1>1. /\ run.pc = "admitted" /\ live /\ run' = Tools!At("prepared") /\ Tools!Tidied /\ ~Tools!MustUnmount
      /\ UNCHANGED <<live, parked>>
  BY DEF Tools!Prepare, Tools!Busy, Tools!import
<1>2. Goes("prepared")
  BY <1>1, RunGoes DEF ToolsInv, ToolsTyped, RunSteps
<1>3. parked = None /\ parked' = None
  BY <1>1 DEF ToolsInv, Importing
<1>4. PICK dirs \in {folder, Tools!Swept} :
        /\ folder' = Tools!WithFolder(dirs)
        /\ \/ farm' = Tools!Built(dirs) /\ owned' = Tools!Built(dirs) /\ mounted' = TRUE /\ run.needs
           \/ dirs = folder /\ UNCHANGED <<mounted, farm, owned>>
  BY DEF Tools!Prepare, Tools!Deployed
<1>5. /\ dirs \in [Tools!Folders -> Tools!Files \cup {None}] /\ dirs["src"] = folder["src"]
      /\ \A f \in Tools!Folders : dirs[f] # None =>
           \A p \in Paths : dirs[f][p] = None \/ \E a \in Trees : a[p] = dirs[f][p]
  <2>1. CASE dirs = folder
    BY <2>1, InTrees DEF ToolsInv, ToolsTyped
  <2>2. CASE dirs = Tools!Swept
    BY <2>2, SweptFrom DEF ToolsInv, Tools!Folders
  <2>3. QED BY <2>1, <2>2
<1>6. /\ folder' \in [Tools!Folders -> Tools!Files \cup {None}] /\ folder'["src"] = folder["src"]
      /\ \A f \in Tools!Folders : folder'[f] # None =>
           \A p \in Paths : folder'[f][p] = None \/ (dirs[f] # None /\ folder'[f][p] = dirs[f][p])
  BY <1>4, <1>5, WithFolderFrom DEF Tools!Folders
<1>7. farm' \in Tools!Files /\ owned' \in Tools!Files /\ mounted' \in BOOLEAN
  BY <1>4, <1>5, BuiltFrom DEF ToolsInv, ToolsTyped
<1>8. ToolsTyped' /\ SourceStays'
  BY <1>1, <1>2, <1>3, <1>6, <1>7 DEF ToolsInv, ToolsTyped, SourceStays, Tools!Tidied, Goes
<1>9. OnePath'
  <2>1. CASE farm' = Tools!Built(dirs) /\ owned' = Tools!Built(dirs)
    BY <2>1, <1>3, <1>5, <1>6, MountApart
  <2>2. CASE dirs = folder /\ UNCHANGED <<farm, owned>>
    <3>1. ASSUME NEW c \in Trees', NEW p \in Paths
          PROVE  c[p] = None \/ \E a \in Trees : a[p] = c[p]
      <4>1. c = farm \/ c = owned \/ \E f \in Tools!Folders : c = folder'[f] /\ folder'[f] # None
        BY <2>2, <1>3 DEF Trees
      <4>2. QED BY <4>1, <1>5, <1>6, InTrees DEF ToolsInv
    <3>2. QED BY <3>1, SameNamesApart DEF ToolsInv, OnePath, Apart
  <2>3. QED BY <1>4, <2>1, <2>2
<1>10. PolicyHolds'
  <2>1. run.policy = "exclusive" => ~mounted'
    BY <1>1, <1>4 DEF Tools!MustUnmount, ToolsInv, PolicyHolds
  <2>2. QED BY <1>1, <1>2, <2>1 DEF ToolsInv, PolicyHolds, Goes, OfImport
<1>11. InputCopied' /\ LayerPrivate' /\ Importing'
  BY <1>1, <1>2, <1>3 DEF ToolsInv, InputCopied, LayerPrivate, Importing, Goes
<1>12. QED BY <1>8, <1>9, <1>10, <1>11 DEF ToolsInv

\* A step gives the paths "done" names of new inodes, and no other tree changes its names.
Gives(new, done) ==
    /\ done \subseteq Paths
    /\ \A p, q \in done : new[p] = new[q] => p = q
    /\ \A p \in done : new[p] \in Inodes \ (Tools!Used \cup Tools!Linked(parked))
    /\ \A c \in Trees' : \A p \in Paths :
         \/ c[p] = None
         \/ \E a \in Trees : a[p] = c[p]
         \/ p \in done /\ c[p] = new[p]
LEMMA NewNamesKept ==
    ASSUME Tools!PathsAssumption, ToolsInv, live' = live, mounted' = mounted, parked' \in Tools!Files \cup {None},
           IsRun', farm' \in Tools!Files, owned' = owned, folder' \in [Tools!Folders -> Tools!Files \cup {None}],
           folder'["src"] = folder["src"], data' = [i \in Inodes |-> data'[i]],
           NEW new, NEW done, Gives(new, done)
    PROVE  ToolsTyped' /\ OnePath' /\ SourceStays'
<1>1. ToolsTyped' /\ SourceStays'
  BY DEF ToolsInv, ToolsTyped, SourceStays
<1>2. \A p \in done : \A a \in Trees : \A q \in Paths : a[q] # new[p]
  BY FreeIsNew DEF ToolsInv, Gives
<1>3. Apart(Trees)
  BY DEF ToolsInv, OnePath
<1>4. \A c \in Trees' : \A p \in Paths : \/ c[p] = None
                                         \/ \E a \in Trees : a[p] = c[p]
                                         \/ p \in done /\ c[p] = new[p]
  BY DEF Gives
<1>a. \A p, q \in done : new[p] = new[q] => p = q
  BY DEF Gives
<1>5. Apart(Trees')
  <2>1. ASSUME NEW a \in Trees', NEW b \in Trees', NEW p \in Paths, NEW q \in Paths,
               a[p] # None, a[p] = b[q], p # q
        PROVE  FALSE
    <3>1. (\E c \in Trees : c[p] = a[p]) \/ (p \in done /\ a[p] = new[p])
      BY <1>4, <2>1
    <3>2. (\E c \in Trees : c[q] = b[q]) \/ (q \in done /\ b[q] = new[q])
      BY <1>4, <2>1
    <3>3. CASE \E c \in Trees : c[p] = a[p]
      <4>1. PICK c \in Trees : c[p] = a[p]
        BY <3>3
      <4>2. CASE \E d \in Trees : d[q] = b[q]
        <5>1. PICK d \in Trees : d[q] = b[q]
          BY <4>2
        <5>2. c[p] # None /\ c[p] = d[q]
          BY <2>1, <4>1, <5>1
        <5>3. QED BY <1>3, <2>1, <5>2 DEF Apart
      <4>3. CASE q \in done /\ b[q] = new[q]
        BY <1>2, <2>1, <4>1, <4>3
      <4>4. QED BY <3>2, <4>2, <4>3
    <3>4. CASE p \in done /\ a[p] = new[p]
      <4>1. CASE \E d \in Trees : d[q] = b[q]
        BY <1>2, <2>1, <3>4, <4>1
      <4>2. CASE q \in done /\ b[q] = new[q]
        BY <1>a, <2>1, <3>4, <4>2
      <4>3. QED BY <3>2, <4>1, <4>2
    <3>5. QED BY <3>1, <3>3, <3>4
  <2>2. QED BY <2>1 DEF Apart
<1>6. OnePath'
  BY <1>5 DEF OnePath, Apart
<1>7. QED BY <1>1, <1>6

LEMMA PrepareLayerKept == ASSUME Tools!PathsAssumption, ToolsInv, Tools!PrepareLayer PROVE ToolsInv'
<1>1. /\ run.pc = "prepared" /\ live /\ Tools!WantsLayer
      /\ UNCHANGED <<live, mounted, owned, folder, parked>>
  BY DEF Tools!PrepareLayer, Tools!Busy, Tools!import
<1>2. PICK done \in SUBSET Tools!Supplied :
        /\ \E copies \in [done -> Inodes \ Tools!Used] : Tools!Privately(done, copies)
        /\ \/ done = Tools!Supplied /\ run' = Tools!At("ready")
           \/ run' = Tools!NoRun
  BY DEF Tools!PrepareLayer, Tools!Refused
<1>3. PICK copies \in [done -> Inodes \ Tools!Used] : Tools!Privately(done, copies)
  BY <1>2
<1>4. done \subseteq Paths /\ \A p, q \in done : copies[p] = copies[q] => p = q
  BY <1>3, LowestDiffer DEF Tools!Supplied, Tools!Privately
<1>5. parked = None /\ Tools!Linked(parked) = {}
  BY <1>1 DEF ToolsInv, Importing, Tools!Linked
<1>6. /\ farm' = [p \in Paths |-> IF p \in done THEN copies[p] ELSE farm[p]]
      /\ data' = [i \in Inodes |-> data'[i]]
  BY <1>3 DEF Tools!Privately
<1>7. farm' \in Tools!Files
  BY <1>6, <1>3 DEF ToolsInv, ToolsTyped, Tools!Files
<1>8. IsRun'
  <2>1. CASE run' = Tools!NoRun
    BY <2>1 DEF Tools!NoRun, IsRun, RunSteps
  <2>2. CASE run' = Tools!At("ready")
    BY <2>2, RunGoes DEF Goes, RunSteps, ToolsInv, ToolsTyped
  <2>3. QED BY <1>2, <2>1, <2>2
<1>9. \A c \in Trees' : \A p \in Paths : \/ c[p] = None
                                         \/ \E a \in Trees : a[p] = c[p]
                                         \/ p \in done /\ c[p] = copies[p]
  <2>1. ASSUME NEW c \in Trees', NEW p \in Paths
        PROVE  (\E a \in Trees : a[p] = c[p]) \/ (p \in done /\ c[p] = copies[p])
    <3>1. c = farm' \/ c = owned \/ \E f \in Tools!Folders : c = folder[f] /\ folder[f] # None
      BY <1>1, <1>5 DEF Trees
    <3>2. QED BY <1>6, <3>1, InTrees DEF ToolsInv
  <2>2. QED BY <2>1
<1>10. ToolsTyped' /\ OnePath' /\ SourceStays'
  <2>1. \A p \in done : copies[p] \in Inodes \ (Tools!Used \cup Tools!Linked(parked))
    BY <1>3, <1>5
  <2>2. folder' \in [Tools!Folders -> Tools!Files \cup {None}] /\ parked' \in Tools!Files \cup {None}
    BY <1>1 DEF ToolsInv, ToolsTyped
  <2>3. /\ live' = live /\ mounted' = mounted /\ owned' = owned /\ folder'["src"] = folder["src"]
    BY <1>1
  <2>4. Gives(copies, done)
    BY <1>4, <1>9, <2>1 DEF Gives
  <2>5. QED BY <1>6, <1>7, <1>8, <2>2, <2>3, <2>4, NewNamesKept
<1>11. CASE run' = Tools!NoRun
  BY <1>1, <1>5, <1>10, <1>11, WithoutRun
<1>12. CASE done = Tools!Supplied /\ run' = Tools!At("ready")
  <2>1. Goes("ready")
    BY <1>12, RunGoes DEF ToolsInv, ToolsTyped, RunSteps
  <2>2. run.policy = "named"
    BY <1>1 DEF Tools!WantsLayer
  <2>3. LayerPrivate'
    <3>1. ASSUME NEW p \in Paths, farm'[p] # None, folder["out"] # None
          PROVE  farm'[p] # folder["out"][p]
      <4>1. CASE p \in done
        <5>1. farm'[p] = copies[p] /\ copies[p] \in Inodes \ (Tools!Used \cup Tools!Linked(parked))
          BY <4>1, <1>3, <1>5, <1>6
        <5>2. folder["out"] \in Trees
          BY <3>1, InTrees DEF ToolsInv, Tools!Folders
        <5>3. QED BY <5>1, <5>2, FreeIsNew DEF ToolsInv
      <4>2. CASE p \notin done
        <5>1. farm'[p] = farm[p]
          BY <4>2, <1>6
        <5>2. QED BY <5>1, <4>2, <1>12, <3>1 DEF Tools!Supplied
      <4>3. QED BY <4>1, <4>2
    <3>2. QED BY <1>1, <3>1 DEF LayerPrivate
  <2>4. PolicyHolds' /\ InputCopied' /\ Importing'
    BY <1>1, <1>5, <2>1, <2>2 DEF ToolsInv, PolicyHolds, InputCopied, Importing, Goes, OfImport
  <2>5. QED BY <1>10, <2>3, <2>4 DEF ToolsInv
<1>13. QED BY <1>2, <1>11, <1>12

LEMMA CopyUpKept == ASSUME Tools!PathsAssumption, ToolsInv, Tools!CopyUp PROVE ToolsInv'
<1>1. /\ run.pc = "prepared" /\ live /\ Tools!WantsCopy /\ Inodes \ Tools!Used # {} /\ run' = Tools!At("copied")
      /\ folder' = [folder EXCEPT ![run.target] = Tools!Selected(Tools!Present(@))]
      /\ data' = [data EXCEPT ![Tools!Fresh] = data[farm[run.sel]]]
      /\ UNCHANGED <<live, mounted, farm, owned, parked>>
  BY DEF Tools!CopyUp, Tools!Busy, Tools!import
<1>2. Goes("copied")
  BY <1>1, RunGoes DEF ToolsInv, ToolsTyped, RunSteps
<1>3. Tools!Fresh \in Inodes \ Tools!Used /\ parked = None /\ Tools!Linked(parked) = {}
  BY <1>1, FreshIsFree DEF ToolsInv, Importing, Tools!Linked
<1>4. run.target \in Tools!Folders /\ run.target # "src" /\ run.sel \in Paths
  BY <1>1 DEF ToolsInv, ToolsTyped, IsRun, Tools!Folders, Tools!WantsCopy, PolicyHolds
<1>5. /\ folder'[run.target] = Tools!Selected(Tools!Present(folder[run.target]))
      /\ \A f \in Tools!Folders : f # run.target => folder'[f] = folder[f]
  BY <1>1, <1>4 DEF ToolsInv, ToolsTyped
<1>6. /\ Tools!Present(folder[run.target]) \in Tools!Files
      /\ \A p \in Paths : \/ Tools!Present(folder[run.target])[p] = None
                          \/ /\ folder[run.target] # None
                             /\ Tools!Present(folder[run.target])[p] = folder[run.target][p]
  BY <1>4, TreesAreThere DEF Tools!Present, Tools!NoFile, ToolsInv, ToolsTyped
<1>7. /\ folder'[run.target] \in Tools!Files /\ folder'[run.target][run.sel] = Tools!Fresh
      /\ \A p \in Paths : p # run.sel => folder'[run.target][p] = Tools!Present(folder[run.target])[p]
  BY <1>3, <1>4, <1>5, <1>6 DEF Tools!Selected, Tools!Files
<1>8. \A c \in Trees' : \A p \in Paths : \/ c[p] = None
                                         \/ \E a \in Trees : a[p] = c[p]
                                         \/ p \in {run.sel} /\ c[p] = [q \in {run.sel} |-> Tools!Fresh][p]
  <2>1. ASSUME NEW c \in Trees', NEW p \in Paths, c[p] # None
        PROVE  (\E a \in Trees : a[p] = c[p]) \/ (p = run.sel /\ c[p] = Tools!Fresh)
    <3>1. c = farm \/ c = owned \/ \E f \in Tools!Folders : c = folder'[f] /\ folder'[f] # None
      BY <1>1, <1>3 DEF Trees
    <3>2. CASE c = folder'[run.target]
      BY <3>2, <2>1, <1>6, <1>7, <1>4, InTrees DEF ToolsInv
    <3>3. CASE c # folder'[run.target]
      BY <3>1, <3>3, <1>5, InTrees DEF ToolsInv
    <3>4. QED BY <3>2, <3>3
  <2>2. QED BY <2>1
<1>9. ToolsTyped' /\ OnePath' /\ SourceStays'
  <2>1. folder' \in [Tools!Folders -> Tools!Files \cup {None}] /\ folder'["src"] = folder["src"]
    BY <1>1, <1>4, <1>5, <1>7 DEF ToolsInv, ToolsTyped, Tools!Folders
  <2>2. data' = [i \in Inodes |-> data'[i]]
    BY <1>1 DEF ToolsInv, ToolsTyped
  <2>3. IsRun' /\ farm' \in Tools!Files /\ parked' \in Tools!Files \cup {None}
    BY <1>1, <1>2 DEF Goes, ToolsInv, ToolsTyped
  <2>4. Gives([q \in {run.sel} |-> Tools!Fresh], {run.sel})
    BY <1>3, <1>4, <1>8 DEF Gives
  <2>5. QED BY <1>1, <2>1, <2>2, <2>3, <2>4, NewNamesKept
<1>10. Tools!Fresh # Source(run.sel)
  <2>1. folder["src"] \in Trees
    <3>1. folder["src"] # None /\ "src" \in Tools!Folders
      BY TreesAreThere DEF ToolsInv, SourceStays, Tools!Folders
    <3>2. QED BY <3>1, InTrees DEF ToolsInv
  <2>2. folder["src"][run.sel] = Source(run.sel)
    BY <1>4 DEF ToolsInv, SourceStays
  <2>3. QED BY <1>3, <1>4, <2>1, <2>2, FreeIsNew DEF ToolsInv
<1>11. InputCopied'
  <2>1. run.policy = "copyup" /\ mounted
    BY <1>1 DEF Tools!WantsCopy
  <2>2. folder'[run.target] # None /\ folder'[run.target][run.sel] # Source(run.sel)
    BY <1>7, <1>10, TreesAreThere
  <2>3. QED BY <1>1, <1>2, <2>1, <2>2 DEF InputCopied, Goes
<1>12. PolicyHolds' /\ LayerPrivate' /\ Importing'
  BY <1>1, <1>2, <1>3 DEF ToolsInv, PolicyHolds, LayerPrivate, Importing, Goes, OfImport
<1>13. QED BY <1>9, <1>11, <1>12 DEF ToolsInv

LEMMA NoNewNames ==
    ASSUME \A c \in Trees' : \A p \in Paths : c[p] = None \/ \E a \in Trees : a[p] = c[p]
    PROVE  Gives(<<>>, {})
BY DEF Gives

LEMMA CopyUpUnlinkKept == ASSUME Tools!PathsAssumption, ToolsInv, Tools!CopyUpUnlink PROVE ToolsInv'
<1>1. /\ run.pc = "copied" /\ live /\ farm' = [farm EXCEPT ![run.sel] = None] /\ run' = Tools!At("unlinked")
      /\ UNCHANGED <<live, mounted, folder, owned, data, parked>>
  BY DEF Tools!CopyUpUnlink, Tools!Busy, Tools!import
<1>2. Goes("unlinked")
  BY <1>1, RunGoes DEF ToolsInv, ToolsTyped, RunSteps
<1>3. parked = None /\ farm' \in Tools!Files /\ \A p \in Paths : farm'[p] = None \/ farm'[p] = farm[p]
  BY <1>1 DEF ToolsInv, ToolsTyped, Importing, Tools!Files
<1>4. ToolsTyped' /\ OnePath' /\ SourceStays'
  <2>1. ASSUME NEW c \in Trees', NEW p \in Paths
        PROVE  c[p] = None \/ \E a \in Trees : a[p] = c[p]
    <3>1. c = farm' \/ c = owned \/ \E f \in Tools!Folders : c = folder[f] /\ folder[f] # None
      BY <1>1, <1>3 DEF Trees
    <3>2. QED BY <1>3, <3>1, InTrees DEF ToolsInv
  <2>2. Gives(<<>>, {})
    BY <2>1, NoNewNames
  <2>3. IsRun' /\ folder' \in [Tools!Folders -> Tools!Files \cup {None}] /\ parked' \in Tools!Files \cup {None}
        /\ data' = [i \in Inodes |-> data'[i]]
    BY <1>1, <1>2 DEF Goes, ToolsInv, ToolsTyped
  <2>4. QED BY <1>1, <1>3, <2>2, <2>3, NewNamesKept
<1>5. PolicyHolds' /\ InputCopied' /\ LayerPrivate' /\ Importing'
  BY <1>1, <1>2, <1>3 DEF ToolsInv, PolicyHolds, InputCopied, LayerPrivate, Importing, Goes, OfImport
<1>6. QED BY <1>4, <1>5 DEF ToolsInv

LEMMA CopyUpLinkKept == ASSUME Tools!PathsAssumption, ToolsInv, Tools!CopyUpLink PROVE ToolsInv'
<1>1. /\ run.pc = "unlinked" /\ live /\ run' = Tools!At("ready")
      /\ farm' = [farm EXCEPT ![run.sel] = folder[run.target][run.sel]]
      /\ UNCHANGED <<live, mounted, folder, owned, data, parked>>
  BY DEF Tools!CopyUpLink, Tools!Busy, Tools!import
<1>2. Goes("ready")
  BY <1>1, RunGoes DEF ToolsInv, ToolsTyped, RunSteps
<1>3. /\ run.policy = "copyup" /\ run.target \in Tools!Folders /\ run.sel \in Paths /\ parked = None
      /\ folder[run.target] # None /\ folder[run.target][run.sel] # Source(run.sel)
  BY <1>1 DEF ToolsInv, ToolsTyped, IsRun, Tools!Folders, InputCopied, PolicyHolds, Importing
<1>4. folder[run.target] \in Tools!Files /\ folder[run.target] \in Trees
  BY <1>3, InTrees DEF ToolsInv
<1>5. /\ farm' \in Tools!Files /\ farm'[run.sel] = folder[run.target][run.sel]
      /\ \A p \in Paths : p # run.sel => farm'[p] = farm[p]
  BY <1>1, <1>3, <1>4 DEF ToolsInv, ToolsTyped, Tools!Files
<1>6. ToolsTyped' /\ OnePath' /\ SourceStays'
  <2>1. ASSUME NEW c \in Trees', NEW p \in Paths
        PROVE  c[p] = None \/ \E a \in Trees : a[p] = c[p]
    <3>1. c = farm' \/ c = owned \/ \E f \in Tools!Folders : c = folder[f] /\ folder[f] # None
      BY <1>1, <1>3 DEF Trees
    <3>2. CASE c = farm'
      BY <1>4, <1>5, <3>2, InTrees DEF ToolsInv
    <3>3. CASE c # farm'
      BY <3>1, <3>3, InTrees DEF ToolsInv
    <3>4. QED BY <3>2, <3>3
  <2>2. Gives(<<>>, {})
    BY <2>1, NoNewNames
  <2>3. IsRun' /\ folder' \in [Tools!Folders -> Tools!Files \cup {None}] /\ parked' \in Tools!Files \cup {None}
        /\ data' = [i \in Inodes |-> data'[i]]
    BY <1>1, <1>2 DEF Goes, ToolsInv, ToolsTyped
  <2>4. QED BY <1>1, <1>5, <2>2, <2>3, NewNamesKept
<1>7. PolicyHolds' /\ InputCopied' /\ LayerPrivate' /\ Importing'
  BY <1>1, <1>2, <1>3, <1>5 DEF ToolsInv, PolicyHolds, InputCopied, LayerPrivate, Importing, Goes,
     OfImport
<1>8. QED BY <1>6, <1>7 DEF ToolsInv

(***************************************************************************)
(* The tool writes.                                                        *)
(***************************************************************************)
LEMMA WriteInPlaceKept ==
    ASSUME Tools!PathsAssumption, ToolsInv, NEW p \in Paths, Tools!WriteInPlace(p)
    PROVE  ToolsInv'
<1>1. /\ run' = run /\ run.pc = "running" /\ UNCHANGED <<live, mounted, folder, farm, owned, parked>>
      /\ data' = [data EXCEPT ![farm[p]] = runs]
  BY DEF Tools!WriteInPlace, Tools!Busy, Tools!import
<1>2. Trees' = Trees
  BY <1>1 DEF Trees
<1>3. ToolsTyped' /\ OnePath' /\ SourceStays'
  BY <1>1, <1>2 DEF ToolsInv, ToolsTyped, IsRun, OnePath, Apart, SourceStays
<1>4. PolicyHolds' /\ InputCopied' /\ LayerPrivate' /\ Importing'
  BY <1>1 DEF ToolsInv, PolicyHolds, InputCopied, LayerPrivate, Importing
<1>5. QED BY <1>3, <1>4 DEF ToolsInv

LEMMA SourceIsFixed ==
    ASSUME Tools!PathsAssumption, ToolsInv
    PROVE  \A p \in Paths : Source(p) \in Inodes /\ Source(p) \in Tools!Used
<1>1. "src" \in Tools!Folders /\ folder["src"] \in Tools!Files /\ \A p \in Paths : folder["src"][p] = Source(p)
  BY DEF ToolsInv, SourceStays, Tools!Folders
<1>2. \A p \in Paths : Source(p) \in Inodes /\ Source(p) # None
  BY DEF Tools!PathsAssumption, Source
<1>3. \A p \in Paths : Source(p) \in Tools!Linked(folder["src"])
  BY <1>1, <1>2, NamesAreUsed DEF ToolsInv
<1>4. QED BY <1>1, <1>2, <1>3, NamesAreUsed DEF ToolsInv

LEMMA WriteAnewKept ==
    ASSUME Tools!PathsAssumption, ToolsInv, NEW p \in Paths, Tools!WriteAnew(p)
    PROVE  ToolsInv'
<1>1. /\ run' = run /\ run.pc = "running" /\ UNCHANGED <<live, mounted, folder, owned, parked>>
      /\ data' = [data EXCEPT ![Tools!Fresh] = runs] /\ farm' = [farm EXCEPT ![p] = Tools!Fresh]
      /\ Inodes \ Tools!Used # {}
  BY DEF Tools!WriteAnew, Tools!Busy, Tools!import
<1>2. Tools!Fresh \in Inodes \ Tools!Used /\ parked = None /\ Tools!Linked(parked) = {}
  BY <1>1, FreshIsFree DEF ToolsInv, Importing, Tools!Linked
<1>3. farm' \in Tools!Files /\ farm'[p] = Tools!Fresh /\ \A q \in Paths : q # p => farm'[q] = farm[q]
  BY <1>1, <1>2 DEF ToolsInv, ToolsTyped, Tools!Files
<1>4. ToolsTyped' /\ OnePath' /\ SourceStays'
  <2>1. ASSUME NEW c \in Trees', NEW q \in Paths
        PROVE  (\E a \in Trees : a[q] = c[q]) \/ (q \in {p} /\ c[q] = [r \in {p} |-> Tools!Fresh][q])
    <3>1. c = farm' \/ c = owned \/ \E f \in Tools!Folders : c = folder[f] /\ folder[f] # None
      BY <1>1, <1>2 DEF Trees
    <3>2. CASE c = farm'
      BY <1>3, <3>2, InTrees DEF ToolsInv
    <3>3. CASE c # farm'
      BY <3>1, <3>3, InTrees DEF ToolsInv
    <3>4. QED BY <3>2, <3>3
  <2>2. Gives([r \in {p} |-> Tools!Fresh], {p})
    BY <1>2, <2>1 DEF Gives
  <2>3. /\ IsRun' /\ folder' \in [Tools!Folders -> Tools!Files \cup {None}] /\ parked' \in Tools!Files \cup {None}
        /\ data' = [i \in Inodes |-> data'[i]]
    BY <1>1 DEF ToolsInv, ToolsTyped, IsRun
  <2>4. QED BY <1>1, <1>3, <2>2, <2>3, NewNamesKept
<1>5. InputCopied'
  <2>1. run.policy = "copyup" => run.sel \in Paths
    BY <1>1 DEF ToolsInv, PolicyHolds
  <2>2. \A q \in Paths : Tools!Fresh # Source(q)
    BY <1>2, SourceIsFixed
  <2>3. QED BY <1>1, <1>3, <2>1, <2>2 DEF ToolsInv, InputCopied
<1>6. LayerPrivate'
  <2>1. folder["out"] # None => folder["out"][p] # Tools!Fresh
    BY <1>2, FreeIsNew, InTrees DEF ToolsInv, Tools!Folders
  <2>2. QED BY <1>1, <1>3, <2>1 DEF ToolsInv, LayerPrivate
<1>7. PolicyHolds' /\ Importing'
  BY <1>1, <1>2 DEF ToolsInv, PolicyHolds, Importing
<1>8. QED BY <1>4, <1>5, <1>6, <1>7 DEF ToolsInv

(***************************************************************************)
(* The import replaces the folder.                                         *)
(***************************************************************************)
\* A step of an import that goes on.
LEMMA ImportGoes ==
    ASSUME Tools!PathsAssumption, ToolsInv, run.pc \in OfImport, live, live' = live, mounted' = mounted,
           NEW pc \in OfImport, Goes(pc)
    PROVE  PolicyHolds' /\ InputCopied' /\ LayerPrivate'
BY DEF ToolsInv, PolicyHolds, InputCopied, LayerPrivate, Goes, OfImport

LEMMA TargetIsFolder ==
    ASSUME ToolsInv
    PROVE  run.target \in Tools!Folders /\ run.target # "src" /\ folder[run.target] \in Tools!Files \cup {None}
BY DEF ToolsInv, ToolsTyped, IsRun, Tools!Folders

LEMMA ParkKept == ASSUME Tools!PathsAssumption, ToolsInv, Tools!Park PROVE ToolsInv'
<1>1. run.pc = "staged" /\ live /\ UNCHANGED <<live, mounted, farm, owned, data>>
  BY DEF Tools!Park, Tools!Busy, Tools!world
<1>2. /\ parked = None /\ run.pc \in OfImport /\ Tools!CopyOf(folder[run.target]) = run.old
      /\ stage = run.new /\ stage = [p \in Paths |-> stage[p]] /\ run.policy = "scratch"
  BY <1>1 DEF ToolsInv, Importing, OfImport, PolicyHolds
<1>3. CASE /\ folder[run.target] = None /\ run' = Tools!At("parked") /\ UNCHANGED <<parked, folder, stage>>
  <2>1. Goes("parked")
    BY <1>3, RunGoes DEF ToolsInv, ToolsTyped, RunSteps
  <2>2. ToolsTyped' /\ OnePath' /\ SourceStays'
    BY <1>1, <1>3, <2>1, FilesStay DEF Goes, ToolsInv, ToolsTyped
  <2>3. PolicyHolds' /\ InputCopied' /\ LayerPrivate'
    BY <1>1, <1>2, <2>1, ImportGoes DEF OfImport
  <2>4. Importing'
    BY <1>1, <1>2, <1>3, <2>1 DEF Importing, Goes, Tools!CopyOf
  <2>5. QED BY <2>2, <2>3, <2>4 DEF ToolsInv
<1>4. CASE /\ folder[run.target] # None /\ parked' = folder[run.target] /\ run' = Tools!At("parked")
           /\ folder' = [folder EXCEPT ![run.target] = None] /\ UNCHANGED stage
  <2>1. Goes("parked")
    BY <1>4, RunGoes DEF ToolsInv, ToolsTyped, RunSteps
  <2>2. /\ folder' \in [Tools!Folders -> Tools!Files \cup {None}] /\ folder'[run.target] = None
        /\ \A f \in Tools!Folders : f # run.target => folder'[f] = folder[f]
    BY <1>4, TargetIsFolder DEF ToolsInv, ToolsTyped
  <2>3. ToolsTyped' /\ SourceStays'
    BY <1>1, <1>4, <2>1, <2>2, TargetIsFolder DEF ToolsInv, ToolsTyped, SourceStays, Goes, Tools!Folders
  <2>4. OnePath'
    <3>1. Trees' \subseteq Trees
      BY <1>1, <1>4, <2>2, TargetIsFolder DEF Trees
    <3>2. QED BY <3>1 DEF ToolsInv, OnePath, Apart
  <2>5. PolicyHolds' /\ InputCopied' /\ LayerPrivate'
    BY <1>1, <1>2, <2>1, ImportGoes DEF OfImport
  <2>6. Tools!CopyOf(parked)' = run.old
    BY <1>1, <1>2, <1>4 DEF Tools!CopyOf
  <2>7. Importing'
    BY <1>2, <1>4, <2>1, <2>2, <2>6 DEF Importing, Goes
  <2>8. QED BY <2>3, <2>4, <2>5, <2>7 DEF ToolsInv
<1>5. CASE Tools!ImportFailed /\ UNCHANGED <<parked, folder>>
  <2>1. Goes("clean")
    BY <1>5, RunGoes DEF ToolsInv, ToolsTyped, RunSteps, Tools!ImportFailed
  <2>2. ToolsTyped' /\ OnePath' /\ SourceStays'
    BY <1>1, <1>5, <2>1, FilesStay DEF Goes, ToolsInv, ToolsTyped
  <2>3. PolicyHolds' /\ InputCopied' /\ LayerPrivate'
    BY <1>1, <1>2, <2>1, ImportGoes DEF OfImport
  <2>4. Tools!CopyOf(folder[run.target])' = run.old
    BY <1>1, <1>2, <1>5, <2>1 DEF Tools!CopyOf, Goes
  <2>5. Importing'
    BY <1>1, <1>2, <1>5, <2>1, <2>4 DEF Importing, Goes
  <2>6. QED BY <2>2, <2>3, <2>5 DEF ToolsInv
<1>6. QED BY <1>3, <1>4, <1>5 DEF Tools!Park

\* What is placed contains what was to be copied.
LEMMA PlacedHolds ==
    ASSUME Tools!PathsAssumption, NEW copies, copies = [p \in Paths |-> copies[p]],
           NEW files \in Tools!Files, Tools!Placed(copies, files)
    PROVE  /\ \A p \in Paths : files[p] # None => files[p] \in Inodes \ (Tools!Used \cup Tools!Linked(parked))
           /\ \A p, q \in Paths : files[p] # None /\ files[p] = files[q] => p = q
           /\ [p \in Paths |-> IF files[p] = None THEN None ELSE data'[files[p]]] = copies
<1> DEFINE done == {p \in Paths : files[p] # None}
           free == Inodes \ (Tools!Used \cup Tools!Linked(parked))
<1>1. Tools!Lowest(files, done, free)
  BY DEF Tools!Placed
<1>2. \A p, q \in done : files[p] = files[q] => p = q
  <2>1. done \subseteq Paths /\ free \subseteq Inodes
    OBVIOUS
  <2> HIDE DEF done, free
  <2>2. QED BY <1>1, <2>1, LowestDiffer
<1>3. \A p \in done : files[p] \in free
  BY <1>1 DEF Tools!Lowest
<1>4. ASSUME NEW p \in Paths, files[p] # None
      PROVE  data'[files[p]] = copies[p]
  <2>1. files[p] \in Inodes /\ \A q \in Paths : files[q] = files[p] => q = p
    BY <1>2, <1>3, <1>4
  <2>2. (CHOOSE q \in Paths : files[q] = files[p]) = p
    BY <2>1
  <2>3. data'[files[p]] = copies[CHOOSE q \in Paths : files[q] = files[p]]
    BY <2>1 DEF Tools!Placed
  <2>4. QED BY <2>2, <2>3
<1>5. \A p \in Paths : files[p] = None => copies[p] = None
  BY DEF Tools!Placed
<1>6. \A p \in Paths : (IF files[p] = None THEN None ELSE data'[files[p]]) = copies[p]
  BY <1>4, <1>5
<1>7. QED BY <1>2, <1>3, <1>6

LEMMA InstallKept == ASSUME Tools!PathsAssumption, ToolsInv, Tools!Install PROVE ToolsInv'
<1>1. /\ run.pc = "parked" /\ live /\ run' = Tools!At("installed")
      /\ UNCHANGED <<live, mounted, farm, owned, parked>>
  BY DEF Tools!Install, Tools!Busy
<1>2. Goes("installed") /\ run.pc \in OfImport
  BY <1>1, RunGoes DEF ToolsInv, ToolsTyped, RunSteps, OfImport
<1>3. PICK files \in Tools!Files :
        Tools!Placed(stage, files) /\ folder' = [folder EXCEPT ![run.target] = files]
  BY DEF Tools!Install
<1>4. stage = run.new /\ stage = [p \in Paths |-> stage[p]]
  BY <1>1 DEF ToolsInv, Importing
<1>5. /\ \A p \in Paths : files[p] # None => files[p] \in Inodes \ (Tools!Used \cup Tools!Linked(parked))
      /\ \A p, q \in Paths : files[p] # None /\ files[p] = files[q] => p = q
      /\ [p \in Paths |-> IF files[p] = None THEN None ELSE data'[files[p]]] = stage
  BY <1>3, <1>4, PlacedHolds
<1>6. /\ folder' \in [Tools!Folders -> Tools!Files \cup {None}] /\ folder'[run.target] = files
      /\ \A f \in Tools!Folders : f # run.target => folder'[f] = folder[f]
  BY <1>3, TargetIsFolder DEF ToolsInv, ToolsTyped
<1>7. ToolsTyped' /\ OnePath' /\ SourceStays'
  <2>1. ASSUME NEW c \in Trees', NEW p \in Paths, c[p] # None
        PROVE  \/ \E a \in Trees : a[p] = c[p]
               \/ p \in {q \in Paths : files[q] # None} /\ c[p] = files[p]
    <3>1. c = farm \/ c = owned \/ (c = parked /\ parked # None)
            \/ \E f \in Tools!Folders : c = folder'[f] /\ folder'[f] # None
      BY <1>1 DEF Trees
    <3>2. CASE c = files
      BY <2>1, <3>2
    <3>3. CASE c # files
      BY <1>6, <3>1, <3>3, InTrees DEF ToolsInv
    <3>4. QED BY <3>2, <3>3
  <2>2. Gives(files, {q \in Paths : files[q] # None})
    BY <1>5, <2>1 DEF Gives
  <2>3. /\ IsRun' /\ parked' \in Tools!Files \cup {None} /\ data' = [i \in Inodes |-> data'[i]]
        /\ folder'["src"] = folder["src"] /\ farm' \in Tools!Files
    BY <1>1, <1>2, <1>3, <1>6, TargetIsFolder DEF ToolsInv, ToolsTyped, Tools!Placed, Goes, Tools!Folders
  <2>4. QED BY <1>1, <1>6, <2>2, <2>3, NewNamesKept
<1>8. PolicyHolds' /\ InputCopied' /\ LayerPrivate'
  BY <1>1, <1>2, ImportGoes DEF OfImport
<1>9. Tools!CopyOf(folder[run.target])' = run'.new
  BY <1>2, <1>4, <1>5, <1>6, TreesAreThere DEF Tools!CopyOf, Goes
<1>10. Importing'
  BY <1>2, <1>9 DEF Importing, Goes
<1>11. QED BY <1>7, <1>8, <1>10 DEF ToolsInv

LEMMA InstallFailsKept == ASSUME Tools!PathsAssumption, ToolsInv, Tools!InstallFails PROVE ToolsInv'
<1>1. /\ run.pc = "parked" /\ live /\ Tools!ImportFailed /\ parked' = None
      /\ folder' = [folder EXCEPT ![run.target] = parked]
      /\ UNCHANGED <<live, mounted, farm, owned, data>>
  BY DEF Tools!InstallFails, Tools!Busy, Tools!world
<1>2. Goes("clean") /\ run.pc \in OfImport
  BY <1>1, RunGoes DEF ToolsInv, ToolsTyped, RunSteps, Tools!ImportFailed, OfImport
<1>3. Tools!CopyOf(parked) = run.old
  BY <1>1 DEF ToolsInv, Importing
<1>4. /\ folder' \in [Tools!Folders -> Tools!Files \cup {None}] /\ folder'[run.target] = parked
      /\ \A f \in Tools!Folders : f # run.target => folder'[f] = folder[f]
  BY <1>1, TargetIsFolder DEF ToolsInv, ToolsTyped
<1>5. ToolsTyped' /\ SourceStays'
  BY <1>1, <1>2, <1>4, TargetIsFolder DEF ToolsInv, ToolsTyped, SourceStays, Goes, Tools!Folders
<1>6. OnePath'
  <2>1. Trees' \subseteq Trees
    BY <1>1, <1>4, TargetIsFolder DEF Trees
  <2>2. QED BY <2>1 DEF ToolsInv, OnePath, Apart
<1>7. PolicyHolds' /\ InputCopied' /\ LayerPrivate'
  BY <1>1, <1>2, ImportGoes DEF OfImport
<1>8. Tools!CopyOf(folder[run.target])' = run.old
  BY <1>1, <1>2, <1>3, <1>4 DEF Tools!CopyOf, Goes
<1>9. Importing'
  BY <1>1, <1>2, <1>8 DEF Importing, Goes
<1>10. QED BY <1>5, <1>6, <1>7, <1>9 DEF ToolsInv

LEMMA RollbackFailsKept == ASSUME Tools!PathsAssumption, ToolsInv, Tools!RollbackFails PROVE ToolsInv'
<1>1. /\ run.pc = "parked" /\ live /\ Tools!ImportFailed /\ parked' = None /\ Tools!Tidied
      /\ left' = left \cup Tools!Remains(Tools!CopyOf(parked))
      /\ UNCHANGED <<folder, live, mounted, farm, owned>>
  BY DEF Tools!RollbackFails, Tools!Busy
<1>2. Goes("clean") /\ run.pc \in OfImport
  BY <1>1, RunGoes DEF ToolsInv, ToolsTyped, RunSteps, Tools!ImportFailed, OfImport
<1>3. Tools!CopyOf(parked) = run.old /\ folder[run.target] = None
  BY <1>1 DEF ToolsInv, Importing
<1>4. ToolsTyped' /\ SourceStays'
  BY <1>1, <1>2 DEF ToolsInv, ToolsTyped, SourceStays, Goes, Tools!Tidied
<1>5. OnePath'
  <2>1. Trees' \subseteq Trees
    BY <1>1 DEF Trees
  <2>2. QED BY <2>1 DEF ToolsInv, OnePath, Apart
<1>6. PolicyHolds' /\ InputCopied' /\ LayerPrivate'
  BY <1>1, <1>2, ImportGoes DEF OfImport
<1>7. folder'[run'.target] = None /\ Tools!Remains(run'.old) \subseteq left'
  BY <1>1, <1>2, <1>3 DEF Goes
<1>8. Importing'
  BY <1>1, <1>2, <1>7 DEF Importing, Goes
<1>9. QED BY <1>4, <1>5, <1>6, <1>8 DEF ToolsInv

LEMMA DiscardKept == ASSUME Tools!PathsAssumption, ToolsInv, Tools!Discard PROVE ToolsInv'
<1>1. /\ run.pc = "installed" /\ live /\ parked' = None /\ Tools!Tidied
      /\ UNCHANGED <<folder, live, mounted, farm, owned>>
  BY DEF Tools!Discard, Tools!Busy
<1>2. PICK pc \in {"dirty", "clean"} : Goes(pc) /\ pc \in OfImport
  BY RunGoes DEF Tools!Discard, Tools!ImportFailed, ToolsInv, ToolsTyped, RunSteps, OfImport
<1>3. run.pc \in OfImport /\ Tools!CopyOf(folder[run.target]) = run.new
  BY <1>1 DEF ToolsInv, Importing, OfImport
<1>4. ToolsTyped' /\ SourceStays'
  BY <1>1, <1>2 DEF ToolsInv, ToolsTyped, SourceStays, Goes, Tools!Tidied
<1>5. OnePath'
  <2>1. Trees' \subseteq Trees
    BY <1>1 DEF Trees
  <2>2. QED BY <2>1 DEF ToolsInv, OnePath, Apart
<1>6. PolicyHolds' /\ InputCopied' /\ LayerPrivate'
  BY <1>1, <1>2, <1>3, ImportGoes
<1>7. Tools!CopyOf(folder[run.target])' = Tools!CopyOf(folder[run.target])
  <2>1. Tools!Used' = Tools!Used
    BY <1>1 DEF Tools!Used
  <2>2. folder[run.target] # None =>
          \A p \in Paths : folder[run.target][p] # None =>
             data'[folder[run.target][p]] = data[folder[run.target][p]]
    <3>1. ASSUME folder[run.target] # None, NEW p \in Paths, folder[run.target][p] # None
          PROVE  folder[run.target][p] \in Inodes /\ folder[run.target][p] \in Tools!Used
      BY <3>1, TargetIsFolder, NamesAreUsed DEF ToolsInv, Tools!Files
    <3>2. QED BY <1>1, <2>1, <3>1 DEF Tools!Tidied
  <2>3. run'.target = run.target
    BY <1>2 DEF Goes
  <2>4. QED BY <1>1, <2>2, <2>3 DEF Tools!CopyOf
<1>8. Importing'
  BY <1>1, <1>2, <1>3, <1>7 DEF Importing, Goes
<1>9. QED BY <1>4, <1>5, <1>6, <1>8 DEF ToolsInv

LEMMA ToolsStep == ASSUME Tools!PathsAssumption, ToolsInv, Tools!Next PROVE ToolsInv'
<1>1. CASE Tools!Mount \/ Tools!Unmount \/ Tools!Restart
  BY <1>1, MountKept, DroppedKept
<1>2. CASE Tools!Admit
  BY <1>2, AdmitKept
<1>3. CASE Tools!RefuseMounted \/ Tools!PrepareFails \/ Tools!CopyFails \/ Tools!StartFails \/ Tools!NoCapture
  BY <1>3, RefusalsKept
<1>4. CASE Tools!Prepare \/ Tools!PrepareLayer
  BY <1>4, PrepareKept, PrepareLayerKept
<1>5. CASE Tools!CopyUp \/ Tools!CopyUpUnlink \/ Tools!CopyUpLink \/ Tools!NothingToCopy
  BY <1>5, CopyUpKept, CopyUpUnlinkKept, CopyUpLinkKept, NothingToCopyKept
<1>6. CASE Tools!Start \/ Tools!Exit
  BY <1>6, StartKept, ExitKept
<1>7. CASE Tools!ToolStep
  BY <1>7, WriteInPlaceKept, WriteAnewKept, WriteScratchKept DEF Tools!ToolStep
<1>8. CASE Tools!StageOutput \/ Tools!NothingToImport \/ Tools!StageFails
  BY <1>8, StageOutputKept, NothingToImportKept
<1>9. CASE Tools!Park \/ Tools!Install \/ Tools!InstallFails \/ Tools!RollbackFails \/ Tools!Discard
  BY <1>9, ParkKept, InstallKept, InstallFailsKept, RollbackFailsKept, DiscardKept
<1>10. CASE Tools!MarkDirty \/ Tools!CleanUp
  BY <1>10, MarkDirtyKept, CleanUpKept
<1>11. CASE Tools!Capture \/ Tools!Kill
  BY <1>11, CaptureKept, KillKept
<1>12. QED BY <1>1, <1>2, <1>3, <1>4, <1>5, <1>6, <1>7, <1>8, <1>9, <1>10, <1>11 DEF Tools!Next

LEMMA ToolsStutter == ASSUME ToolsInv, UNCHANGED Tools!vars PROVE ToolsInv'
<1>1. UNCHANGED <<live, mounted, folder, farm, owned, parked, left, data, stage, run>>
  BY DEF Tools!vars
<1>2. Trees' = Trees
  BY <1>1 DEF Trees
<1>3. ToolsTyped' /\ OnePath' /\ SourceStays' /\ PolicyHolds' /\ InputCopied' /\ LayerPrivate'
  BY <1>1, <1>2 DEF ToolsInv, ToolsTyped, IsRun, OnePath, Apart, SourceStays, PolicyHolds,
                    InputCopied, LayerPrivate
<1>4. Tools!CopyOf(folder[run.target])' = Tools!CopyOf(folder[run.target]) /\ Tools!CopyOf(parked)' = Tools!CopyOf(parked)
  BY <1>1 DEF Tools!CopyOf
<1>5. Importing'
  BY <1>1, <1>4 DEF ToolsInv, Importing
<1>6. QED BY <1>3, <1>5 DEF ToolsInv

\* The invariant holds of every state.
THEOREM ToolsInvariance == ASSUME Tools!PathsAssumption PROVE Tools!Spec => []ToolsInv
<1>1. Tools!Init => ToolsInv
  BY ToolsStart
<1>2. ToolsInv /\ [Tools!Next]_(Tools!vars) => ToolsInv'
  BY ToolsStep, ToolsStutter
<1>3. QED BY <1>1, <1>2, PTL DEF Tools!Spec

-----------------------------------------------------------------------------
(***************************************************************************)
(* What the tools promise.                                                 *)
(***************************************************************************)
\* Whichever step of an import fails, the folder of its target is as it was or
\* is the complete result; when the roll-back fails as well, what it was is all
\* in the folder beside it (tool_output.go, importScratchOutput).
THEOREM ImportsAreWhole == ASSUME Tools!PathsAssumption PROVE Tools!Spec => []Tools!ImportWhole
<1>1. ToolsInv => Tools!ImportWhole
  BY DEF ToolsInv, Importing, Tools!ImportWhole
<1>2. QED BY <1>1, ToolsInvariance, PTL

\* A tool that edits the mods themselves never runs beside the deployed farm
\* (executables.go, LaunchExecutable).
THEOREM EditsAreUnmounted == ASSUME Tools!PathsAssumption PROVE Tools!Spec => []Tools!SourceEditsUnmounted
<1>1. ToolsInv => Tools!SourceEditsUnmounted
  BY DEF ToolsInv, PolicyHolds, Tools!SourceEditsUnmounted
<1>2. QED BY <1>1, ToolsInvariance, PTL

\* The input of a tool that copies up keeps its content.
LEMMA InputStays ==
    ASSUME Tools!PathsAssumption, ToolsInv, Tools!Next, run.policy = "copyup", run.pc # "capture", mounted
    PROVE  data'[Source(run.sel)] = data[Source(run.sel)]
<1>1. /\ live /\ run.pc # "idle" /\ run.pc \notin OfImport /\ run.sel \in Paths
      /\ run.policy # "named" /\ folder["src"] \in Trees /\ folder["src"][run.sel] = Source(run.sel)
  <2>1. folder["src"] \in Trees
    BY InTrees, TreesAreThere DEF ToolsInv, SourceStays, Tools!Folders
  <2>2. QED BY <2>1 DEF Tools!PathsAssumption, ToolsInv, PolicyHolds, ToolsTyped, SourceStays
<1>2. Source(run.sel) \in Inodes /\ Source(run.sel) \in Tools!Used
  BY <1>1, SourceIsFixed
<1>3. CASE Tools!Prepare
  <2>1. Tools!Tidied /\ ToolsInv' /\ run'.sel = run.sel
    BY <1>3, PrepareKept, RunGoes DEF Tools!Prepare, ToolsInv, ToolsTyped, RunSteps, Goes
  <2>2. Source(run.sel) \in Tools!Used'
    <3>1. folder'["src"] \in Tools!Files /\ folder'["src"][run.sel] = Source(run.sel) /\ Source(run.sel) # None
      BY <1>1, <1>2, <2>1 DEF ToolsInv, SourceStays, Tools!PathsAssumption
    <3>2. Source(run.sel) \in Tools!Linked(folder'["src"])
      BY <1>1, <3>1, NamesAreUsed DEF ToolsInv
    <3>3. Tools!Linked(folder'["src"]) \subseteq UNION {Tools!Linked(folder'[f]) : f \in Tools!Folders}
      BY DEF Tools!Folders
    <3>4. QED BY <3>2, <3>3 DEF Tools!Used
  <2>3. QED BY <1>2, <2>1, <2>2 DEF Tools!Tidied
<1>4. CASE Tools!CopyUp
  BY <1>2, <1>4, FreshIsFree DEF Tools!CopyUp, ToolsInv, ToolsTyped
<1>5. CASE \E p \in Paths : Tools!WriteInPlace(p)
  <2>1. PICK p \in Paths : Tools!WriteInPlace(p)
    BY <1>5
  <2>2. run.pc = "running" /\ farm[p] # None /\ data' = [data EXCEPT ![farm[p]] = runs]
    BY <2>1 DEF Tools!WriteInPlace, Tools!Busy
  <2>3. farm[p] # Source(run.sel)
    <3>1. ASSUME farm[p] = Source(run.sel) PROVE p = run.sel
      BY <1>1, <2>2, <3>1, InTrees DEF ToolsInv, OnePath, Apart
    <3>2. farm[run.sel] # Source(run.sel)
      BY <2>2 DEF ToolsInv, InputCopied
    <3>3. QED BY <3>1, <3>2
  <2>4. QED BY <1>2, <2>2, <2>3 DEF ToolsInv, ToolsTyped
<1>6. CASE \E p \in Paths : Tools!WriteAnew(p)
  <2>1. data' = [data EXCEPT ![Tools!Fresh] = runs] /\ Inodes \ Tools!Used # {}
    BY <1>6 DEF Tools!WriteAnew
  <2>2. QED BY <1>2, <2>1, FreshIsFree DEF ToolsInv, ToolsTyped
<1>7. CASE UNCHANGED data
  BY <1>7
<1>8. \/ Tools!Prepare \/ Tools!CopyUp \/ (\E p \in Paths : Tools!WriteInPlace(p)) \/ (\E p \in Paths : Tools!WriteAnew(p))
      \/ UNCHANGED data
  <2>1. CASE Tools!Unmount \/ Tools!Mount
    BY <1>1, <2>1 DEF Tools!Unmount, Tools!Mount, Tools!ToolBusy
  <2>2. CASE Tools!Admit \/ Tools!RefuseMounted \/ Tools!PrepareFails \/ Tools!CopyUpUnlink \/ Tools!CopyUpLink
    BY <2>2 DEF Tools!Admit, Tools!RefuseMounted, Tools!PrepareFails, Tools!CopyUpUnlink,
       Tools!CopyUpLink, Tools!world
  <2>3. CASE Tools!NothingToCopy \/ Tools!CopyFails \/ Tools!Start \/ Tools!StartFails \/ Tools!Exit \/ Tools!ToolStep
    BY <2>3 DEF Tools!NothingToCopy, Tools!CopyFails, Tools!Start, Tools!StartFails, Tools!Exit,
       Tools!ToolStep, Tools!WriteScratch, Tools!world
  <2>4. CASE Tools!PrepareLayer
    BY <1>1, <2>4 DEF Tools!PrepareLayer, Tools!WantsLayer
  <2>5. CASE Tools!StageOutput \/ Tools!NothingToImport \/ Tools!StageFails \/ Tools!Park \/ Tools!Install \/ Tools!InstallFails
    BY <1>1, <2>5 DEF Tools!StageOutput, Tools!NothingToImport, Tools!StageFails, Tools!Park,
       Tools!Install, Tools!InstallFails, Tools!Busy, OfImport
  <2>6. CASE Tools!RollbackFails \/ Tools!Discard \/ Tools!MarkDirty \/ Tools!CleanUp \/ Tools!Capture \/ Tools!NoCapture
    BY <1>1, <2>6 DEF Tools!RollbackFails, Tools!Discard, Tools!MarkDirty, Tools!CleanUp, Tools!Capture, Tools!NoCapture,
       Tools!Busy, OfImport
  <2>7. CASE Tools!Kill \/ Tools!Restart
    BY <1>1, <2>7 DEF Tools!Kill, Tools!Restart
  <2>8. QED BY <2>1, <2>2, <2>3, <2>4, <2>5, <2>6, <2>7 DEF Tools!Next
<1>9. QED BY <1>3, <1>4, <1>5, <1>6, <1>7, <1>8

\* A named tool changes its own mod only by the capture.
LEMMA LayerStays ==
    ASSUME Tools!PathsAssumption, ToolsInv, Tools!Next, run.policy = "named", run.pc = "running"
    PROVE  Tools!CopyOf(folder["out"])' = Tools!CopyOf(folder["out"])
<1>1. live /\ folder["out"] \in Tools!Files \cup {None}
  BY DEF ToolsInv, PolicyHolds, ToolsTyped, Tools!Folders
<1>2. SUFFICES /\ folder' = folder
               /\ folder["out"] # None => \A p \in Paths : folder["out"][p] # None =>
                    data'[folder["out"][p]] = data[folder["out"][p]]
  BY DEF Tools!CopyOf
<1>3. CASE \E p \in Paths : Tools!WriteInPlace(p)
  <2>1. PICK p \in Paths : Tools!WriteInPlace(p)
    BY <1>3
  <2>2. /\ mounted /\ farm[p] # None /\ data' = [data EXCEPT ![farm[p]] = runs]
        /\ folder' = folder
    BY <2>1 DEF Tools!WriteInPlace, Tools!DataWritable
  <2>3. ASSUME folder["out"] # None, NEW q \in Paths, folder["out"][q] # None
        PROVE  data'[folder["out"][q]] = data[folder["out"][q]]
    <3>1. ASSUME farm[p] = folder["out"][q] PROVE p = q
      BY <2>2, <2>3, <3>1, InTrees DEF ToolsInv, OnePath, Apart, Tools!Folders
    <3>2. farm[p] # folder["out"][p]
      BY <2>2, <2>3 DEF ToolsInv, LayerPrivate
    <3>3. farm[p] # folder["out"][q]
      BY <3>1, <3>2
    <3>4. QED BY <1>1, <2>2, <2>3, <3>3 DEF ToolsInv, ToolsTyped, Tools!Files
  <2>4. QED BY <2>2, <2>3
<1>4. CASE \E p \in Paths : Tools!WriteAnew(p)
  <2>1. data' = [data EXCEPT ![Tools!Fresh] = runs] /\ folder' = folder /\ Tools!Fresh \in Inodes \ Tools!Used
    BY <1>4, FreshIsFree DEF Tools!WriteAnew
  <2>2. parked = None /\ Tools!Linked(parked) = {}
    BY DEF ToolsInv, Importing, Tools!Linked
  <2>3. folder["out"] # None => \A p \in Paths : folder["out"][p] # Tools!Fresh
    BY <2>1, <2>2, FreeIsNew, InTrees DEF ToolsInv, Tools!Folders
  <2>4. QED BY <1>1, <2>1, <2>3 DEF ToolsInv, ToolsTyped, Tools!Files
<1>5. CASE UNCHANGED <<folder, data>>
  BY <1>5
<1>6. \/ (\E p \in Paths : Tools!WriteInPlace(p)) \/ (\E p \in Paths : Tools!WriteAnew(p))
      \/ UNCHANGED <<folder, data>>
  <2>1. CASE Tools!ToolStep \/ Tools!Exit \/ Tools!Kill
    BY <2>1 DEF Tools!ToolStep, Tools!WriteScratch, Tools!Exit, Tools!Kill, Tools!world
  <2>2. CASE Tools!Restart
    BY <1>1, <2>2 DEF Tools!Restart
  <2>3. CASE Tools!Mount \/ Tools!Unmount \/ Tools!Admit \/ Tools!RefuseMounted \/ Tools!Prepare \/ Tools!PrepareFails
    BY <2>3 DEF Tools!Mount, Tools!Unmount, Tools!ToolBusy, Tools!Admit, Tools!RefuseMounted,
       Tools!Prepare, Tools!PrepareFails, Tools!Busy
  <2>4. CASE Tools!PrepareLayer \/ Tools!CopyUp \/ Tools!CopyUpUnlink \/ Tools!CopyUpLink \/ Tools!NothingToCopy \/ Tools!CopyFails
    BY <2>4 DEF Tools!PrepareLayer, Tools!CopyUp, Tools!CopyUpUnlink, Tools!CopyUpLink,
       Tools!NothingToCopy, Tools!CopyFails, Tools!Busy
  <2>5. CASE Tools!Start \/ Tools!StartFails \/ Tools!StageOutput \/ Tools!NothingToImport \/ Tools!StageFails \/ Tools!Park \/ Tools!Install
    BY <2>5 DEF Tools!Start, Tools!StartFails, Tools!StageOutput, Tools!NothingToImport,
       Tools!StageFails, Tools!Park, Tools!Install, Tools!Busy
  <2>6. CASE Tools!InstallFails \/ Tools!RollbackFails \/ Tools!Discard \/ Tools!MarkDirty \/ Tools!CleanUp \/ Tools!Capture \/ Tools!NoCapture
    BY <2>6 DEF Tools!InstallFails, Tools!RollbackFails, Tools!Discard, Tools!MarkDirty, Tools!CleanUp, Tools!Capture,
       Tools!NoCapture, Tools!Busy
  <2>7. QED BY <2>1, <2>2, <2>3, <2>4, <2>5, <2>6 DEF Tools!Next
<1>7. QED BY <1>3, <1>4, <1>5, <1>6

\* A tool that copies up never changes another mod's version of its input, and
\* one with a mod of its own never changes that but by the capture
\* (tool_output.go, copyUpSelectedInput and prepareWritableOutputLayer).
THEOREM SourcesAreKept == ASSUME Tools!PathsAssumption PROVE Tools!Spec => [][Tools!ToolsKeepSources]_(Tools!vars)
<1>1. ToolsInv /\ [Tools!Next]_(Tools!vars) => [Tools!ToolsKeepSources]_(Tools!vars)
  <2> SUFFICES ASSUME ToolsInv, Tools!Next PROVE Tools!ToolsKeepSources
    OBVIOUS
  <2>1. run.policy = "copyup" => run.sel \in Paths /\ folder["src"][run.sel] = Source(run.sel)
    BY DEF ToolsInv, PolicyHolds, SourceStays
  <2>2. ASSUME run.policy = "copyup", run.pc # "capture", mounted
        PROVE  data'[folder["src"][run.sel]] = data[folder["src"][run.sel]]
    BY <2>1, <2>2, InputStays
  <2>3. QED BY <2>2, LayerStays DEF Tools!ToolsKeepSources
<1>2. QED BY <1>1, ToolsInvariance, PTL DEF Tools!Spec

-----------------------------------------------------------------------------
(***************************************************************************)
(* Where the last version of a path is.                                    *)
(***************************************************************************)
Has(files, p) == files # None /\ files[p] # None /\ data[files[p]] = latest[p]
\* While its folder is parked, a tree is what the folder was.
Behind(f) == IF run.pc = "parked" /\ f = run.target THEN parked ELSE folder[f]
InFolder(f, p) == Has(Behind(f), p)
InFarm(p) == Has(farm, p)
Safe(p) ==
    \/ InFolder("src", p)
    \/ <<p, latest[p]>> \in left
    \/ scratch # None /\ scratch[p] = latest[p]
LastIsThere(p) ==
    /\ ~mounted => Safe(p) \/ InFolder("out", p) \/ InFolder("over", p)
    /\ mounted /\ p \in Tools!Output =>
         Safe(p) \/ InFarm(p) \/ (InFolder("out", p) /\ dirty)
    /\ mounted /\ p \notin Tools!Output =>
         Safe(p) \/ InFolder("out", p) \/ (InFolder("over", p) /\ (farm[p] = None \/ InFarm(p)))
WorkIsThere == \A p \in Paths \ overtaken : latest[p] # None => LastIsThere(p)

WorkTyped ==
    /\ runs \in Nat
    /\ data \in [Inodes -> Nat]
    /\ latest \in [Paths -> Nat \cup {None}]
    /\ scratch \in [Paths -> Nat \cup {None}] \cup {None}
    /\ ~mounted => farm = Tools!NoFile
    /\ run.needs /\ mounted /\ run.policy # "scratch" /\ run.pc \notin {"idle", "admitted"} => ~dirty
    /\ run.kept => run.pc \in {"clean", "capture"}

\* The copy of the selected input has the last version of it, or it is overtaken.
InputThere ==
    run.pc \in {"copied", "unlinked"} /\ run.sel \notin overtaken /\ latest[run.sel] # None =>
        /\ Has(folder[run.target], run.sel)
        /\ run.pc = "copied" => InFarm(run.sel)

\* The private output of a run is the newest there is, until it is imported.
ScratchIsLatest ==
    /\ scratch # None <=> run.policy = "scratch" /\ run.pc \in OfImport \cup {"running"}
    /\ scratch # None => \A p \in Paths : scratch[p] # None => scratch[p] = runs /\ latest[p] = runs
StageIsMerge ==
    run.pc \in {"staged", "parked", "installed"} =>
         /\ run.new # None
         /\ \A p \in Paths : run.new[p] =
               IF scratch[p] # None THEN scratch[p]
               ELSE IF run.target = "over" /\ run.old # None THEN run.old[p] ELSE None
ImportedOrNot ==
    /\ run.pc \in {"dirty", "clean"} /\ ~run.kept /\ run.new # None =>
         /\ Tools!CopyOf(folder[run.target]) = run.new
         /\ \A p \in Paths : scratch[p] # None => run.new[p] = scratch[p]
    /\ run.pc \in {"dirty", "clean"} /\ ~run.kept /\ run.new = None => scratch = Tools!NoFile \/ ~run.ok
    /\ run.pc \in {"installed", "dirty", "clean"} /\ ~run.kept /\ run.new # None =>
         (mounted /\ run.target = "over" =>
            \A p \in Paths : scratch[p] # None => p \in overtaken)

Progress == InputThere /\ ScratchIsLatest /\ StageIsMerge /\ ImportedOrNot
WorkInv == ToolsInv /\ WorkTyped /\ Progress /\ WorkIsThere

-----------------------------------------------------------------------------
(***************************************************************************)
(* Lemmas.                                                                 *)
(***************************************************************************)
\* A path nothing happens to, but that its last version may have become safe.
LEMMA StillThere ==
    ASSUME NEW p, LastIsThere(p), mounted' = mounted, dirty => dirty',
           farm'[p] = farm[p], owned'[p] = owned[p], p \in Paths,
           \/ Safe(p)'
           \/ /\ Safe(p) => Safe(p)'
              /\ InFolder("out", p) => InFolder("out", p)'
              /\ InFolder("over", p) => InFolder("over", p)'
              /\ InFarm(p) => InFarm(p)'
    PROVE  LastIsThere(p)'
BY DEF LastIsThere, Tools!Output

LEMMA BehindIsTree ==
    ASSUME Tools!PathsAssumption, ToolsInv, NEW f \in Tools!Folders
    PROVE  Behind(f) # None => Behind(f) \in Trees /\ Behind(f) \in Tools!Files
BY InTrees DEF Behind, ToolsInv, ToolsTyped

\* No file a path has is written, and the path is not written elsewhere.
DataStays(p) ==
    /\ latest'[p] = latest[p]
    /\ \A c \in Trees : c[p] # None => data'[c[p]] = data[c[p]]

LEMMA FolderStays ==
    ASSUME Tools!PathsAssumption, ToolsInv, NEW p \in Paths, DataStays(p), NEW f \in Tools!Folders,
           Behind(f) # None => Behind(f)' # None /\ Behind(f)'[p] = Behind(f)[p]
    PROVE  InFolder(f, p) => InFolder(f, p)'
BY BehindIsTree DEF InFolder, Has, DataStays

LEMMA FarmStays ==
    ASSUME Tools!PathsAssumption, ToolsInv, NEW p \in Paths, DataStays(p), farm'[p] = farm[p], farm' \in Tools!Files
    PROVE  InFarm(p) => InFarm(p)'
BY TreesAreThere, InTrees DEF InFarm, Has, DataStays, ToolsInv

\* A step that keeps the farm, the folders and what they contain.
LEMMA WorkStays ==
    ASSUME Tools!PathsAssumption, ToolsInv, WorkIsThere, mounted' = mounted, dirty => dirty',
           farm' = farm, owned' = owned, overtaken \subseteq overtaken',
           \A p \in Paths : latest'[p] \in {latest[p], None},
           \A f \in Tools!Folders : Behind(f)' = Behind(f),
           \A p \in Paths : \A c \in Trees : c[p] # None => data'[c[p]] = data[c[p]],
           left \subseteq left', scratch' = scratch \/ scratch = None
    PROVE  WorkIsThere'
<1> SUFFICES ASSUME NEW p \in Paths, p \notin overtaken', latest'[p] # None
             PROVE  LastIsThere(p)'
  BY DEF WorkIsThere
<1>1. latest'[p] = latest[p] /\ p \notin overtaken /\ latest[p] # None
  OBVIOUS
<1>2. LastIsThere(p)
  BY <1>1 DEF WorkIsThere
<1>3. DataStays(p)
  BY <1>1 DEF DataStays
<1>4. \A f \in Tools!Folders : InFolder(f, p) => InFolder(f, p)'
  BY <1>3, FolderStays
<1>5. Safe(p) => Safe(p)'
  BY <1>1, <1>4 DEF Safe, Tools!Folders
<1>6. InFarm(p) => InFarm(p)'
  BY <1>3, FarmStays DEF ToolsInv, ToolsTyped
<1>7. QED BY <1>2, <1>4, <1>5, <1>6, StillThere DEF Tools!Folders

\* A step of the run in progress that does nothing else to its record.
GoesOn(pc) ==
    /\ run'.pc = pc /\ run'.policy = run.policy /\ run'.needs = run.needs
    /\ run'.profile = run.profile /\ run'.target = run.target /\ run'.sel = run.sel
    /\ run'.new = run.new /\ run'.old = run.old
LEMMA RunGoesOn ==
    ASSUME IsRun, NEW pc
    PROVE  /\ run' = Tools!At(pc) => GoesOn(pc) /\ run'.kept = run.kept /\ run'.ok = run.ok
           /\ run' = Tools!Failed(pc) => GoesOn(pc) /\ run'.kept = run.kept /\ run'.ok = FALSE
           /\ run' = [Tools!Failed(pc) EXCEPT !.kept = TRUE] =>
                GoesOn(pc) /\ run'.kept = TRUE /\ run'.ok = FALSE
<1>1. run' = Tools!At(pc) => GoesOn(pc) /\ run'.kept = run.kept /\ run'.ok = run.ok
  BY DEF Tools!At, IsRun, GoesOn
<1>2. run' = Tools!Failed(pc) => GoesOn(pc) /\ run'.kept = run.kept /\ run'.ok = FALSE
  BY DEF Tools!Failed, IsRun, GoesOn
<1>3. run' = [Tools!Failed(pc) EXCEPT !.kept = TRUE] => GoesOn(pc) /\ run'.kept = TRUE /\ run'.ok = FALSE
  BY DEF Tools!Failed, IsRun, GoesOn
<1>4. QED BY <1>1, <1>2, <1>3

LEMMA NoRunIs ==
    ASSUME run' = Tools!NoRun
    PROVE  run'.pc = "idle" /\ run'.policy = None /\ run'.kept = FALSE /\ run'.needs = FALSE
BY DEF Tools!NoRun

\* What contents are copied.
LEMMA CopyTyped ==
    ASSUME Tools!PathsAssumption, NEW files \in Tools!Files, data \in [Inodes -> Nat]
    PROVE  /\ Tools!CopyOf(files) \in [Paths -> Nat \cup {None}] /\ Tools!CopyOf(files) # None
           /\ \A p \in Paths : Tools!CopyOf(files)[p] = IF files[p] = None THEN None ELSE data[files[p]]
<1>1. Tools!CopyOf(files) = [p \in Paths |-> IF files[p] = None THEN None ELSE data[files[p]]]
  BY TreesAreThere DEF Tools!CopyOf
<1>2. Tools!CopyOf(files) \in [Paths -> Nat \cup {None}]
  BY <1>1 DEF Tools!Files
<1>3. QED BY <1>1, <1>2 DEF Tools!PathsAssumption

\* Before the import and after it there is no private output.
LEMMA IdleProgress ==
    ASSUME run'.pc = "idle", scratch' = None
    PROVE  Progress'
<1>1. InputThere'
  BY DEF InputThere
<1>2. ScratchIsLatest'
  BY DEF ScratchIsLatest, OfImport
<1>a. run'.pc \notin {"staged", "parked", "installed"}
  OBVIOUS
<1>3. StageIsMerge'
  BY <1>a DEF StageIsMerge
<1>4. ImportedOrNot'
  BY DEF ImportedOrNot
<1>5. QED BY <1>1, <1>2, <1>3, <1>4 DEF Progress

\* What a sweep of dead inodes keeps.
LEMMA TidiedKeeps ==
    ASSUME Tools!PathsAssumption, ToolsInv, ToolsInv', Tools!Tidied, data \in [Inodes -> Nat]
    PROVE  /\ data' \in [Inodes -> Nat]
           /\ \A f \in Tools!Folders : folder'[f] # None =>
                \A p \in Paths : folder'[f][p] # None => data'[folder'[f][p]] = data[folder'[f][p]]
           /\ \A p \in Paths : /\ farm'[p] # None => data'[farm'[p]] = data[farm'[p]]
                               /\ owned'[p] # None => data'[owned'[p]] = data[owned'[p]]
<1>1. data' = [i \in Inodes |-> IF i \in Tools!Used' THEN data[i] ELSE 0]
  BY DEF Tools!Tidied
<1>2. data' \in [Inodes -> Nat]
  BY <1>1
<1>3. /\ \A f \in Tools!Folders : folder'[f] # None =>
           \A p \in Paths : folder'[f][p] # None => folder'[f][p] \in Tools!Used'
      /\ \A p \in Paths : /\ farm'[p] # None => farm'[p] \in Tools!Used'
                          /\ owned'[p] # None => owned'[p] \in Tools!Used'
  <2>1. \A files \in Tools!Files : \A q \in Paths : files[q] # None => files[q] \in Tools!Linked(files)
    BY TreesAreThere DEF Tools!Linked
  <2>2. \A f \in Tools!Folders : folder'[f] # None => folder'[f] \in Tools!Files
    BY DEF ToolsInv, ToolsTyped
  <2>3. farm' \in Tools!Files /\ owned' \in Tools!Files
    BY DEF ToolsInv, ToolsTyped
  <2>4. \A f \in Tools!Folders : Tools!Linked(folder[f])' \subseteq Tools!Used'
    <3>1. \A f \in Tools!Folders : Tools!Linked(folder'[f]) \subseteq UNION {Tools!Linked(folder'[g]) : g \in Tools!Folders}
      OBVIOUS
    <3>2. QED BY <3>1 DEF Tools!Used, Tools!Linked
  <2>5. Tools!Linked(farm)' \subseteq Tools!Used' /\ Tools!Linked(owned)' \subseteq Tools!Used'
    BY DEF Tools!Used
  <2>6. QED BY <2>1, <2>2, <2>3, <2>4, <2>5 DEF Tools!Linked
<1>4. /\ \A f \in Tools!Folders : folder'[f] # None =>
           \A p \in Paths : folder'[f][p] # None => folder'[f][p] \in Inodes
      /\ \A p \in Paths : /\ farm'[p] # None => farm'[p] \in Inodes
                          /\ owned'[p] # None => owned'[p] \in Inodes
  BY DEF ToolsInv, ToolsTyped, Tools!Files
<1>5. QED BY <1>1, <1>2, <1>3, <1>4

WorkParts == WorkTyped /\ Progress /\ WorkIsThere

(***************************************************************************)
(* The steps that leave the farm and the folders as they are.              *)
(***************************************************************************)
\* A step that touches no file and neither parks a folder nor puts it back.
LEMMA QuietWork ==
    ASSUME Tools!PathsAssumption, WorkInv, dirty => dirty',
           UNCHANGED <<mounted, farm, owned, folder, data, left, latest, overtaken>>,
           run.pc # "parked", run'.pc # "parked", scratch' = scratch \/ scratch = None
    PROVE  WorkIsThere'
<1>1. \A f \in Tools!Folders : Behind(f)' = Behind(f)
  BY DEF Behind
<1>2. QED BY <1>1, WorkStays DEF WorkInv

LEMMA RefusalsWork ==
    ASSUME Tools!PathsAssumption, WorkInv,
           \/ Tools!RefuseMounted \/ Tools!PrepareFails \/ Tools!CopyFails \/ Tools!StartFails \/ Tools!NoCapture
           \/ Tools!NothingToCopy /\ run' = Tools!NoRun
    PROVE  WorkParts'
<1>1. run' = Tools!NoRun /\ run.pc \in {"admitted", "prepared", "copied", "unlinked", "ready", "capture"}
  BY DEF Tools!RefuseMounted, Tools!PrepareFails, Tools!CopyFails, Tools!StartFails, Tools!NoCapture,
     Tools!NothingToCopy, Tools!Refused, Tools!Untracked, Tools!Busy
<1>2. UNCHANGED <<mounted, dirty, farm, owned, folder, data, left, scratch, latest, overtaken, runs>>
  BY DEF Tools!RefuseMounted, Tools!PrepareFails, Tools!CopyFails, Tools!StartFails, Tools!NoCapture,
     Tools!NothingToCopy, Tools!Refused, Tools!Untracked,
         Tools!world, Tools!import, Tools!ghosts
<1>3. scratch = None
  BY <1>1 DEF WorkInv, Progress, ScratchIsLatest, OfImport
<1>4. run'.pc = "idle" /\ run'.kept = FALSE
  BY <1>1, NoRunIs
<1>5. WorkTyped'
  BY <1>2, <1>4 DEF WorkInv, WorkTyped
<1>6. Progress'
  BY <1>2, <1>3, <1>4, IdleProgress
<1>7. WorkIsThere'
  BY <1>1, <1>2, <1>4, QuietWork
<1>8. QED BY <1>5, <1>6, <1>7 DEF WorkParts

LEMMA AdmitWork == ASSUME Tools!PathsAssumption, WorkInv, Tools!Admit PROVE WorkParts'
<1>1. /\ run.pc = "idle" /\ runs' = runs + 1
      /\ UNCHANGED <<mounted, dirty, farm, owned, folder, data, left, scratch, latest, overtaken>>
  BY DEF Tools!Admit, Tools!world, Tools!import, Tools!ghosts
<1>2. run'.pc = "admitted" /\ run'.kept = FALSE
  BY DEF Tools!Admit, Tools!NoRun
<1>3. scratch = None
  BY <1>1 DEF WorkInv, Progress, ScratchIsLatest, OfImport
<1>4. WorkTyped'
  BY <1>1, <1>2 DEF WorkInv, WorkTyped
<1>5. Progress'
  <2>1. InputThere' /\ ScratchIsLatest'
    BY <1>1, <1>2, <1>3 DEF InputThere, ScratchIsLatest, OfImport
  <2>2. StageIsMerge' /\ ImportedOrNot'
    BY <1>2 DEF StageIsMerge, ImportedOrNot
  <2>3. QED BY <2>1, <2>2 DEF Progress
<1>6. WorkIsThere'
  BY <1>1, <1>2, QuietWork
<1>7. QED BY <1>4, <1>5, <1>6 DEF WorkParts

LEMMA NothingToCopyWork == ASSUME Tools!PathsAssumption, WorkInv, Tools!NothingToCopy PROVE WorkParts'
<1>1. CASE run' = Tools!NoRun
  BY <1>1, RefusalsWork
<1>2. CASE run' = Tools!At("ready") /\ UNCHANGED <<runs, Tools!ghosts>>
  <2>1. /\ run.pc = "prepared"
        /\ UNCHANGED <<mounted, dirty, farm, owned, folder, data, left, scratch, latest, overtaken, runs>>
    BY <1>2 DEF Tools!NothingToCopy, Tools!Busy, Tools!world, Tools!import, Tools!ghosts
  <2>2. GoesOn("ready") /\ run'.kept = run.kept
    BY <1>2, RunGoesOn DEF WorkInv, ToolsInv, ToolsTyped
  <2>3. scratch = None
    BY <2>1 DEF WorkInv, Progress, ScratchIsLatest, OfImport
  <2>4. WorkTyped'
    BY <2>1, <2>2 DEF WorkInv, WorkTyped, GoesOn
  <2>5. InputThere' /\ ScratchIsLatest' /\ StageIsMerge' /\ ImportedOrNot'
    BY <2>1, <2>2, <2>3 DEF InputThere, ScratchIsLatest, StageIsMerge, ImportedOrNot, GoesOn, OfImport
  <2>6. WorkIsThere'
    BY <2>1, <2>2, QuietWork DEF GoesOn
  <2>7. QED BY <2>4, <2>5, <2>6 DEF WorkParts, Progress
<1>3. QED BY <1>1, <1>2 DEF Tools!NothingToCopy, Tools!Refused

LEMMA StartWork == ASSUME Tools!PathsAssumption, WorkInv, Tools!Start PROVE WorkParts'
<1>1. /\ run.pc = "ready" /\ run' = Tools!At("running")
      /\ scratch' = (IF run.policy = "scratch" THEN Tools!NoFile ELSE None)
      /\ UNCHANGED <<mounted, dirty, farm, owned, folder, data, left, latest, overtaken, runs>>
  BY DEF Tools!Start, Tools!Busy, Tools!world, Tools!NoFaultNoHistory, Tools!ghosts
<1>2. GoesOn("running") /\ run'.kept = run.kept
  BY <1>1, RunGoesOn DEF WorkInv, ToolsInv, ToolsTyped
<1>3. scratch = None
  BY <1>1 DEF WorkInv, Progress, ScratchIsLatest, OfImport
<1>4. /\ Tools!NoFile \in [Paths -> Nat \cup {None}] /\ Tools!NoFile # None
      /\ \A p \in Paths : Tools!NoFile[p] = None
  BY TreesAreThere DEF Tools!NoFile
<1>5. WorkTyped'
  BY <1>1, <1>2, <1>4 DEF WorkInv, WorkTyped, GoesOn
<1>6. ScratchIsLatest'
  BY <1>1, <1>2, <1>4 DEF ScratchIsLatest, GoesOn
<1>7. InputThere' /\ StageIsMerge' /\ ImportedOrNot'
  BY <1>2 DEF InputThere, StageIsMerge, ImportedOrNot, GoesOn
<1>8. WorkIsThere'
  BY <1>1, <1>2, <1>3, QuietWork DEF GoesOn
<1>9. QED BY <1>5, <1>6, <1>7, <1>8 DEF WorkParts, Progress

LEMMA ExitWork == ASSUME Tools!PathsAssumption, WorkInv, Tools!Exit PROVE WorkParts'
<1>1. /\ run.pc = "running"
      /\ UNCHANGED <<mounted, dirty, farm, owned, folder, data, left, scratch, latest, overtaken, runs>>
  BY DEF Tools!Exit, Tools!Busy, Tools!world, Tools!import, Tools!NoFaultNoHistory, Tools!ghosts
<1>2. PICK pc \in {"import", "clean", "capture"} :
         /\ GoesOn(pc) /\ run'.kept = run.kept
         /\ pc = "capture" <=> run.policy # "scratch"
         /\ pc = "clean" => run'.ok = FALSE
  BY RunGoesOn DEF Tools!Exit, WorkInv, ToolsInv, ToolsTyped
<1>3. WorkTyped'
  BY <1>1, <1>2 DEF WorkInv, WorkTyped, GoesOn
<1>4. ScratchIsLatest'
  BY <1>1, <1>2 DEF WorkInv, Progress, ScratchIsLatest, GoesOn, OfImport
<1>5. InputThere' /\ StageIsMerge'
  BY <1>2 DEF InputThere, StageIsMerge, GoesOn
<1>6. ImportedOrNot'
  BY <1>1, <1>2 DEF ImportedOrNot, GoesOn, WorkInv, ToolsInv, Importing
<1>7. WorkIsThere'
  BY <1>1, <1>2, QuietWork DEF GoesOn
<1>8. QED BY <1>3, <1>4, <1>5, <1>6, <1>7 DEF WorkParts, Progress

LEMMA StageOutputWork == ASSUME Tools!PathsAssumption, WorkInv, Tools!StageOutput PROVE WorkParts'
<1>1. /\ run.pc = "import"
      /\ run' = [Tools!At("staged") EXCEPT !.old = Tools!CopyOf(folder[run.target]), !.new = Tools!Overlaid(Tools!Base, scratch)]
      /\ UNCHANGED <<mounted, dirty, farm, owned, folder, data, left, scratch, latest, overtaken, runs>>
  BY DEF Tools!StageOutput, Tools!Busy, Tools!world, Tools!NoFaultNoHistory, Tools!ghosts
<1>2. /\ run'.pc = "staged" /\ run'.policy = run.policy /\ run'.needs = run.needs
      /\ run'.target = run.target /\ run'.kept = run.kept
      /\ run'.old = Tools!CopyOf(folder[run.target]) /\ run'.new = Tools!Overlaid(Tools!Base, scratch)
  BY <1>1 DEF Tools!At, WorkInv, ToolsInv, ToolsTyped, IsRun
<1>3. /\ data \in [Inodes -> Nat] /\ scratch \in [Paths -> Nat \cup {None}] /\ run.policy = "scratch"
  BY <1>1 DEF WorkInv, WorkTyped, Progress, ScratchIsLatest, ToolsInv, PolicyHolds, OfImport
<1>4. /\ folder[run.target] \in Tools!Files \cup {None}
      /\ run.target = "over" \/ run.target = "out"
      /\ Tools!NoFile \in Tools!Files /\ \A c \in Tools!Files : c # None
  BY TargetIsFolder, TreesAreThere DEF WorkInv, ToolsInv, ToolsTyped, IsRun
<1>5. /\ Tools!Base \in [Paths -> Nat \cup {None}]
      /\ \A p \in Paths : Tools!Base[p] = IF run.target = "over" /\ run'.old # None THEN run'.old[p] ELSE None
  <2>1. CASE run.target = "out"
    BY <1>4, <2>1 DEF Tools!Base, Tools!NoFile
  <2>2. CASE run.target = "over" /\ folder["over"] = None
    <3>1. run'.old = None
      BY <1>2, <2>2 DEF Tools!CopyOf
    <3>2. Tools!Base = Tools!CopyOf(Tools!NoFile)
      BY <2>2 DEF Tools!Base, Tools!Present
    <3>3. QED BY <1>3, <1>4, <2>2, <3>1, <3>2, CopyTyped DEF Tools!NoFile
  <2>3. CASE run.target = "over" /\ folder["over"] # None
    <3>1. Tools!Base = Tools!CopyOf(folder["over"]) /\ run'.old = Tools!Base
      BY <1>2, <2>3 DEF Tools!Base, Tools!Present
    <3>2. Tools!Base \in [Paths -> Nat \cup {None}] /\ Tools!Base # None
      BY <1>3, <1>4, <2>3, <3>1, CopyTyped
    <3>3. QED BY <2>3, <3>1, <3>2
  <2>4. QED BY <1>4, <2>1, <2>2, <2>3
<1>6. /\ Tools!Overlaid(Tools!Base, scratch) \in [Paths -> Nat \cup {None}]
      /\ \A p \in Paths : Tools!Overlaid(Tools!Base, scratch)[p] = IF scratch[p] # None THEN scratch[p] ELSE Tools!Base[p]
  BY <1>3, <1>5 DEF Tools!Overlaid
<1>7. StageIsMerge'
  <2>1. run'.new # None
    BY <1>2, <1>6 DEF Tools!PathsAssumption
  <2>2. QED BY <1>1, <1>2, <1>5, <1>6, <2>1 DEF StageIsMerge
<1>8. WorkTyped'
  BY <1>1, <1>2 DEF WorkInv, WorkTyped
<1>9. ScratchIsLatest'
  BY <1>1, <1>2 DEF WorkInv, Progress, ScratchIsLatest, OfImport
<1>10. InputThere' /\ ImportedOrNot'
  BY <1>2 DEF InputThere, ImportedOrNot
<1>11. WorkIsThere'
  BY <1>1, <1>2, QuietWork
<1>12. QED BY <1>7, <1>8, <1>9, <1>10, <1>11 DEF WorkParts, Progress

LEMMA NothingToImportWork ==
    ASSUME Tools!PathsAssumption, WorkInv, Tools!NothingToImport \/ Tools!StageFails
    PROVE  WorkParts'
<1>1. /\ run.pc = "import"
      /\ UNCHANGED <<mounted, dirty, farm, owned, folder, data, left, scratch, latest, overtaken, runs>>
  BY DEF Tools!NothingToImport, Tools!StageFails, Tools!Busy, Tools!world, Tools!import,
     Tools!NoFaultNoHistory, Tools!ghosts
<1>2. PICK pc \in {"dirty", "clean"} :
         /\ GoesOn(pc)
         /\ pc = "dirty" => run'.kept = run.kept /\ scratch = Tools!NoFile
         /\ pc = "clean" => run'.kept
  BY RunGoesOn DEF Tools!NothingToImport, Tools!StageFails, Tools!ImportFailed, WorkInv, ToolsInv,
     ToolsTyped
<1>3. WorkTyped'
  BY <1>1, <1>2 DEF WorkInv, WorkTyped, GoesOn
<1>4. ScratchIsLatest'
  BY <1>1, <1>2 DEF WorkInv, Progress, ScratchIsLatest, GoesOn, OfImport
<1>5. InputThere' /\ StageIsMerge'
  BY <1>2 DEF InputThere, StageIsMerge, GoesOn
<1>6. ImportedOrNot'
  <2>1. run'.new = None
    BY <1>1, <1>2 DEF GoesOn, WorkInv, ToolsInv, Importing
  <2>2. QED BY <1>1, <1>2, <2>1 DEF ImportedOrNot, GoesOn
<1>7. WorkIsThere'
  BY <1>1, <1>2, QuietWork DEF GoesOn
<1>8. QED BY <1>3, <1>4, <1>5, <1>6, <1>7 DEF WorkParts, Progress

\* Parking a folder and putting it back.
LEMMA ParkWork ==
    ASSUME Tools!PathsAssumption, WorkInv, Tools!Park \/ Tools!InstallFails
    PROVE  WorkParts'
<1>1. /\ run.pc \in {"staged", "parked"}
      /\ UNCHANGED <<mounted, dirty, farm, owned, data, left, scratch, latest, overtaken, runs>>
  BY DEF Tools!Park, Tools!InstallFails, Tools!Busy, Tools!world, Tools!ghosts
<1>2. PICK pc \in {"parked", "clean"} : GoesOn(pc) /\ (pc = "clean" <=> run'.kept)
  BY <1>1, RunGoesOn DEF Tools!Park, Tools!InstallFails, Tools!ImportFailed, WorkInv, ToolsInv,
     ToolsTyped, WorkTyped
<1>3. WorkTyped'
  BY <1>1, <1>2 DEF WorkInv, WorkTyped, GoesOn
<1>4. ScratchIsLatest'
  BY <1>1, <1>2 DEF WorkInv, Progress, ScratchIsLatest, GoesOn, OfImport
<1>5. StageIsMerge'
  BY <1>1, <1>2 DEF WorkInv, Progress, StageIsMerge, GoesOn
<1>6. InputThere' /\ ImportedOrNot'
  BY <1>2 DEF InputThere, ImportedOrNot, GoesOn
<1>7. \A f \in Tools!Folders : Behind(f)' = Behind(f)
  <2>1. CASE Tools!Park
    <3>1. CASE run' = Tools!At("parked") /\ folder[run.target] = None /\ UNCHANGED <<parked, folder>>
      <4>1. GoesOn("parked") /\ run.pc = "staged" /\ parked = None
        BY <2>1, <3>1, RunGoesOn DEF Tools!Park, Tools!Busy, WorkInv, ToolsInv, ToolsTyped, Importing
      <4>2. QED BY <3>1, <4>1 DEF Behind, GoesOn
    <3>2. CASE /\ run' = Tools!At("parked") /\ parked' = folder[run.target]
               /\ folder' = [folder EXCEPT ![run.target] = None]
      <4>1. GoesOn("parked") /\ run.pc = "staged"
        BY <2>1, <3>2, RunGoesOn DEF Tools!Park, Tools!Busy, WorkInv, ToolsInv, ToolsTyped
      <4>2. \A f \in Tools!Folders : f # run.target => folder'[f] = folder[f]
        BY <3>2 DEF WorkInv, ToolsInv, ToolsTyped
      <4>3. QED BY <3>2, <4>1, <4>2 DEF Behind, GoesOn
    <3>3. CASE Tools!ImportFailed /\ UNCHANGED <<parked, folder>>
      <4>1. GoesOn("clean") /\ run.pc = "staged"
        BY <2>1, <3>3, RunGoesOn DEF Tools!Park, Tools!Busy, Tools!ImportFailed, WorkInv, ToolsInv,
           ToolsTyped
      <4>2. QED BY <3>3, <4>1 DEF Behind, GoesOn
    <3>4. QED BY <2>1, <3>1, <3>2, <3>3 DEF Tools!Park
  <2>2. CASE Tools!InstallFails
    <3>1. /\ run.pc = "parked" /\ folder' = [folder EXCEPT ![run.target] = parked] /\ GoesOn("clean")
      BY <2>2, RunGoesOn DEF Tools!InstallFails, Tools!Busy, Tools!ImportFailed, WorkInv, ToolsInv,
         ToolsTyped
    <3>2. \A f \in Tools!Folders : folder'[f] = IF f = run.target THEN parked ELSE folder[f]
      BY <3>1 DEF WorkInv, ToolsInv, ToolsTyped
    <3>3. QED BY <3>1, <3>2 DEF Behind, GoesOn
  <2>3. QED BY <2>1, <2>2
<1>8. WorkIsThere'
  BY <1>1, <1>7, WorkStays DEF WorkInv
<1>9. QED BY <1>3, <1>4, <1>5, <1>6, <1>8 DEF WorkParts, Progress

\* Neither folder can be renamed: what the old one had is beside the mods.
LEMMA RollbackFailsWork ==
    ASSUME Tools!PathsAssumption, WorkInv, ToolsInv', Tools!RollbackFails
    PROVE  WorkParts'
<1>1. /\ run.pc = "parked" /\ Tools!Tidied
      /\ left' = left \cup Tools!Remains(Tools!CopyOf(parked))
      /\ UNCHANGED <<mounted, dirty, farm, owned, folder, scratch, latest, overtaken, runs>>
  BY DEF Tools!RollbackFails, Tools!Busy, Tools!ghosts
<1>2. GoesOn("clean") /\ run'.kept
  BY RunGoesOn DEF Tools!RollbackFails, Tools!ImportFailed, WorkInv, ToolsInv, ToolsTyped
<1>3. /\ data' \in [Inodes -> Nat]
      /\ \A f \in Tools!Folders : folder[f] # None =>
           \A p \in Paths : folder[f][p] # None => data'[folder[f][p]] = data[folder[f][p]]
      /\ \A p \in Paths : /\ farm[p] # None => data'[farm[p]] = data[farm[p]]
                          /\ owned[p] # None => data'[owned[p]] = data[owned[p]]
  BY <1>1, TidiedKeeps DEF WorkInv, WorkTyped
<1>4. WorkTyped'
  BY <1>1, <1>2, <1>3 DEF WorkInv, WorkTyped, GoesOn
<1>5. ScratchIsLatest'
  BY <1>1, <1>2 DEF WorkInv, Progress, ScratchIsLatest, GoesOn, OfImport
<1>6. InputThere' /\ StageIsMerge' /\ ImportedOrNot'
  BY <1>2 DEF InputThere, StageIsMerge, ImportedOrNot, GoesOn
<1>7. WorkIsThere'
  <2> SUFFICES ASSUME NEW p \in Paths, p \notin overtaken, latest[p] # None
               PROVE  LastIsThere(p)'
    BY <1>1 DEF WorkIsThere
  <2>1. LastIsThere(p)
    BY DEF WorkInv, WorkIsThere
  <2>2. \A f \in Tools!Folders : Behind(f)' = folder[f]
    BY <1>1, <1>2 DEF Behind, GoesOn
  <2>3. ASSUME NEW f \in Tools!Folders, InFolder(f, p)
        PROVE  InFolder(f, p)' \/ (f # "src" /\ Safe(p)')
    <3>1. CASE Behind(f) = folder[f]
      BY <1>1, <1>3, <2>2, <2>3, <3>1 DEF InFolder, Has
    <3>2. CASE Behind(f) # folder[f]
      <4>1. Behind(f) = parked /\ f = run.target /\ parked # None
        BY <3>2, <2>3 DEF Behind, InFolder, Has
      <4>2. f # "src" /\ parked \in Tools!Files
        BY <4>1, TargetIsFolder DEF WorkInv, ToolsInv, ToolsTyped
      <4>3. Tools!CopyOf(parked) # None /\ Tools!CopyOf(parked)[p] = latest[p]
        BY <2>3, <4>1, <4>2, CopyTyped DEF InFolder, Has, WorkInv, WorkTyped
      <4>4. <<p, latest[p]>> \in left'
        BY <1>1, <4>3 DEF Tools!Remains
      <4>5. QED BY <1>1, <4>2, <4>4 DEF Safe
    <3>3. QED BY <3>1, <3>2
  <2>4. Safe(p) => Safe(p)'
    <3>1. InFolder("src", p) => InFolder("src", p)'
      BY <2>3 DEF Tools!Folders
    <3>2. QED BY <1>1, <3>1 DEF Safe
  <2>5. InFarm(p) => InFarm(p)'
    BY <1>1, <1>3, TreesAreThere DEF InFarm, Has
  <2>6. QED BY <1>1, <2>1, <2>3, <2>4, <2>5, StillThere DEF Tools!Folders
<1>8. QED BY <1>4, <1>5, <1>6, <1>7 DEF WorkParts, Progress

LEMMA MarkDirtyWork == ASSUME Tools!PathsAssumption, WorkInv, Tools!MarkDirty PROVE WorkParts'
<1>a. dirty => dirty'
  BY Zenon DEF Tools!MarkDirty
<1>1. /\ run.pc = "dirty"
      /\ UNCHANGED <<mounted, farm, owned, folder, data, left, scratch, latest, overtaken, runs>>
  BY DEF Tools!MarkDirty, Tools!Busy, Tools!import, Tools!ghosts
<1>2. GoesOn("clean") /\ run'.kept = run.kept /\ (run'.ok = run.ok \/ run'.ok = FALSE)
  BY RunGoesOn DEF Tools!MarkDirty, WorkInv, ToolsInv, ToolsTyped
<1>3. run.policy = "scratch"
  BY <1>1 DEF WorkInv, ToolsInv, PolicyHolds, OfImport
<1>4. WorkTyped'
  BY <1>1, <1>2, <1>3 DEF WorkInv, WorkTyped, GoesOn
<1>5. ScratchIsLatest'
  BY <1>1, <1>2 DEF WorkInv, Progress, ScratchIsLatest, GoesOn, OfImport
<1>6. InputThere' /\ StageIsMerge'
  BY <1>2 DEF InputThere, StageIsMerge, GoesOn
<1>7. ImportedOrNot'
  <2>1. Tools!CopyOf(folder[run.target])' = Tools!CopyOf(folder[run.target])
    BY <1>1, <1>2 DEF Tools!CopyOf, GoesOn
  <2>2. QED BY <1>1, <1>2, <2>1 DEF WorkInv, Progress, ImportedOrNot, GoesOn
<1>8. WorkIsThere'
  BY <1>a, <1>1, <1>2, QuietWork DEF GoesOn
<1>9. QED BY <1>4, <1>5, <1>6, <1>7, <1>8 DEF WorkParts, Progress

LEMMA DiscardWork == ASSUME Tools!PathsAssumption, WorkInv, ToolsInv', Tools!Discard PROVE WorkParts'
<1>1. /\ run.pc = "installed" /\ Tools!Tidied
      /\ UNCHANGED <<mounted, dirty, farm, owned, folder, left, scratch, latest, overtaken, runs>>
  BY DEF Tools!Discard, Tools!Busy, Tools!ghosts
<1>2. PICK pc \in {"dirty", "clean"} :
         GoesOn(pc) /\ (pc = "dirty" => run'.kept = run.kept) /\ (pc = "clean" => run'.kept)
  BY RunGoesOn DEF Tools!Discard, Tools!ImportFailed, WorkInv, ToolsInv, ToolsTyped
<1>3. /\ data' \in [Inodes -> Nat]
      /\ \A f \in Tools!Folders : folder[f] # None =>
           \A p \in Paths : folder[f][p] # None => data'[folder[f][p]] = data[folder[f][p]]
      /\ \A p \in Paths : /\ farm[p] # None => data'[farm[p]] = data[farm[p]]
                          /\ owned[p] # None => data'[owned[p]] = data[owned[p]]
  BY <1>1, TidiedKeeps DEF WorkInv, WorkTyped
<1>4. WorkTyped'
  BY <1>1, <1>2, <1>3 DEF WorkInv, WorkTyped, GoesOn
<1>5. ScratchIsLatest'
  BY <1>1, <1>2 DEF WorkInv, Progress, ScratchIsLatest, GoesOn, OfImport
<1>6. InputThere' /\ StageIsMerge'
  BY <1>2 DEF InputThere, StageIsMerge, GoesOn
<1>7. ImportedOrNot'
  <2>1. Tools!CopyOf(folder[run.target])' = Tools!CopyOf(folder[run.target])
    BY <1>1, <1>2, <1>3, TargetIsFolder DEF Tools!CopyOf, GoesOn, WorkInv
  <2>2. Tools!CopyOf(folder[run.target]) = run.new
    BY <1>1 DEF WorkInv, ToolsInv, Importing
  <2>3. \A p \in Paths : scratch[p] # None => run.new[p] = scratch[p]
    BY <1>1 DEF WorkInv, Progress, StageIsMerge
  <2>4. run.new # None /\ ~run.kept
    BY <1>1 DEF WorkInv, Progress, StageIsMerge, WorkTyped
  <2>5. mounted /\ run.target = "over" => \A p \in Paths : scratch[p] # None => p \in overtaken
    BY <1>1, <2>4 DEF WorkInv, Progress, ImportedOrNot
  <2>6. QED BY <1>1, <1>2, <2>1, <2>2, <2>3, <2>4, <2>5 DEF ImportedOrNot, GoesOn
<1>8. WorkIsThere'
  <2> SUFFICES ASSUME NEW p \in Paths, p \notin overtaken, latest[p] # None
               PROVE  LastIsThere(p)'
    BY <1>1 DEF WorkIsThere
  <2>1. LastIsThere(p)
    BY DEF WorkInv, WorkIsThere
  <2>2. \A f \in Tools!Folders : Behind(f) = folder[f] /\ Behind(f)' = folder[f]
    BY <1>1, <1>2 DEF Behind, GoesOn
  <2>3. \A f \in Tools!Folders : InFolder(f, p) => InFolder(f, p)'
    BY <1>1, <1>3, <2>2 DEF InFolder, Has
  <2>4. InFarm(p) => InFarm(p)'
    BY <1>1, <1>3, TreesAreThere DEF InFarm, Has
  <2>5. Safe(p) => Safe(p)'
    BY <1>1, <2>3 DEF Safe, Tools!Folders
  <2>6. QED BY <1>1, <2>1, <2>3, <2>4, <2>5, StillThere DEF Tools!Folders
<1>9. QED BY <1>4, <1>5, <1>6, <1>7, <1>8 DEF WorkParts, Progress

(***************************************************************************)
(* The mount.                                                              *)
(***************************************************************************)
\* Overwrite wins every path it has.
LEMMA OverwriteWins ==
    ASSUME NEW dirs, NEW p \in Paths, dirs["over"] # None, dirs["over"][p] # None
    PROVE  Tools!Built(dirs)[p] = dirs["over"][p]
BY DEF Tools!Built, Tools!Winner

\* What a folder or Overwrite has is there in the farm built from them.
LEMMA DeployedIsThere ==
    ASSUME Tools!PathsAssumption, NEW dirs \in [Tools!Folders -> Tools!Files \cup {None}], NEW p \in Paths,
           farm' = Tools!Built(dirs), owned' = Tools!Built(dirs),
           \/ Safe(p)' \/ InFolder("out", p)'
           \/ /\ dirs["over"] # None /\ dirs["over"][p] # None /\ InFolder("over", p)'
              /\ data'[dirs["over"][p]] = latest'[p]
    PROVE  mounted' => LastIsThere(p)'
<1>1. farm' \in Tools!Files
  BY BuiltFrom
<1>2. p \notin Tools!Output'
  BY DEF Tools!Output
<1>3. ASSUME dirs["over"] # None, dirs["over"][p] # None, data'[dirs["over"][p]] = latest'[p]
      PROVE  InFarm(p)'
  BY <1>1, <1>3, OverwriteWins, TreesAreThere DEF InFarm, Has
<1>4. QED BY <1>2, <1>3 DEF LastIsThere

\* The sweep takes what only the farm had.
LEMMA SweptHas ==
    ASSUME Tools!PathsAssumption, ToolsInv, WorkTyped, NEW p \in Paths, LastIsThere(p), run.pc # "parked"
    PROVE  \/ Safe(p) \/ InFolder("out", p)
           \/ Tools!Swept["over"] # None /\ Tools!Swept["over"][p] # None /\ data[Tools!Swept["over"][p]] = latest[p]
<1>1. /\ "over" \in Tools!Folders /\ folder["over"] \in Tools!Files \cup {None} /\ farm \in Tools!Files
      /\ Tools!Swept["over"] = Tools!Moved(Tools!Present(folder["over"]), Tools!Output)
  BY DEF Tools!Folders, Tools!Swept, ToolsInv, ToolsTyped
<1>2. Tools!Swept["over"] # None
  BY <1>1, MovedFrom, TreesAreThere
<1>3. Tools!Swept["over"][p] = IF p \in Tools!Output THEN farm[p] ELSE Tools!Present(folder["over"])[p]
  BY <1>1 DEF Tools!Moved
<1>4. InFarm(p) /\ p \in Tools!Output => Tools!Swept["over"][p] # None /\ data[Tools!Swept["over"][p]] = latest[p]
  BY <1>3 DEF InFarm, Has
<1>5. InFolder("over", p) /\ p \notin Tools!Output =>
        Tools!Swept["over"][p] # None /\ data[Tools!Swept["over"][p]] = latest[p]
  BY <1>3 DEF InFolder, Has, Behind, Tools!Present
<1>6. ~mounted => p \notin Tools!Output
  BY DEF WorkTyped, Tools!Output, Tools!NoFile
<1>7. QED BY <1>2, <1>4, <1>5, <1>6 DEF LastIsThere

LEMMA MountWork == ASSUME Tools!PathsAssumption, WorkInv, Tools!Mount PROVE WorkParts'
<1>1. /\ run.pc = "idle" /\ run' = run /\ ~mounted /\ mounted' = TRUE /\ dirty' = FALSE
      /\ farm' = Tools!Built(folder) /\ owned' = Tools!Built(folder)
      /\ UNCHANGED <<folder, data, left, scratch, latest, overtaken, runs>>
  BY DEF Tools!Mount, Tools!ToolBusy, Tools!Deployed, Tools!import, Tools!ghosts
<1>2. scratch = None
  BY <1>1 DEF WorkInv, Progress, ScratchIsLatest, OfImport
<1>3. WorkTyped'
  BY <1>1 DEF WorkInv, WorkTyped
<1>4. Progress'
  BY <1>1, <1>2, IdleProgress
<1>5. WorkIsThere'
  <2> SUFFICES ASSUME NEW p \in Paths, p \notin overtaken, latest[p] # None
               PROVE  LastIsThere(p)'
    BY <1>1 DEF WorkIsThere
  <2>1. Safe(p) \/ InFolder("out", p) \/ InFolder("over", p)
    BY <1>1 DEF WorkInv, WorkIsThere, LastIsThere
  <2>2. \A f \in Tools!Folders : Behind(f) = folder[f] /\ Behind(f)' = folder[f]
    BY <1>1 DEF Behind
  <2>3. \A f \in Tools!Folders : InFolder(f, p) => InFolder(f, p)'
    BY <1>1, <2>2 DEF InFolder, Has
  <2>4. Safe(p) => Safe(p)'
    BY <1>1, <2>3 DEF Safe, Tools!Folders
  <2>5. InFolder("over", p) => /\ folder["over"] # None /\ folder["over"][p] # None
                               /\ data'[folder["over"][p]] = latest'[p]
    BY <1>1, <2>2 DEF InFolder, Has, Tools!Folders
  <2>6. folder \in [Tools!Folders -> Tools!Files \cup {None}]
    BY DEF WorkInv, ToolsInv, ToolsTyped
  <2>7. QED BY <1>1, <2>1, <2>3, <2>4, <2>5, <2>6, DeployedIsThere DEF Tools!Folders
<1>6. QED BY <1>3, <1>4, <1>5 DEF WorkParts

LEMMA DroppedWork == ASSUME Tools!PathsAssumption, WorkInv, ToolsInv', Tools!Unmount \/ Tools!Restart PROVE WorkParts'
<1>1. /\ run.pc = "idle" /\ run' = run /\ mounted' = FALSE /\ dirty' = FALSE
      /\ farm' = Tools!NoFile /\ folder' = Tools!Swept /\ Tools!Tidied
      /\ UNCHANGED <<left, scratch, latest, overtaken, runs>>
  BY DEF Tools!Unmount, Tools!Restart, Tools!ToolBusy, Tools!Dropped, Tools!import, Tools!ghosts,
     WorkInv, ToolsInv, PolicyHolds
<1>2. scratch = None
  BY <1>1 DEF WorkInv, Progress, ScratchIsLatest, OfImport
<1>3. /\ data' \in [Inodes -> Nat]
      /\ \A f \in Tools!Folders : folder'[f] # None =>
           \A p \in Paths : folder'[f][p] # None => data'[folder'[f][p]] = data[folder'[f][p]]
  BY <1>1, TidiedKeeps DEF WorkInv, WorkTyped
<1>4. WorkTyped'
  BY <1>1, <1>3 DEF WorkInv, WorkTyped
<1>5. Progress'
  BY <1>1, <1>2, IdleProgress
<1>6. WorkIsThere'
  <2> SUFFICES ASSUME NEW p \in Paths, p \notin overtaken, latest[p] # None
               PROVE  LastIsThere(p)'
    BY <1>1 DEF WorkIsThere
  <2>1. \/ Safe(p) \/ InFolder("out", p)
        \/ Tools!Swept["over"] # None /\ Tools!Swept["over"][p] # None /\ data[Tools!Swept["over"][p]] = latest[p]
    BY <1>1, SweptHas DEF WorkInv, WorkIsThere
  <2>2. \A f \in Tools!Folders : Behind(f) = folder[f] /\ Behind(f)' = folder'[f]
    BY <1>1 DEF Behind
  <2>3. \A f \in Tools!Folders : f # "over" => folder'[f] = folder[f]
    BY <1>1, SweptFrom DEF WorkInv, ToolsInv
  <2>4. \A f \in Tools!Folders : f # "over" /\ InFolder(f, p) => InFolder(f, p)'
    BY <1>1, <1>3, <2>2, <2>3 DEF InFolder, Has
  <2>5. Safe(p) => Safe(p)'
    BY <1>1, <2>4 DEF Safe, Tools!Folders
  <2>6. Tools!Swept["over"] # None /\ Tools!Swept["over"][p] # None /\ data[Tools!Swept["over"][p]] = latest[p]
          => InFolder("over", p)'
    BY <1>1, <1>3, <2>2 DEF InFolder, Has, Tools!Folders
  <2>7. QED BY <1>1, <2>1, <2>4, <2>5, <2>6 DEF LastIsThere, Tools!Folders
<1>7. QED BY <1>4, <1>5, <1>6 DEF WorkParts

LEMMA PrepareWork == ASSUME Tools!PathsAssumption, WorkInv, ToolsInv', Tools!Prepare PROVE WorkParts'
<1>1. /\ run.pc = "admitted" /\ run' = Tools!At("prepared") /\ Tools!Tidied
      /\ UNCHANGED <<left, scratch, latest, overtaken, runs>>
  BY DEF Tools!Prepare, Tools!Busy, Tools!import, Tools!NoFaultNoHistory, Tools!ghosts
<1>2. GoesOn("prepared") /\ run'.kept = run.kept
  BY <1>1, RunGoesOn DEF WorkInv, ToolsInv, ToolsTyped
<1>3. PICK dirs \in {folder, Tools!Swept} :
        /\ folder' = Tools!WithFolder(dirs)
        /\ \/ /\ farm' = Tools!Built(dirs) /\ owned' = Tools!Built(dirs) /\ mounted' = TRUE /\ dirty' = FALSE
              /\ dirs = Tools!Swept \/ (~mounted /\ dirs = folder)
           \/ /\ dirs = folder /\ UNCHANGED <<mounted, dirty, farm, owned>>
              /\ run.needs /\ mounted => ~dirty
  BY DEF Tools!Prepare, Tools!Deployed
<1>4. scratch = None
  BY <1>1 DEF WorkInv, Progress, ScratchIsLatest, OfImport
<1>5. /\ data' \in [Inodes -> Nat]
      /\ \A f \in Tools!Folders : folder'[f] # None =>
           \A p \in Paths : folder'[f][p] # None => data'[folder'[f][p]] = data[folder'[f][p]]
      /\ \A p \in Paths : farm'[p] # None => data'[farm'[p]] = data[farm'[p]]
  BY <1>1, TidiedKeeps DEF WorkInv, WorkTyped
<1>6. WorkTyped'
  BY <1>1, <1>2, <1>3, <1>5 DEF WorkInv, WorkTyped, GoesOn
<1>7. Progress'
  BY <1>1, <1>2, <1>4
    DEF Progress, InputThere, ScratchIsLatest, StageIsMerge, ImportedOrNot, GoesOn, OfImport
<1>8. /\ dirs \in [Tools!Folders -> Tools!Files \cup {None}] /\ dirs["src"] = folder["src"]
      /\ dirs["out"] = folder["out"]
  BY SweptFrom DEF WorkInv, ToolsInv, ToolsTyped, Tools!Folders
<1>9. WorkIsThere'
  <2> SUFFICES ASSUME NEW p \in Paths, p \notin overtaken, latest[p] # None
               PROVE  LastIsThere(p)'
    BY <1>1 DEF WorkIsThere
  <2>1. LastIsThere(p)
    BY DEF WorkInv, WorkIsThere
  <2>2. \A f \in Tools!Folders : Behind(f) = folder[f] /\ Behind(f)' = folder'[f]
    BY <1>1, <1>2 DEF Behind, GoesOn
  <2>3. /\ folder'["src"] = folder["src"] /\ folder'["over"] = dirs["over"]
        /\ folder["out"] # None => folder'["out"] = folder["out"]
    BY <1>3, <1>8, WithFolderFrom DEF Tools!WithFolder, Tools!Folders
  <2>4. \A f \in {"src", "out"} : InFolder(f, p) => InFolder(f, p)'
    BY <1>1, <1>5, <2>2, <2>3 DEF InFolder, Has, Tools!Folders
  <2>5. Safe(p) => Safe(p)'
    BY <1>1, <2>4 DEF Safe
  <2>6. dirs["over"] # None /\ dirs["over"][p] # None /\ data[dirs["over"][p]] = latest[p]
          => InFolder("over", p)' /\ data'[dirs["over"][p]] = latest'[p]
    BY <1>1, <1>5, <2>2, <2>3 DEF InFolder, Has, Tools!Folders
  <2>7. InFolder("over", p) =>
          folder["over"] # None /\ folder["over"][p] # None /\ data[folder["over"][p]] = latest[p]
    BY <2>2 DEF InFolder, Has, Tools!Folders
  <2>8. CASE /\ farm' = Tools!Built(dirs) /\ owned' = Tools!Built(dirs) /\ mounted' = TRUE
             /\ dirs = Tools!Swept \/ (~mounted /\ dirs = folder)
    <3>1. \/ Safe(p) \/ InFolder("out", p)
          \/ dirs["over"] # None /\ dirs["over"][p] # None /\ data[dirs["over"][p]] = latest[p]
      <4>1. CASE dirs = Tools!Swept
        BY <4>1, <1>1, <2>1, SweptHas DEF WorkInv
      <4>2. CASE ~mounted /\ dirs = folder
        BY <4>2, <2>1, <2>7 DEF LastIsThere
      <4>3. QED BY <2>8, <4>1, <4>2
    <3>2. QED BY <1>8, <2>4, <2>5, <2>6, <2>8, <3>1, DeployedIsThere
  <2>9. CASE dirs = folder /\ UNCHANGED <<mounted, dirty, farm, owned>>
    <3>1. InFolder("over", p) => InFolder("over", p)'
      BY <2>6, <2>7, <2>9
    <3>2. InFarm(p) => InFarm(p)'
      BY <1>1, <1>5, <2>9, TreesAreThere DEF InFarm, Has
    <3>3. QED BY <2>1, <2>4, <2>5, <2>9, <3>1, <3>2, StillThere
  <2>10. QED BY <1>3, <2>8, <2>9
<1>10. QED BY <1>6, <1>7, <1>9 DEF WorkParts

(***************************************************************************)
(* The capture and a kill.                                                 *)
(***************************************************************************)
LEMMA CaptureWork == ASSUME Tools!PathsAssumption, WorkInv, Tools!Capture PROVE WorkParts'
<1>1. /\ run.pc = "capture" /\ run' = Tools!NoRun /\ Tools!WantsCapture /\ mounted
      /\ UNCHANGED <<mounted, dirty, farm, data, left, scratch, latest, overtaken, runs>>
  BY DEF Tools!Capture, Tools!Busy, Tools!Untracked, Tools!import, Tools!ghosts, Tools!WantsCapture
<1>2. ~dirty
  BY <1>1 DEF Tools!WantsCapture, WorkInv, WorkTyped
<1>3. scratch = None
  BY <1>1 DEF WorkInv, Progress, ScratchIsLatest, OfImport
<1>4. run'.pc = "idle" /\ run'.kept = FALSE
  BY <1>1, NoRunIs
<1>5. WorkTyped'
  BY <1>1, <1>4 DEF WorkInv, WorkTyped
<1>6. Progress'
  BY <1>1, <1>3, <1>4, IdleProgress
<1>7. PICK done \in SUBSET Tools!Output :
        /\ folder' = [folder EXCEPT ![run.target] = Tools!Moved(Tools!Present(@), done)]
        /\ \/ done = Tools!Output /\ owned' = [p \in Paths |-> IF p \in Tools!Output THEN farm[p] ELSE owned[p]]
           \/ owned' = owned
  BY DEF Tools!Capture, Tools!Before
<1>8. run.target \in {"out", "over"} /\ folder[run.target] \in Tools!Files \cup {None} /\ farm \in Tools!Files
  BY TargetIsFolder DEF WorkInv, ToolsInv, ToolsTyped, IsRun
<1>9. /\ folder'[run.target] = Tools!Moved(Tools!Present(folder[run.target]), done)
      /\ folder'[run.target] # None
      /\ \A f \in Tools!Folders : f # run.target => folder'[f] = folder[f]
  BY <1>7, <1>8, TargetIsFolder, MovedFrom, TreesAreThere DEF WorkInv, ToolsInv, ToolsTyped
<1>10. WorkIsThere'
  <2> SUFFICES ASSUME NEW p \in Paths, p \notin overtaken, latest[p] # None
               PROVE  LastIsThere(p)'
    BY <1>1 DEF WorkIsThere
  <2>1. LastIsThere(p)
    BY DEF WorkInv, WorkIsThere
  <2>2. \A f \in Tools!Folders : Behind(f) = folder[f] /\ Behind(f)' = folder'[f]
    BY <1>1, <1>4 DEF Behind
  <2>3. \A f \in Tools!Folders : f # run.target /\ InFolder(f, p) => InFolder(f, p)'
    BY <1>1, <1>9, <2>2 DEF InFolder, Has
  <2>4. Safe(p) => Safe(p)'
    BY <1>1, <1>8, <2>3 DEF Safe, Tools!Folders
  <2>5. InFarm(p) => InFarm(p)'
    BY <1>1 DEF InFarm, Has
  <2>6. folder'[run.target][p] = IF p \in done THEN farm[p] ELSE Tools!Present(folder[run.target])[p]
    BY <1>9 DEF Tools!Moved
  <2>7. CASE p \notin Tools!Output
    <3>1. \A f \in Tools!Folders : InFolder(f, p) => InFolder(f, p)'
      BY <1>1, <1>9, <2>2, <2>6, <2>7 DEF InFolder, Has, Tools!Present
    <3>2. owned'[p] = owned[p]
      BY <1>7, <2>7
    <3>3. QED BY <1>1, <2>1, <2>4, <2>5, <3>1, <3>2, StillThere DEF Tools!Folders
  <2>8. CASE p \in Tools!Output
    <3>1. Safe(p) \/ InFarm(p)
      BY <1>1, <1>2, <2>1, <2>8 DEF LastIsThere
    <3>2. CASE owned' = owned
      <4>1. p \in Tools!Output'
        BY <1>1, <2>8, <3>2 DEF Tools!Output
      <4>2. QED BY <1>1, <2>4, <2>5, <3>1, <4>1 DEF LastIsThere
    <3>3. CASE done = Tools!Output /\ owned' = [q \in Paths |-> IF q \in Tools!Output THEN farm[q] ELSE owned[q]]
      <4>1. p \notin Tools!Output'
        BY <1>1, <2>8, <3>3 DEF Tools!Output
      <4>2. \A f \in Tools!Folders : f = run.target /\ InFarm(p) => InFolder(f, p)'
        BY <1>1, <1>8, <1>9, <2>2, <2>6, <2>8, <3>3 DEF InFarm, InFolder, Has, Tools!Folders
      <4>3. QED BY <1>1, <1>8, <2>4, <2>5, <3>1, <4>1, <4>2 DEF LastIsThere, Tools!Folders
    <3>4. QED BY <1>7, <3>2, <3>3
  <2>9. QED BY <2>7, <2>8
<1>11. QED BY <1>5, <1>6, <1>10 DEF WorkParts

LEMMA KillWork == ASSUME Tools!PathsAssumption, WorkInv, Tools!Kill PROVE WorkParts'
<1>1. /\ run' = Tools!NoRun /\ scratch' = None
      /\ left' = left \cup Tools!Remains(scratch) \cup Tools!Remains(stage) \cup Tools!Remains(Tools!CopyOf(parked))
      /\ UNCHANGED <<mounted, dirty, farm, owned, data, folder, latest, overtaken, runs>>
  BY DEF Tools!Kill, Tools!ghosts
<1>2. run'.pc = "idle" /\ run'.kept = FALSE
  BY <1>1, NoRunIs
<1>3. WorkTyped'
  BY <1>1, <1>2 DEF WorkInv, WorkTyped
<1>4. Progress'
  BY <1>1, <1>2, IdleProgress
<1>5. WorkIsThere'
  <2> SUFFICES ASSUME NEW p \in Paths, p \notin overtaken, latest[p] # None
               PROVE  LastIsThere(p)'
    BY <1>1 DEF WorkIsThere
  <2>1. LastIsThere(p)
    BY DEF WorkInv, WorkIsThere
  <2>2. \A f \in Tools!Folders : Behind(f)' = folder[f]
    BY <1>1, <1>2 DEF Behind
  <2>3. ASSUME NEW f \in Tools!Folders, InFolder(f, p)
        PROVE  InFolder(f, p)' \/ (f # "src" /\ Safe(p)')
    <3>1. CASE Behind(f) = folder[f]
      BY <1>1, <2>2, <2>3, <3>1 DEF InFolder, Has
    <3>2. CASE Behind(f) # folder[f]
      <4>1. Behind(f) = parked /\ f = run.target /\ parked # None
        BY <3>2, <2>3 DEF Behind, InFolder, Has
      <4>2. f # "src" /\ parked \in Tools!Files
        BY <4>1, TargetIsFolder DEF WorkInv, ToolsInv, ToolsTyped
      <4>3. Tools!CopyOf(parked) # None /\ Tools!CopyOf(parked)[p] = latest[p]
        BY <2>3, <4>1, <4>2, CopyTyped DEF InFolder, Has, WorkInv, WorkTyped
      <4>4. <<p, latest[p]>> \in left'
        BY <1>1, <4>3 DEF Tools!Remains
      <4>5. QED BY <1>1, <4>2, <4>4 DEF Safe
    <3>3. QED BY <3>1, <3>2
  <2>4. Safe(p) => Safe(p)'
    <3>1. scratch # None /\ scratch[p] = latest[p] => <<p, latest[p]>> \in left'
      BY <1>1 DEF Tools!Remains
    <3>2. InFolder("src", p) => InFolder("src", p)'
      BY <2>3 DEF Tools!Folders
    <3>3. QED BY <1>1, <3>1, <3>2 DEF Safe
  <2>5. InFarm(p) => InFarm(p)'
    BY <1>1 DEF InFarm, Has
  <2>6. QED BY <1>1, <2>1, <2>3, <2>4, <2>5, StillThere DEF Tools!Folders
<1>6. QED BY <1>3, <1>4, <1>5 DEF WorkParts

(***************************************************************************)
(* The steps that write.                                                   *)
(***************************************************************************)
\* What a step writes to a new inode changes no tree.
LEMMA NewIsElsewhere ==
    ASSUME Tools!PathsAssumption, ToolsInv, NEW i \in Inodes \ Tools!Used, run.pc \notin {"parked", "installed"}
    PROVE  /\ \A a \in Trees : \A q \in Paths : a[q] # i
           /\ \A f \in Tools!Folders : folder[f] # None => \A q \in Paths : folder[f][q] # i
           /\ \A q \in Paths : farm[q] # i /\ owned[q] # i
           /\ \A f \in Tools!Folders : Behind(f) = folder[f]
<1>1. parked = None /\ Tools!Linked(parked) = {}
  BY DEF ToolsInv, Importing, Tools!Linked
<1>2. \A a \in Trees : \A q \in Paths : a[q] # i
  BY <1>1, FreeIsNew DEF ToolsInv
<1>3. QED BY <1>2, InTrees DEF ToolsInv, Behind

LEMMA PrepareLayerWork == ASSUME Tools!PathsAssumption, WorkInv, Tools!PrepareLayer PROVE WorkParts'
<1>1. /\ run.pc = "prepared" /\ mounted
      /\ UNCHANGED <<mounted, dirty, owned, folder, left, scratch, latest, overtaken, runs>>
  BY DEF Tools!PrepareLayer, Tools!Busy, Tools!import, Tools!WantsLayer, Tools!NoFaultNoHistory,
     Tools!Refused, Tools!ghosts
<1>2. PICK done \in SUBSET Tools!Supplied :
        /\ \E copies \in [done -> Inodes \ Tools!Used] : Tools!Privately(done, copies)
        /\ run' = Tools!At("ready") \/ run' = Tools!NoRun
  BY DEF Tools!PrepareLayer, Tools!Refused
<1>3. PICK copies \in [done -> Inodes \ Tools!Used] : Tools!Privately(done, copies)
  BY <1>2
<1>4. done \subseteq Paths /\ \A p, q \in done : copies[p] = copies[q] => p = q
  BY <1>3, LowestDiffer DEF Tools!Supplied, Tools!Privately
<1>5. /\ farm' = [p \in Paths |-> IF p \in done THEN copies[p] ELSE farm[p]]
      /\ data' = [i \in Inodes |-> IF \E p \in done : copies[p] = i
                                   THEN data[farm[CHOOSE p \in done : copies[p] = i]] ELSE data[i]]
  BY <1>3 DEF Tools!Privately
<1>6. scratch = None
  BY <1>1 DEF WorkInv, Progress, ScratchIsLatest, OfImport
<1>7. farm \in Tools!Files /\ data \in [Inodes -> Nat] /\ \A p \in done : farm[p] = folder["out"][p] /\ farm[p] # None
  BY DEF Tools!Supplied, WorkInv, ToolsInv, ToolsTyped, WorkTyped
<1>8. \A p \in done : data'[copies[p]] = data[farm[p]]
  <2>1. ASSUME NEW p \in done PROVE data'[copies[p]] = data[farm[p]]
    <3>1. (CHOOSE q \in done : copies[q] = copies[p]) = p
      BY <1>4
    <3>2. copies[p] \in Inodes /\ \E q \in done : copies[q] = copies[p]
      BY <1>3
    <3>3. data'[copies[p]] = data[farm[CHOOSE q \in done : copies[q] = copies[p]]]
      BY <1>5, <3>2
    <3>4. QED BY <3>1, <3>3
  <2>2. QED BY <2>1
<1>9. \A i \in Inodes : (\A p \in done : copies[p] # i) => data'[i] = data[i]
  BY <1>5
<1>10. data' \in [Inodes -> Nat]
  <2>1. ASSUME NEW i \in Inodes PROVE data'[i] \in Nat
    <3>1. CASE \E p \in done : copies[p] = i
      <4>1. PICK p \in done : copies[p] = i
        BY <3>1
      <4>2. farm[p] \in Inodes
        BY <1>4, <1>7 DEF Tools!Files
      <4>3. QED BY <1>7, <1>8, <4>1, <4>2
    <3>2. CASE \A p \in done : copies[p] # i
      BY <1>7, <1>9, <3>2
    <3>3. QED BY <3>1, <3>2
  <2>2. QED BY <1>5, <2>1
<1>11. /\ run' = Tools!At("ready") => GoesOn("ready") /\ run'.kept = run.kept
       /\ run' = Tools!NoRun => run'.pc = "idle" /\ run'.kept = FALSE
  BY RunGoesOn, NoRunIs DEF WorkInv, ToolsInv, ToolsTyped
<1>12. WorkTyped'
  BY <1>1, <1>2, <1>10, <1>11 DEF WorkInv, WorkTyped, GoesOn
<1>13. Progress'
  <2>1. CASE run' = Tools!NoRun
    BY <1>1, <1>6, <1>11, <2>1, IdleProgress
  <2>2. CASE run' = Tools!At("ready")
    BY <1>1, <1>6, <1>11, <2>2
      DEF Progress, InputThere, ScratchIsLatest, StageIsMerge, ImportedOrNot, GoesOn, OfImport
  <2>3. QED BY <1>2, <2>1, <2>2
<1>14. \A a \in Trees : \A p \in Paths : a[p] # None => a[p] \in Inodes /\ data'[a[p]] = data[a[p]]
  <2>1. ASSUME NEW a \in Trees, NEW p \in Paths, a[p] # None
        PROVE  a[p] \in Inodes /\ \A q \in done : copies[q] # a[p]
    <3>1. a[p] \in Inodes
      BY <2>1, InTrees DEF WorkInv, ToolsInv, Tools!Files
    <3>2. \A q \in done : copies[q] # a[p]
      BY <1>1, <1>3, NewIsElsewhere DEF WorkInv
    <3>3. QED BY <3>1, <3>2
  <2>2. QED BY <1>9, <2>1
<1>15. WorkIsThere'
  <2> SUFFICES ASSUME NEW p \in Paths, p \notin overtaken, latest[p] # None
               PROVE  LastIsThere(p)'
    BY <1>1 DEF WorkIsThere
  <2>1. LastIsThere(p)
    BY DEF WorkInv, WorkIsThere
  <2>2. DataStays(p)
    BY <1>1, <1>14 DEF DataStays
  <2>3. \A f \in Tools!Folders : Behind(f)' = Behind(f)
    BY <1>1, <1>2, <1>11 DEF Behind, GoesOn
  <2>4. \A f \in Tools!Folders : InFolder(f, p) => InFolder(f, p)'
    BY <2>2, <2>3, FolderStays DEF WorkInv
  <2>5. Safe(p) => Safe(p)'
    BY <1>1, <2>4 DEF Safe, Tools!Folders
  <2>6. CASE p \notin done
    <3>1. farm'[p] = farm[p] /\ owned'[p] = owned[p]
      BY <1>1, <1>5, <2>6
    <3>2. InFarm(p) => InFarm(p)'
      <4>1. farm' \in Tools!Files
        BY <1>3, <1>5, <1>7 DEF Tools!Files
      <4>2. QED BY <2>2, <3>1, <4>1, FarmStays DEF WorkInv
    <3>3. QED BY <1>1, <2>1, <2>4, <2>5, <3>1, <3>2, StillThere DEF Tools!Folders
  <2>7. CASE p \in done
    <3>1. farm'[p] = copies[p] /\ copies[p] \in Inodes \ Tools!Used /\ copies[p] # None /\ farm' # None
      <4>1. farm' \in Tools!Files
        BY <1>3, <1>5, <1>7 DEF Tools!Files
      <4>2. QED BY <1>3, <1>5, <2>7, <4>1, TreesAreThere DEF Tools!PathsAssumption
    <3>2. p \in Tools!Output'
      BY <1>1, <3>1, NewIsElsewhere DEF Tools!Output, WorkInv
    <3>3. data[farm[p]] = latest[p] => InFarm(p)'
      BY <1>1, <1>8, <2>7, <3>1 DEF InFarm, Has
    <3>4. \/ Safe(p) \/ (InFolder("out", p) /\ dirty) \/ data[farm[p]] = latest[p]
      <4>1. Behind("out") = folder["out"]
        BY <1>1 DEF Behind
      <4>2. InFolder("out", p) => data[farm[p]] = latest[p]
        BY <1>7, <2>7, <4>1 DEF InFolder, Has
      <4>3. InFarm(p) => data[farm[p]] = latest[p]
        BY DEF InFarm, Has
      <4>4. QED BY <1>1, <1>7, <2>1, <2>7, <4>2, <4>3 DEF LastIsThere
    <3>5. QED BY <1>1, <2>4, <2>5, <3>2, <3>3, <3>4 DEF LastIsThere, Tools!Folders
  <2>8. QED BY <2>6, <2>7
<1>16. QED BY <1>12, <1>13, <1>15 DEF WorkParts

LEMMA CopyUpWork == ASSUME Tools!PathsAssumption, WorkInv, Tools!CopyUp PROVE WorkParts'
<1>1. /\ run.pc = "prepared" /\ mounted /\ farm[run.sel] # None /\ run' = Tools!At("copied")
      /\ folder' = [folder EXCEPT ![run.target] = Tools!Selected(Tools!Present(@))]
      /\ data' = [data EXCEPT ![Tools!Fresh] = data[farm[run.sel]]]
      /\ overtaken' = IF latest[run.sel] \notin {None, data[farm[run.sel]]}
                      THEN overtaken \cup {run.sel} ELSE overtaken
      /\ UNCHANGED <<mounted, dirty, farm, owned, left, scratch, latest, runs>>
  BY DEF Tools!CopyUp, Tools!Busy, Tools!import, Tools!WantsCopy, Tools!CopiesOlder
<1>2. GoesOn("copied") /\ run'.kept = run.kept
  BY <1>1, RunGoesOn DEF WorkInv, ToolsInv, ToolsTyped
<1>3. scratch = None
  BY <1>1 DEF WorkInv, Progress, ScratchIsLatest, OfImport
<1>4. Tools!Fresh \in Inodes \ Tools!Used
  BY FreshIsFree DEF Tools!CopyUp
<1>5. /\ run.sel \in Paths /\ run.target \in {"out", "over"} /\ folder[run.target] \in Tools!Files \cup {None}
      /\ farm \in Tools!Files /\ data \in [Inodes -> Nat]
  BY TargetIsFolder DEF Tools!CopyUp, Tools!WantsCopy, WorkInv, WorkTyped, ToolsInv, PolicyHolds,
     ToolsTyped, IsRun
<1>6. farm[run.sel] \in Inodes
  BY <1>1, <1>5 DEF Tools!Files
<1>7. data' \in [Inodes -> Nat] /\ data'[Tools!Fresh] = data[farm[run.sel]]
      /\ \A i \in Inodes : i # Tools!Fresh => data'[i] = data[i]
  BY <1>1, <1>4, <1>5, <1>6
<1>8. \A a \in Trees : \A p \in Paths : a[p] # None => a[p] \in Inodes /\ a[p] # Tools!Fresh /\ data'[a[p]] = data[a[p]]
  <2>1. \A a \in Trees : \A p \in Paths : a[p] # None => a[p] \in Inodes
    BY InTrees DEF WorkInv, ToolsInv, Tools!Files
  <2>2. QED BY <1>1, <1>4, <1>7, <2>1, NewIsElsewhere DEF WorkInv
<1>9. /\ folder'[run.target] = Tools!Selected(Tools!Present(folder[run.target]))
      /\ \A f \in Tools!Folders : f # run.target => folder'[f] = folder[f]
  BY <1>1, TargetIsFolder DEF WorkInv, ToolsInv, ToolsTyped
<1>10. /\ Tools!Present(folder[run.target]) \in Tools!Files
       /\ folder[run.target] # None => Tools!Present(folder[run.target]) = folder[run.target]
  BY <1>5, TreesAreThere DEF Tools!Present
<1>11. /\ folder'[run.target] \in Tools!Files /\ folder'[run.target][run.sel] = Tools!Fresh
       /\ \A p \in Paths : p # run.sel => folder'[run.target][p] = Tools!Present(folder[run.target])[p]
  BY <1>4, <1>5, <1>9, <1>10 DEF Tools!Selected, Tools!Files
<1>12. WorkTyped'
  BY <1>1, <1>2, <1>7 DEF WorkInv, WorkTyped, GoesOn
<1>13. run.sel \notin overtaken' /\ latest[run.sel] # None =>
         /\ data[farm[run.sel]] = latest[run.sel]
         /\ Has(folder[run.target], run.sel)' /\ InFarm(run.sel)'
  <2>1. run.sel \notin overtaken' /\ latest[run.sel] # None => data[farm[run.sel]] = latest[run.sel]
    BY <1>1
  <2>2. Tools!Fresh # None /\ folder'[run.target] # None /\ farm # None
    BY <1>4, <1>5, <1>11, TreesAreThere DEF Tools!PathsAssumption
  <2>3. data'[farm[run.sel]] = data[farm[run.sel]]
    BY <1>1, <1>5, <1>8, InTrees DEF WorkInv, ToolsInv
  <2>4. run'.target = run.target /\ run'.sel = run.sel
    BY <1>2 DEF GoesOn
  <2>5. QED BY <1>1, <1>7, <1>11, <2>1, <2>2, <2>3, <2>4 DEF Has, InFarm
<1>14. Progress'
  <2>1. InputThere'
    BY <1>1, <1>2, <1>13 DEF InputThere, GoesOn
  <2>2. ScratchIsLatest' /\ StageIsMerge' /\ ImportedOrNot'
    BY <1>1, <1>2, <1>3 DEF ScratchIsLatest, StageIsMerge, ImportedOrNot, GoesOn, OfImport
  <2>3. QED BY <2>1, <2>2 DEF Progress
<1>15. WorkIsThere'
  <2> SUFFICES ASSUME NEW p \in Paths, p \notin overtaken', latest[p] # None
               PROVE  LastIsThere(p)'
    BY <1>1 DEF WorkIsThere
  <2>1. p \notin overtaken /\ LastIsThere(p)
    BY <1>1 DEF WorkInv, WorkIsThere
  <2>2. DataStays(p)
    BY <1>1, <1>8 DEF DataStays
  <2>3. \A f \in Tools!Folders : Behind(f) = folder[f] /\ Behind(f)' = folder'[f]
    BY <1>1, <1>2 DEF Behind, GoesOn
  <2>4. \A f \in Tools!Folders : f # run.target => (InFolder(f, p) => InFolder(f, p)')
    BY <1>9, <2>2, <2>3, FolderStays DEF WorkInv
  <2>5. Safe(p) => Safe(p)'
    BY <1>1, <1>5, <2>4 DEF Safe, Tools!Folders
  <2>6. InFarm(p) => InFarm(p)'
    BY <1>1, <1>5, <2>2, FarmStays DEF WorkInv
  <2>7. CASE p # run.sel
    <3>1. \A f \in Tools!Folders : f = run.target => (InFolder(f, p) => InFolder(f, p)')
      <4>1. ASSUME folder[run.target] # None
            PROVE  folder'[run.target] # None /\ folder'[run.target][p] = folder[run.target][p]
        BY <1>10, <1>11, <2>7, <4>1, TreesAreThere
      <4>2. QED BY <2>2, <2>3, <4>1, FolderStays DEF WorkInv
    <3>2. QED BY <1>1, <2>1, <2>4, <2>5, <2>6, <3>1, StillThere DEF Tools!Folders
  <2>8. CASE p = run.sel
    <3>1. InFarm(p)' /\ Has(folder[run.target], run.sel)'
      BY <1>2, <1>13, <2>8 DEF InFarm, GoesOn
    <3>2. \A f \in Tools!Folders : f = run.target => InFolder(f, p)'
      BY <1>2, <2>3, <2>8, <3>1 DEF InFolder, Has, GoesOn
    <3>3. QED BY <1>5, <3>1, <3>2, <1>1 DEF LastIsThere, Tools!Folders
  <2>9. QED BY <2>7, <2>8
<1>16. QED BY <1>12, <1>14, <1>15 DEF WorkParts

\* The farm's name of the selected input is replaced.
LEMMA CopyUpRelinks ==
    ASSUME Tools!PathsAssumption, WorkInv, Tools!CopyUpUnlink \/ Tools!CopyUpLink
    PROVE  WorkParts'
<1>1. /\ run.pc \in {"copied", "unlinked"}
      /\ UNCHANGED <<mounted, dirty, owned, folder, data, left, scratch, latest, overtaken, runs>>
  BY DEF Tools!CopyUpUnlink, Tools!CopyUpLink, Tools!Busy, Tools!import, Tools!NoFaultNoHistory,
     Tools!ghosts
<1>2. PICK pc \in {"unlinked", "ready"} : GoesOn(pc) /\ run'.kept = run.kept /\ (pc = "unlinked" <=> Tools!CopyUpUnlink)
  <2>1. CASE Tools!CopyUpUnlink
    BY <2>1, RunGoesOn DEF Tools!CopyUpUnlink, WorkInv, ToolsInv, ToolsTyped
  <2>2. CASE Tools!CopyUpLink
    <3>1. run.pc = "unlinked" /\ ~Tools!CopyUpUnlink
      BY <2>2 DEF Tools!CopyUpLink, Tools!CopyUpUnlink, Tools!Busy
    <3>2. QED BY <2>2, <3>1, RunGoesOn DEF Tools!CopyUpLink, WorkInv, ToolsInv, ToolsTyped
  <2>3. QED BY <2>1, <2>2
<1>3. scratch = None
  BY <1>1 DEF WorkInv, Progress, ScratchIsLatest, OfImport
<1>4. mounted /\ run.sel \in Paths /\ run.target \in {"out", "over"} /\ farm \in Tools!Files /\ folder[run.target] # None
  BY <1>1 DEF WorkInv, ToolsInv, InputCopied, PolicyHolds, ToolsTyped, IsRun
<1>5. farm' \in Tools!Files /\ \A p \in Paths : p # run.sel => farm'[p] = farm[p]
  BY <1>4, TargetIsFolder DEF Tools!CopyUpUnlink, Tools!CopyUpLink, Tools!Files, WorkInv
<1>6. WorkTyped'
  BY <1>1, <1>2, <1>4 DEF WorkInv, WorkTyped, GoesOn
<1>7. run.sel \notin overtaken /\ latest[run.sel] # None => Has(folder[run.target], run.sel)
  BY <1>1 DEF WorkInv, Progress, InputThere
<1>8. Has(folder[run.target], run.sel) => Has(folder[run.target], run.sel)'
  BY <1>1, <1>2 DEF Has, GoesOn
<1>9. Progress'
  <2>1. InputThere'
    BY <1>1, <1>2, <1>7, <1>8 DEF InputThere, GoesOn
  <2>2. ScratchIsLatest' /\ StageIsMerge' /\ ImportedOrNot'
    BY <1>1, <1>2, <1>3 DEF ScratchIsLatest, StageIsMerge, ImportedOrNot, GoesOn, OfImport
  <2>3. QED BY <2>1, <2>2 DEF Progress
<1>10. WorkIsThere'
  <2> SUFFICES ASSUME NEW p \in Paths, p \notin overtaken, latest[p] # None
               PROVE  LastIsThere(p)'
    BY <1>1 DEF WorkIsThere
  <2>1. LastIsThere(p)
    BY DEF WorkInv, WorkIsThere
  <2>2. \A f \in Tools!Folders : Behind(f) = folder[f] /\ Behind(f)' = folder[f]
    BY <1>1, <1>2 DEF Behind, GoesOn
  <2>3. \A f \in Tools!Folders : InFolder(f, p) => InFolder(f, p)'
    BY <1>1, <2>2 DEF InFolder, Has
  <2>4. Safe(p) => Safe(p)'
    BY <1>1, <2>3 DEF Safe, Tools!Folders
  <2>5. CASE p # run.sel
    <3>1. InFarm(p) => InFarm(p)'
      BY <1>1, <1>5, <2>5, TreesAreThere DEF InFarm, Has
    <3>2. farm'[p] = farm[p] /\ owned'[p] = owned[p]
      BY <1>1, <1>5, <2>5
    <3>3. QED BY <1>1, <2>1, <2>3, <2>4, <3>1, <3>2, StillThere DEF Tools!Folders
  <2>6. CASE p = run.sel
    <3>1. Has(folder[run.target], p)
      BY <1>7, <2>6
    <3>2. \A f \in Tools!Folders : f = run.target => InFolder(f, p)'
      BY <1>1, <2>2, <3>1 DEF InFolder, Has
    <3>3. farm'[p] = None \/ InFarm(p)'
      <4>1. farm' # None
        BY <1>5, TreesAreThere
      <4>2. farm'[p] = None \/ farm'[p] = folder[run.target][p]
        BY <1>4, <2>6 DEF Tools!CopyUpUnlink, Tools!CopyUpLink, Tools!Files
      <4>3. QED BY <1>1, <3>1, <4>1, <4>2 DEF InFarm, Has
    <3>4. QED BY <1>1, <1>4, <3>2, <3>3 DEF LastIsThere, Tools!Output, Tools!Folders
  <2>7. QED BY <2>5, <2>6
<1>11. QED BY <1>6, <1>9, <1>10 DEF WorkParts

LEMMA WriteInPlaceWork ==
    ASSUME Tools!PathsAssumption, WorkInv, NEW p \in Paths, Tools!WriteInPlace(p)
    PROVE  WorkParts'
<1>1. /\ run.pc = "running" /\ run' = run /\ run.policy # "scratch" /\ mounted /\ farm[p] # None
      /\ data' = [data EXCEPT ![farm[p]] = runs] /\ latest' = [latest EXCEPT ![p] = runs]
      /\ overtaken' = IF Tools!Orphaned(p) THEN overtaken \cup {p} ELSE overtaken
      /\ UNCHANGED <<mounted, dirty, farm, owned, folder, left, scratch, runs>>
  BY DEF Tools!WriteInPlace, Tools!Wrote, Tools!Busy, Tools!import, Tools!DataWritable
<1>2. scratch = None
  BY <1>1 DEF WorkInv, Progress, ScratchIsLatest
<1>3. /\ farm \in Tools!Files /\ farm[p] \in Inodes /\ data \in [Inodes -> Nat] /\ runs \in Nat
      /\ latest \in [Paths -> Nat \cup {None}] /\ runs # None
  BY <1>1 DEF Tools!PathsAssumption, WorkInv, WorkTyped, ToolsInv, ToolsTyped, Tools!Files
<1>4. /\ data' \in [Inodes -> Nat] /\ data'[farm[p]] = runs
      /\ \A i \in Inodes : i # farm[p] => data'[i] = data[i]
      /\ latest' \in [Paths -> Nat \cup {None}] /\ latest'[p] = runs
      /\ \A q \in Paths : q # p => latest'[q] = latest[q]
  BY <1>1, <1>3
<1>5. WorkTyped'
  BY <1>1, <1>4 DEF WorkInv, WorkTyped
<1>6. Progress'
  <2>1. InputThere' /\ StageIsMerge' /\ ImportedOrNot'
    BY <1>1 DEF InputThere, StageIsMerge, ImportedOrNot
  <2>2. ScratchIsLatest'
    BY <1>1, <1>2 DEF ScratchIsLatest
  <2>3. QED BY <2>1, <2>2 DEF Progress
<1>7. \A f \in Tools!Folders : Behind(f) = folder[f] /\ Behind(f)' = folder[f]
  BY <1>1 DEF Behind
<1>8. WorkIsThere'
  <2> SUFFICES ASSUME NEW q \in Paths, q \notin overtaken', latest'[q] # None
               PROVE  LastIsThere(q)'
    BY DEF WorkIsThere
  <2>1. CASE q # p
    <3>1. latest[q] # None /\ q \notin overtaken /\ LastIsThere(q)
      BY <1>1, <1>4, <2>1 DEF WorkInv, WorkIsThere
    <3>2. DataStays(q)
      <4>1. ASSUME NEW a \in Trees, a[q] # None PROVE a[q] \in Inodes /\ a[q] # farm[p]
        BY <2>1, <4>1, InTrees DEF WorkInv, ToolsInv, OnePath, Apart, Tools!Files
      <4>2. QED BY <1>4, <2>1, <4>1 DEF DataStays
    <3>3. \A f \in Tools!Folders : InFolder(f, q) => InFolder(f, q)'
      BY <1>7, <3>2, FolderStays DEF WorkInv
    <3>4. InFarm(q) => InFarm(q)'
      BY <1>1, <1>3, <3>2, FarmStays DEF WorkInv
    <3>5. Safe(q) => Safe(q)'
      BY <1>1, <1>4, <2>1, <3>3 DEF Safe, Tools!Folders
    <3>6. QED BY <1>1, <3>1, <3>3, <3>4, <3>5, StillThere DEF Tools!Folders
  <2>2. CASE q = p
    <3>1. InFarm(q)'
      BY <1>1, <1>3, <1>4, <2>2, TreesAreThere DEF InFarm, Has
    <3>2. CASE farm[p] # owned[p]
      <4>1. q \in Tools!Output'
        BY <1>1, <2>2, <3>2 DEF Tools!Output
      <4>2. QED BY <1>1, <3>1, <4>1 DEF LastIsThere
    <3>3. CASE farm[p] = owned[p]
      <4>1. PICK f \in Tools!Folders : farm[p] \in Tools!Linked(folder[f])
        BY <1>1, <2>2, <3>3 DEF Tools!Orphaned
      <4>2. PICK r \in Paths : folder[f] # None /\ farm[p] = folder[f][r]
        BY <4>1 DEF Tools!Linked
      <4>3. r = p
        BY <1>1, <4>2, InTrees DEF WorkInv, ToolsInv, OnePath, Apart
      <4>4. InFolder(f, q)'
        BY <1>1, <1>4, <1>7, <2>2, <4>2, <4>3 DEF InFolder, Has
      <4>5. QED BY <1>1, <3>1, <4>4, <3>3, <2>2 DEF LastIsThere, Safe, Tools!Folders, Tools!Output
    <3>4. QED BY <3>2, <3>3
  <2>3. QED BY <2>1, <2>2
<1>9. QED BY <1>5, <1>6, <1>8 DEF WorkParts

LEMMA WriteAnewWork ==
    ASSUME Tools!PathsAssumption, WorkInv, NEW p \in Paths, Tools!WriteAnew(p)
    PROVE  WorkParts'
<1>1. /\ run.pc = "running" /\ run' = run /\ run.policy # "scratch" /\ mounted
      /\ farm' = [farm EXCEPT ![p] = Tools!Fresh]
      /\ data' = [data EXCEPT ![Tools!Fresh] = runs] /\ latest' = [latest EXCEPT ![p] = runs]
      /\ UNCHANGED <<mounted, dirty, owned, folder, left, scratch, overtaken, runs>>
  BY DEF Tools!WriteAnew, Tools!Wrote, Tools!Busy, Tools!import, Tools!DataWritable
<1>2. scratch = None
  BY <1>1 DEF WorkInv, Progress, ScratchIsLatest
<1>3. /\ farm \in Tools!Files /\ Tools!Fresh \in Inodes \ Tools!Used /\ data \in [Inodes -> Nat] /\ runs \in Nat
      /\ latest \in [Paths -> Nat \cup {None}] /\ Tools!Fresh # None
  BY FreshIsFree DEF Tools!WriteAnew, Tools!PathsAssumption, WorkInv, WorkTyped, ToolsInv, ToolsTyped
<1>4. /\ data' \in [Inodes -> Nat] /\ data'[Tools!Fresh] = runs
      /\ \A i \in Inodes : i # Tools!Fresh => data'[i] = data[i]
      /\ latest' \in [Paths -> Nat \cup {None}] /\ latest'[p] = runs
      /\ \A q \in Paths : q # p => latest'[q] = latest[q]
  BY <1>1, <1>3
<1>5. farm' \in Tools!Files /\ farm'[p] = Tools!Fresh /\ \A q \in Paths : q # p => farm'[q] = farm[q]
  BY <1>1, <1>3 DEF Tools!Files
<1>6. WorkTyped'
  BY <1>1, <1>4 DEF WorkInv, WorkTyped
<1>7. Progress'
  <2>1. InputThere' /\ StageIsMerge' /\ ImportedOrNot'
    BY <1>1 DEF InputThere, StageIsMerge, ImportedOrNot
  <2>2. ScratchIsLatest'
    BY <1>1, <1>2 DEF ScratchIsLatest
  <2>3. QED BY <2>1, <2>2 DEF Progress
<1>8. /\ \A a \in Trees : \A q \in Paths : a[q] # Tools!Fresh
      /\ \A q \in Paths : owned[q] # Tools!Fresh
  BY <1>1, <1>3, NewIsElsewhere DEF WorkInv
<1>9. WorkIsThere'
  <2> SUFFICES ASSUME NEW q \in Paths, q \notin overtaken, latest'[q] # None
               PROVE  LastIsThere(q)'
    BY <1>1 DEF WorkIsThere
  <2>1. CASE q # p
    <3>1. latest[q] # None /\ LastIsThere(q)
      BY <1>4, <2>1 DEF WorkInv, WorkIsThere
    <3>2. DataStays(q)
      <4>1. ASSUME NEW a \in Trees, a[q] # None PROVE a[q] \in Inodes /\ a[q] # Tools!Fresh
        BY <1>8, <4>1, InTrees DEF WorkInv, ToolsInv, Tools!Files
      <4>2. QED BY <1>4, <2>1, <4>1 DEF DataStays
    <3>3. \A f \in Tools!Folders : InFolder(f, q) => InFolder(f, q)'
      BY <1>1, <3>2, FolderStays DEF WorkInv, Behind
    <3>4. InFarm(q) => InFarm(q)'
      BY <1>5, <2>1, <3>2, FarmStays DEF WorkInv
    <3>5. Safe(q) => Safe(q)'
      BY <1>1, <1>4, <2>1, <3>3 DEF Safe, Tools!Folders
    <3>6. QED BY <1>1, <1>5, <2>1, <3>1, <3>3, <3>4, <3>5, StillThere DEF Tools!Folders
  <2>2. CASE q = p
    <3>1. InFarm(q)'
      BY <1>3, <1>4, <1>5, <2>2, TreesAreThere DEF InFarm, Has
    <3>2. q \in Tools!Output'
      BY <1>1, <1>3, <1>5, <1>8, <2>2 DEF Tools!Output
    <3>3. QED BY <1>1, <3>1, <3>2 DEF LastIsThere
  <2>3. QED BY <2>1, <2>2
<1>10. QED BY <1>6, <1>7, <1>9 DEF WorkParts

LEMMA WriteScratchWork ==
    ASSUME Tools!PathsAssumption, WorkInv, NEW p \in Paths, Tools!WriteScratch(p)
    PROVE  WorkParts'
<1>1. /\ run.pc = "running" /\ run' = run /\ run.policy = "scratch"
      /\ scratch' = [scratch EXCEPT ![p] = runs] /\ latest' = [latest EXCEPT ![p] = runs]
      /\ UNCHANGED <<mounted, dirty, farm, owned, folder, data, left, overtaken, runs>>
  BY DEF Tools!WriteScratch, Tools!Wrote, Tools!Busy, Tools!world
<1>2. /\ scratch \in [Paths -> Nat \cup {None}] /\ latest \in [Paths -> Nat \cup {None}] /\ runs \in Nat
      /\ \A q \in Paths : scratch[q] # None => scratch[q] = runs /\ latest[q] = runs
  BY <1>1 DEF WorkInv, WorkTyped, Progress, ScratchIsLatest
<1>3. /\ scratch' \in [Paths -> Nat \cup {None}] /\ latest' \in [Paths -> Nat \cup {None}]
      /\ scratch'[p] = runs /\ latest'[p] = runs
      /\ \A q \in Paths : q # p => scratch'[q] = scratch[q] /\ latest'[q] = latest[q]
      /\ scratch' # None /\ scratch # None
  BY <1>1, <1>2 DEF Tools!PathsAssumption
<1>4. WorkTyped'
  BY <1>1, <1>3 DEF WorkInv, WorkTyped
<1>5. Progress'
  <2>1. InputThere' /\ StageIsMerge' /\ ImportedOrNot'
    BY <1>1 DEF InputThere, StageIsMerge, ImportedOrNot
  <2>2. ScratchIsLatest'
    BY <1>1, <1>2, <1>3 DEF ScratchIsLatest
  <2>3. QED BY <2>1, <2>2 DEF Progress
<1>6. WorkIsThere'
  <2> SUFFICES ASSUME NEW q \in Paths, q \notin overtaken, latest'[q] # None
               PROVE  LastIsThere(q)'
    BY <1>1 DEF WorkIsThere
  <2>1. CASE q # p
    <3>1. latest[q] # None /\ LastIsThere(q)
      BY <1>3, <2>1 DEF WorkInv, WorkIsThere
    <3>2. DataStays(q)
      BY <1>1, <1>3, <2>1 DEF DataStays
    <3>3. \A f \in Tools!Folders : InFolder(f, q) => InFolder(f, q)'
      BY <1>1, <3>2, FolderStays DEF WorkInv, Behind
    <3>4. InFarm(q) => InFarm(q)'
      BY <1>1, <3>2, FarmStays DEF WorkInv, ToolsInv, ToolsTyped
    <3>5. Safe(q) => Safe(q)'
      BY <1>1, <1>3, <2>1, <3>3 DEF Safe, Tools!Folders
    <3>6. QED BY <1>1, <3>1, <3>3, <3>4, <3>5, StillThere DEF Tools!Folders
  <2>2. CASE q = p
    <3>1. Safe(q)'
      BY <1>3, <2>2 DEF Safe
    <3>2. QED BY <3>1 DEF LastIsThere
  <2>3. QED BY <2>1, <2>2
<1>7. QED BY <1>4, <1>5, <1>6 DEF WorkParts

(***************************************************************************)
(* The end of a run with private output.                                   *)
(***************************************************************************)
LEMMA CleanUpWork == ASSUME Tools!PathsAssumption, WorkInv, Tools!CleanUp PROVE WorkParts'
<1>1. /\ run.pc = "clean" /\ run' = Tools!At("capture") /\ scratch' = None
      /\ left' = (IF run.kept THEN left \cup {<<p, scratch[p]>> : p \in Paths} ELSE left)
      /\ latest' = [p \in Paths |->
            IF ~run.ok /\ ~run.kept /\ run.new = None /\ latest[p] = runs THEN None ELSE latest[p]]
      /\ overtaken' = overtaken \cup
            {p \in Paths : mounted /\ ~dirty /\ ~run.kept /\ run.new # None /\ run.new[p] # None}
      /\ UNCHANGED <<mounted, dirty, farm, owned, folder, data, runs>>
  BY DEF Tools!CleanUp, Tools!Busy, Tools!world, Tools!KeepScratch
<1>2. GoesOn("capture") /\ run'.kept = run.kept
  BY <1>1, RunGoesOn DEF WorkInv, ToolsInv, ToolsTyped
<1>3. run.policy = "scratch"
  BY <1>1 DEF WorkInv, ToolsInv, PolicyHolds, OfImport
<1>4. latest' \in [Paths -> Nat \cup {None}] /\ \A p \in Paths : latest'[p] \in {latest[p], None}
  BY <1>1 DEF WorkInv, WorkTyped
<1>5. WorkTyped'
  BY <1>1, <1>2, <1>3, <1>4 DEF WorkInv, WorkTyped, GoesOn
<1>6. Progress'
  BY <1>1, <1>2 DEF Progress, InputThere, ScratchIsLatest, StageIsMerge, ImportedOrNot, GoesOn, OfImport
<1>7. scratch # None /\ \A p \in Paths : scratch[p] # None => scratch[p] = runs /\ latest[p] = runs
  BY <1>1, <1>3 DEF WorkInv, Progress, ScratchIsLatest, OfImport
<1>8. WorkIsThere'
  <2> SUFFICES ASSUME NEW p \in Paths, p \notin overtaken', latest'[p] # None
               PROVE  LastIsThere(p)'
    BY DEF WorkIsThere
  <2>1. latest'[p] = latest[p] /\ p \notin overtaken /\ latest[p] # None /\ LastIsThere(p)
    BY <1>1, <1>4 DEF WorkInv, WorkIsThere
  <2>2. \A f \in Tools!Folders : Behind(f) = folder[f] /\ Behind(f)' = folder[f]
    BY <1>1, <1>2 DEF Behind, GoesOn
  <2>3. \A f \in Tools!Folders : InFolder(f, p) => InFolder(f, p)'
    BY <1>1, <2>1, <2>2 DEF InFolder, Has
  <2>4. InFarm(p) => InFarm(p)'
    BY <1>1, <2>1 DEF InFarm, Has
  <2>5. Safe(p) /\ scratch[p] # latest[p] => Safe(p)'
    BY <1>1, <2>1, <2>3 DEF Safe, Tools!Folders
  <2>6. CASE scratch[p] # latest[p]
    BY <1>1, <2>1, <2>3, <2>4, <2>5, <2>6, StillThere DEF Tools!Folders
  <2>7. CASE scratch[p] = latest[p] /\ run.kept
    <3>1. <<p, latest'[p]>> \in left'
      BY <1>1, <2>1, <2>7
    <3>2. QED BY <3>1 DEF LastIsThere, Safe
  <2>8. CASE scratch[p] = latest[p] /\ ~run.kept
    <3>1. scratch[p] # None /\ latest[p] = runs
      BY <1>7, <2>1, <2>8
    <3>2. run.new # None
      <4>1. ASSUME run.new = None PROVE FALSE
        <5>1. scratch = Tools!NoFile \/ ~run.ok
          BY <1>1, <2>8, <4>1 DEF WorkInv, Progress, ImportedOrNot
        <5>2. scratch # Tools!NoFile
          BY <3>1 DEF Tools!NoFile
        <5>3. latest'[p] = None
          BY <1>1, <2>8, <3>1, <4>1, <5>1, <5>2
        <5>4. QED BY <5>3
      <4>2. QED BY <4>1
    <3>3. Tools!CopyOf(folder[run.target]) = run.new /\ run.new[p] = scratch[p]
      BY <1>1, <2>8, <3>1, <3>2 DEF WorkInv, Progress, ImportedOrNot
    <3>4. \A f \in Tools!Folders : f = run.target => InFolder(f, p)
      <4>1. folder[run.target] # None
        BY <3>2, <3>3 DEF Tools!CopyOf
      <4>2. Tools!CopyOf(folder[run.target])[p] = latest[p]
        BY <2>8, <3>3
      <4>3. folder[run.target] \in Tools!Files
        BY <4>1, TargetIsFolder DEF WorkInv
      <4>4. folder[run.target][p] # None /\ data[folder[run.target][p]] = latest[p]
        BY <2>1, <4>2, <4>3, CopyTyped DEF WorkInv, WorkTyped
      <4>5. QED BY <2>2, <4>1, <4>4 DEF InFolder, Has
    <3>5. ~mounted \/ (dirty /\ run.target = "out")
      <4>1. mounted => dirty
        BY <1>1, <2>8, <3>1, <3>2, <3>3
      <4>2. mounted => run.target # "over"
        BY <1>1, <2>1, <2>8, <3>1, <3>2 DEF WorkInv, Progress, ImportedOrNot
      <4>3. QED BY <4>1, <4>2 DEF WorkInv, ToolsInv, ToolsTyped, IsRun
    <3>6. run.target \in {"out", "over"}
      BY DEF WorkInv, ToolsInv, ToolsTyped, IsRun
    <3>7. QED BY <1>1, <2>3, <3>4, <3>5, <3>6 DEF LastIsThere, Tools!Folders
  <2>9. QED BY <2>6, <2>7, <2>8
<1>9. QED BY <1>5, <1>6, <1>8 DEF WorkParts

LEMMA InstallWork == ASSUME Tools!PathsAssumption, WorkInv, Tools!Install PROVE WorkParts'
<1>1. /\ run.pc = "parked" /\ run' = Tools!At("installed")
      /\ overtaken' = overtaken \cup
           {p \in Paths : run.target = "over" /\ mounted /\ stage[p] # None}
      /\ latest' = [p \in Paths |-> IF run.target = "out" /\ stage[p] = None
                      /\ parked[p] # None /\ latest[p] = data[parked[p]]
                    THEN None ELSE latest[p]]
      /\ UNCHANGED <<mounted, dirty, farm, owned, scratch, left, runs>>
  BY DEF Tools!Install, Tools!Busy
<1>2. GoesOn("installed") /\ run'.kept = run.kept
  BY <1>1, RunGoesOn DEF WorkInv, ToolsInv, ToolsTyped
<1>3. PICK files \in Tools!Files :
        Tools!Placed(stage, files) /\ folder' = [folder EXCEPT ![run.target] = files]
  BY DEF Tools!Install
<1>4. /\ stage = run.new /\ stage = [p \in Paths |-> stage[p]] /\ Tools!CopyOf(parked) = run.old
      /\ run.policy = "scratch"
  BY <1>1 DEF WorkInv, ToolsInv, Importing, PolicyHolds, OfImport
<1>5. /\ \A p \in Paths : files[p] # None => files[p] \in Inodes \ (Tools!Used \cup Tools!Linked(parked))
      /\ [p \in Paths |-> IF files[p] = None THEN None ELSE data'[files[p]]] = stage
      /\ \A p \in Paths : files[p] = None <=> stage[p] = None
  <2>1. \A p \in Paths : files[p] = None <=> stage[p] = None
    BY <1>3 DEF Tools!Placed
  <2>2. Tools!Placed(stage, files)
    BY <1>3
  <2>3. QED BY <1>4, <2>1, <2>2, PlacedHolds
<1>6. \A p \in Paths : stage[p] = IF files[p] = None THEN None ELSE data'[files[p]]
  <2>1. \A p \in Paths : stage[p] =
          [q \in Paths |-> IF files[q] = None THEN None ELSE data'[files[q]]][p]
    BY <1>5
  <2>2. QED BY <2>1
<1>7. \A p \in Paths : stage[p] =
          IF scratch[p] # None THEN scratch[p]
          ELSE IF run.target = "over" /\ run.old # None THEN run.old[p] ELSE None
  BY <1>1, <1>4 DEF WorkInv, Progress, StageIsMerge
<1>8. /\ folder'[run.target] = files /\ files # None
      /\ \A f \in Tools!Folders : f # run.target => folder'[f] = folder[f]
  BY <1>3, TargetIsFolder, TreesAreThere DEF WorkInv, ToolsInv, ToolsTyped
<1>9. /\ data' = [i \in Inodes |-> IF \E p \in Paths : files[p] = i
                                   THEN stage[CHOOSE p \in Paths : files[p] = i] ELSE data[i]]
      /\ data \in [Inodes -> Nat]
  BY <1>3 DEF Tools!Placed, WorkInv, WorkTyped
<1>10. \A a \in Trees : \A p \in Paths : a[p] # None => a[p] \in Inodes /\ data'[a[p]] = data[a[p]]
  <2>1. ASSUME NEW a \in Trees, NEW p \in Paths, a[p] # None
        PROVE  a[p] \in Inodes /\ \A q \in Paths : files[q] # a[p]
    <3>1. a[p] \in Inodes
      BY <2>1, InTrees DEF WorkInv, ToolsInv, Tools!Files
    <3>2. \A q \in Paths : files[q] # a[p]
      BY <1>5, <2>1, FreeIsNew DEF WorkInv, ToolsInv
    <3>3. QED BY <3>1, <3>2
  <2>2. QED BY <1>9, <2>1
<1>11. \A p \in Paths : stage[p] \in Nat \cup {None}
  <2>1. ASSUME NEW p \in Paths PROVE stage[p] \in Nat \cup {None}
    <3>1. CASE scratch[p] # None
      <4>1. scratch \in [Paths -> Nat \cup {None}]
        BY <1>1, <1>4 DEF WorkInv, WorkTyped, Progress, ScratchIsLatest, OfImport
      <4>2. QED BY <1>7, <3>1, <4>1
    <3>2. CASE scratch[p] = None /\ run.old # None
      <4>1. parked # None
        BY <1>4, <3>2 DEF Tools!CopyOf
      <4>2. run.old \in [Paths -> Nat \cup {None}]
        BY <1>4, <1>9, <4>1, CopyTyped DEF WorkInv, ToolsInv, ToolsTyped
      <4>3. QED BY <1>7, <3>2, <4>2
    <3>3. CASE scratch[p] = None /\ run.old = None
      BY <1>7, <3>3
    <3>4. QED BY <3>1, <3>2, <3>3
  <2>2. QED BY <2>1
<1>12. data' \in [Inodes -> Nat]
  <2>1. ASSUME NEW i \in Inodes PROVE data'[i] \in Nat
    <3>1. CASE \E p \in Paths : files[p] = i
      <4>1. PICK p \in Paths : files[p] = i
        BY <3>1
      <4>2. i # None
        BY DEF Tools!PathsAssumption
      <4>3. QED BY <1>5, <1>6, <1>11, <4>1, <4>2
    <3>2. CASE \A p \in Paths : files[p] # i
      BY <1>9, <3>2
    <3>3. QED BY <3>1, <3>2
  <2>2. QED BY <1>9, <2>1
<1>13. latest' \in [Paths -> Nat \cup {None}] /\ \A p \in Paths : latest'[p] \in {latest[p], None}
  BY <1>1 DEF WorkInv, WorkTyped
<1>14. WorkTyped'
  BY <1>1, <1>2, <1>4, <1>12, <1>13 DEF WorkInv, WorkTyped, GoesOn
<1>15. scratch # None /\ \A p \in Paths : scratch[p] # None => scratch[p] = runs /\ latest[p] = runs
  BY <1>1, <1>4 DEF WorkInv, Progress, ScratchIsLatest, OfImport
<1>16. \A p \in Paths : scratch[p] # None => stage[p] = scratch[p] /\ latest'[p] = latest[p]
  BY <1>1, <1>7
<1>17. Progress'
  <2>1. ScratchIsLatest'
    BY <1>1, <1>2, <1>4, <1>15, <1>16 DEF ScratchIsLatest, GoesOn, OfImport
  <2>2. StageIsMerge'
    BY <1>1, <1>2 DEF WorkInv, Progress, StageIsMerge, GoesOn
  <2>3. ImportedOrNot'
    BY <1>1, <1>2, <1>16 DEF ImportedOrNot, GoesOn
  <2>4. InputThere'
    BY <1>2 DEF InputThere, GoesOn
  <2>5. QED BY <2>1, <2>2, <2>3, <2>4 DEF Progress
<1>18. WorkIsThere'
  <2> SUFFICES ASSUME NEW p \in Paths, p \notin overtaken', latest'[p] # None
               PROVE  LastIsThere(p)'
    BY DEF WorkIsThere
  <2>1. latest'[p] = latest[p] /\ p \notin overtaken /\ latest[p] # None /\ LastIsThere(p)
    BY <1>1, <1>13 DEF WorkInv, WorkIsThere
  <2>2. DataStays(p)
    BY <1>10, <2>1 DEF DataStays
  <2>3. /\ \A f \in Tools!Folders : f # run.target => Behind(f) = folder[f] /\ Behind(f)' = folder[f]
        /\ \A f \in Tools!Folders : f = run.target => Behind(f) = parked /\ Behind(f)' = files
    BY <1>1, <1>2, <1>8 DEF Behind, GoesOn
  <2>4. \A f \in Tools!Folders : f # run.target => (InFolder(f, p) => InFolder(f, p)')
    BY <2>2, <2>3, FolderStays DEF WorkInv
  <2>5. run.target \in {"out", "over"}
    BY DEF WorkInv, ToolsInv, ToolsTyped, IsRun
  <2>6. Safe(p) => Safe(p)'
    BY <1>1, <2>1, <2>4, <2>5 DEF Safe, Tools!Folders
  <2>7. InFarm(p) => InFarm(p)'
    BY <1>1, <2>2, FarmStays DEF WorkInv, ToolsInv, ToolsTyped
  <2>8. CASE scratch[p] # None
    <3>1. Safe(p)'
      BY <1>1, <1>15, <2>1, <2>8 DEF Safe
    <3>2. QED BY <3>1 DEF LastIsThere
  <2>9. CASE scratch[p] = None
    <3>1. ASSUME NEW f \in Tools!Folders, f = run.target, InFolder(f, p) PROVE InFolder(f, p)'
      <4>1. parked # None /\ parked[p] # None /\ data[parked[p]] = latest[p]
        BY <2>3, <3>1 DEF InFolder, Has
      <4>2. run.target = "over"
        <5>1. run.target = "out" => stage[p] = None
          BY <1>7, <2>9
        <5>2. run.target = "out" => latest'[p] = None
          BY <1>1, <4>1, <5>1
        <5>3. QED BY <2>1, <2>5, <5>2
      <4>3. run.old # None /\ run.old[p] = latest[p]
        <5>1. parked \in Tools!Files
          BY <4>1 DEF WorkInv, ToolsInv, ToolsTyped
        <5>2. Tools!CopyOf(parked) # None /\ Tools!CopyOf(parked)[p] = data[parked[p]]
          BY <1>9, <4>1, <5>1, CopyTyped
        <5>3. QED BY <1>4, <4>1, <5>2
      <4>4. stage[p] = latest[p]
        BY <1>7, <2>9, <4>2, <4>3
      <4>5. files[p] # None /\ data'[files[p]] = latest[p]
        BY <1>6, <2>1, <4>4
      <4>6. QED BY <1>8, <2>1, <2>3, <3>1, <4>5 DEF InFolder, Has
    <3>2. QED BY <1>1, <2>1, <2>4, <2>6, <2>7, <3>1, StillThere DEF Tools!Folders
  <2>10. QED BY <2>8, <2>9
<1>19. QED BY <1>14, <1>17, <1>18 DEF WorkParts

-----------------------------------------------------------------------------
(***************************************************************************)
(* The last version of every path.                                         *)
(***************************************************************************)
LEMMA WorkStart == ASSUME Tools!PathsAssumption, Tools!Init PROVE WorkInv
<1>1. /\ ~mounted /\ farm = Tools!NoFile /\ data = [i \in Inodes |-> 0] /\ scratch = None /\ run = Tools!NoRun
      /\ runs = 0 /\ latest = Tools!NoFile
  BY DEF Tools!Init
<1>2. run.pc = "idle" /\ run.policy = None /\ run.kept = FALSE
  BY <1>1 DEF Tools!NoRun
<1>3. WorkTyped
  BY <1>1, <1>2 DEF WorkTyped, Tools!NoFile
<1>4. InputThere /\ ScratchIsLatest /\ ImportedOrNot
  BY <1>1, <1>2 DEF InputThere, ScratchIsLatest, ImportedOrNot, OfImport
<1>5. StageIsMerge
  BY <1>2 DEF StageIsMerge
<1>6. WorkIsThere
  BY <1>1 DEF WorkIsThere, Tools!NoFile
<1>7. QED BY <1>3, <1>4, <1>5, <1>6, ToolsStart DEF WorkInv, Progress

LEMMA WorkStep == ASSUME Tools!PathsAssumption, WorkInv, Tools!Next PROVE WorkInv'
<1>1. ToolsInv'
  BY ToolsStep DEF WorkInv
<1>2. CASE Tools!Mount \/ Tools!Unmount \/ Tools!Restart
  BY <1>1, <1>2, MountWork, DroppedWork DEF WorkInv, WorkParts
<1>3. CASE Tools!Admit \/ Tools!Prepare \/ Tools!PrepareLayer
  BY <1>1, <1>3, AdmitWork, PrepareWork, PrepareLayerWork DEF WorkInv, WorkParts
<1>4. CASE Tools!RefuseMounted \/ Tools!PrepareFails \/ Tools!CopyFails \/ Tools!StartFails \/ Tools!NoCapture
  BY <1>1, <1>4, RefusalsWork DEF WorkInv, WorkParts
<1>5. CASE Tools!CopyUp \/ Tools!CopyUpUnlink \/ Tools!CopyUpLink \/ Tools!NothingToCopy
  BY <1>1, <1>5, CopyUpWork, CopyUpRelinks, NothingToCopyWork DEF WorkInv, WorkParts
<1>6. CASE Tools!Start \/ Tools!Exit
  BY <1>1, <1>6, StartWork, ExitWork DEF WorkInv, WorkParts
<1>7. CASE Tools!ToolStep
  BY <1>1, <1>7, WriteInPlaceWork, WriteAnewWork, WriteScratchWork DEF Tools!ToolStep, WorkInv, WorkParts
<1>8. CASE Tools!StageOutput \/ Tools!NothingToImport \/ Tools!StageFails
  BY <1>1, <1>8, StageOutputWork, NothingToImportWork DEF WorkInv, WorkParts
<1>9. CASE Tools!Park \/ Tools!Install \/ Tools!InstallFails \/ Tools!RollbackFails \/ Tools!Discard
  BY <1>1, <1>9, ParkWork, InstallWork, RollbackFailsWork, DiscardWork DEF WorkInv, WorkParts
<1>10. CASE Tools!MarkDirty \/ Tools!CleanUp
  BY <1>1, <1>10, MarkDirtyWork, CleanUpWork DEF WorkInv, WorkParts
<1>11. CASE Tools!Capture \/ Tools!Kill
  BY <1>1, <1>11, CaptureWork, KillWork DEF WorkInv, WorkParts
<1>12. QED
  BY <1>2, <1>3, <1>4, <1>5, <1>6, <1>7, <1>8, <1>9, <1>10, <1>11 DEF Tools!Next

LEMMA WorkStutter == ASSUME Tools!PathsAssumption, WorkInv, UNCHANGED Tools!vars PROVE WorkInv'
<1>1. UNCHANGED <<mounted, dirty, farm, owned, folder, data, left, scratch, parked, latest, overtaken, run, runs>>
  BY DEF Tools!vars
<1>2. ToolsInv' /\ WorkTyped'
  BY <1>1, ToolsStutter DEF WorkInv, WorkTyped
<1>3. \A f \in Tools!Folders : Behind(f)' = Behind(f)
  BY <1>1 DEF Behind
<1>4. WorkIsThere'
  <2>1. \A p \in Paths : latest'[p] \in {latest[p], None}
    BY <1>1
  <2>2. QED BY <1>1, <1>3, <2>1, WorkStays DEF WorkInv
<1>5. InputThere'
  BY <1>1 DEF WorkInv, Progress, InputThere, InFarm, Has
<1>6. ScratchIsLatest' /\ StageIsMerge'
  BY <1>1 DEF WorkInv, Progress, ScratchIsLatest, StageIsMerge
<1>7. ImportedOrNot'
  <2>1. Tools!CopyOf(folder[run.target])' = Tools!CopyOf(folder[run.target])
    BY <1>1 DEF Tools!CopyOf
  <2>2. QED BY <1>1, <2>1 DEF WorkInv, Progress, ImportedOrNot
<1>8. QED BY <1>2, <1>4, <1>5, <1>6, <1>7 DEF WorkInv, Progress

\* Where a version is, in the words of the model.
LEMMA LastIsKept == ASSUME Tools!PathsAssumption, WorkInv PROVE Tools!ToolWorkKept
<1> SUFFICES ASSUME NEW p \in Paths, p \notin overtaken, latest[p] # None
             PROVE  \/ \E f \in Tools!Folders : folder[f] # None /\ Tools!CopyOf(folder[f])[p] = latest[p]
                    \/ Tools!CopyOf(farm)[p] = latest[p]
                    \/ \E c \in {scratch, stage, Tools!CopyOf(parked)} : c # None /\ c[p] = latest[p]
                    \/ <<p, latest[p]>> \in left
  BY DEF Tools!ToolWorkKept
<1>1. data \in [Inodes -> Nat] /\ LastIsThere(p)
  BY DEF WorkInv, WorkTyped, WorkIsThere
<1>2. ASSUME NEW f \in Tools!Folders, InFolder(f, p)
      PROVE  \/ folder[f] # None /\ Tools!CopyOf(folder[f])[p] = latest[p]
             \/ Tools!CopyOf(parked) # None /\ Tools!CopyOf(parked)[p] = latest[p]
  <2>1. /\ Behind(f) # None /\ Behind(f)[p] # None /\ data[Behind(f)[p]] = latest[p]
        /\ Behind(f) \in Tools!Files /\ (Behind(f) = folder[f] \/ Behind(f) = parked)
    BY <1>2, BehindIsTree DEF InFolder, Has, Behind, WorkInv
  <2>2. Tools!CopyOf(Behind(f)) # None /\ Tools!CopyOf(Behind(f))[p] = latest[p]
    BY <1>1, <2>1, CopyTyped
  <2>3. QED BY <2>1, <2>2
<1>3. InFarm(p) => Tools!CopyOf(farm)[p] = latest[p]
  BY <1>1, CopyTyped DEF InFarm, Has, WorkInv, ToolsInv, ToolsTyped
<1>4. \/ \E f \in Tools!Folders : InFolder(f, p)
      \/ InFarm(p) \/ <<p, latest[p]>> \in left \/ (scratch # None /\ scratch[p] = latest[p])
  BY <1>1 DEF LastIsThere, Safe, Tools!Folders
<1>5. QED BY <1>2, <1>3, <1>4

\* What a tool wrote last at a path is somewhere, for any number of runs, faults
\* and kills, but at the paths another run overtook (executables.go and
\* tool_output.go).
THEOREM WorkIsNeverLost == ASSUME Tools!PathsAssumption PROVE Tools!Spec => []Tools!ToolWorkKept
<1>1. Tools!Init => WorkInv
  BY WorkStart
<1>2. WorkInv /\ [Tools!Next]_(Tools!vars) => WorkInv'
  BY WorkStep, WorkStutter
<1>3. WorkInv => Tools!ToolWorkKept
  BY LastIsKept
<1>4. QED BY <1>1, <1>2, <1>3, PTL DEF Tools!Spec
=============================================================================
