--------------------------- MODULE ScriptExtender ---------------------------
(***************************************************************************)
(* Installing a script extender into the game's folder, and the check that *)
(* a launch through it makes.  The files are placed one by one, each with  *)
(* a rename; a manifest of their hashes is written when all are there, of  *)
(* those that can be read by then.  A launch refuses when a recorded file  *)
(* is missing or is another; a manifest it cannot read does not stop it.   *)
(*                                                                         *)
(* A file's content is the build it came from; files two builds share have *)
(* the content of the older one (Build).  The last fault may be anywhere:  *)
(* a copy or the manifest fails, the service is killed, Steam or the user  *)
(* replaces a file.                                                        *)
(***************************************************************************)
EXTENDS Naturals, FiniteSets

CONSTANTS File,        \* files of an extender
          Build,       \* the builds published: functions from files to contents
          Absent,      \* no file
          MaxKills     \* bound: kills of the service

ExtenderAssumption ==
    /\ \A b \in Build : b = [f \in DOMAIN b |-> b[f]] /\ DOMAIN b \subseteq File
    /\ MaxKills \in Nat

Content == UNION {{b[f] : f \in DOMAIN b} : b \in Build}

VARIABLES disk,        \* the extender's files in the game's folder
          manifest,    \* .gorganizer-script-extender.manifest; empty: none
          install,     \* the one install at a time: InstallScriptExtender
          launch,      \* the one launch at a time: LaunchGame with the extender
          mounted,     \* the farm is mounted and the game root deployed
          playing,     \* the game runs, and what its launch had verified
          kills

vars == <<disk, manifest, install, launch, mounted, playing, kills>>

Idle    == [at |-> "idle", build |-> <<>>, todo |-> {}]
NoLaunch == [at |-> "idle", todo |-> {}]
Nothing == <<>>
\* What may be recorded: files of one build, all of them or not.
Listed == UNION {{[f \in S |-> b[f]] : S \in SUBSET DOMAIN b} : b \in Build}

LaunchStates == {"idle", "admitted", "mounted", "checking", "checked", "unverified"}

TypeOK ==
    /\ disk \in [File -> Content \cup {Absent, "other"}]
    /\ manifest \in Listed \cup {Nothing}
    /\ install \in [at : {"idle", "fetched", "copying", "copied"}, build : Build \cup {<<>>},
                   todo : SUBSET File]
    /\ launch \in [at : LaunchStates, todo : SUBSET File]
    /\ mounted \in BOOLEAN /\ playing \in {"no", "checked", "unverified"}
    /\ kills \in 0..MaxKills

Init ==
    /\ disk = [f \in File |-> Absent] /\ manifest = Nothing
    /\ install = Idle /\ launch = NoLaunch
    /\ mounted = FALSE /\ playing = "no" /\ kills = 0

(***************************************************************************)
(* The install.                                                            *)
(***************************************************************************)
\* The newest published archive, from GitHub or the Nexus.
Fetched(b) == [at |-> "fetched", build |-> b, todo |-> DOMAIN b]

\* Downloaded, unpacked and its loader found before any lock is taken.
Download(b) ==
    /\ install.at = "idle"
    /\ install' = Fetched(b)
    /\ UNCHANGED <<disk, manifest, launch, mounted, playing, kills>>

\* No game, launch or tool runs; no farm is mounted, no root is deployed.
FolderFree == playing = "no" /\ ~mounted

\* s.mu and the reservation are held from here to the manifest.
Begin ==
    /\ install.at = "fetched"
    /\ install' = IF FolderFree THEN [install EXCEPT !.at = "copying"] ELSE Idle
    /\ UNCHANGED <<disk, manifest, launch, mounted, playing, kills>>

\* copyFileAtomic: a temporary file beside the target is renamed over it.
Put(f) == disk' = [disk EXCEPT ![f] = install.build[f]]

\* A folder of the target is a link or cannot be made, or a copy fails.
CopyFails == install' = Idle /\ UNCHANGED disk

Copy ==
    /\ install.at = "copying"
    /\ \/ \E f \in install.todo :
            /\ Put(f)
            /\ install' = [install EXCEPT !.todo = @ \ {f}]
       \/ install.todo = {} /\ install' = [install EXCEPT !.at = "copied"] /\ UNCHANGED disk
       \/ CopyFails
    /\ UNCHANGED <<manifest, launch, mounted, playing, kills>>

\* The files as they are on disk are hashed.  One that cannot be read is left
\* out, and a manifest that cannot be written is only logged.
Record ==
    /\ install.at = "copied"
    /\ install' = Idle
    /\ \/ \E S \in SUBSET DOMAIN install.build : manifest' = [f \in S |-> disk[f]]
       \/ UNCHANGED manifest
    /\ UNCHANGED <<disk, launch, mounted, playing, kills>>

(***************************************************************************)
(* The launch.                                                             *)
(***************************************************************************)
Admit ==
    /\ launch.at = "idle" /\ playing = "no"
    /\ launch' = [launch EXCEPT !.at = "admitted"]
    /\ UNCHANGED <<disk, manifest, install, mounted, playing, kills>>

\* pendingAdmissionLocked, and s.mu.
MayMount == install.at \notin {"copying", "copied"}

MountFarm ==
    /\ launch.at = "admitted"
    /\ \/ MayMount /\ mounted' = TRUE /\ launch' = [launch EXCEPT !.at = "mounted"]
       \/ mounted /\ launch' = [launch EXCEPT !.at = "mounted"] /\ UNCHANGED mounted
       \/ launch' = NoLaunch /\ UNCHANGED mounted
    /\ UNCHANGED <<disk, manifest, install, playing, kills>>

\* VerifyScriptExtenderManifest: the manifest is read, then file after file.  A
\* launch goes on without a check when it lists nothing or cannot be read.
ReadManifest ==
    /\ launch.at = "mounted"
    /\ \/ manifest # Nothing /\ launch' = [at |-> "checking", todo |-> DOMAIN manifest]
       \/ launch' = [at |-> "unverified", todo |-> {}]
    /\ UNCHANGED <<disk, manifest, install, mounted, playing, kills>>

\* Mutant: the file only has to be there.
Present(f) == disk[f] # Absent
AsRecorded(f) == disk[f] = manifest[f]

CheckFile ==
    /\ launch.at = "checking"
    /\ \/ \E f \in launch.todo : AsRecorded(f) /\ launch' = [launch EXCEPT !.todo = @ \ {f}]
       \* Missing, another, or it cannot be read.
       \/ launch.todo # {} /\ launch' = NoLaunch
       \/ launch.todo = {} /\ launch' = [launch EXCEPT !.at = "checked"]
    /\ UNCHANGED <<disk, manifest, install, mounted, playing, kills>>

Start ==
    /\ launch.at \in {"checked", "unverified"}
    /\ \/ playing' = launch.at
       \/ UNCHANGED playing
    /\ launch' = NoLaunch
    /\ UNCHANGED <<disk, manifest, install, mounted, kills>>

(***************************************************************************)
(* The world.                                                              *)
(***************************************************************************)
Quit ==
    /\ playing # "no" /\ playing' = "no"
    /\ UNCHANGED <<disk, manifest, install, launch, mounted, kills>>

\* An unmount waits for the game, and for every reservation of the install.
Unmount ==
    /\ mounted /\ playing = "no" /\ launch.at = "idle"
    /\ mounted' = FALSE
    /\ UNCHANGED <<disk, manifest, install, launch, playing, kills>>

\* Steam verifies the game, or the user replaces or removes a file.
Meddle ==
    /\ playing = "no" /\ launch.at = "idle"
    /\ install.at \in {"idle", "fetched"}
    /\ \E f \in File : disk' = [disk EXCEPT ![f] = IF @ = Absent THEN Absent ELSE "other"]
    /\ UNCHANGED <<manifest, install, launch, mounted, playing, kills>>

Kill ==
    /\ kills < MaxKills /\ kills' = kills + 1
    /\ install' = Idle /\ launch' = NoLaunch
    /\ UNCHANGED <<disk, manifest, mounted, playing>>

Next ==
    \/ \E b \in Build : Download(b)
    \/ Begin \/ Copy \/ Record
    \/ Admit \/ MountFarm \/ ReadManifest \/ CheckFile \/ Start
    \/ Quit \/ Unmount \/ Meddle \/ Kill

Spec == Init /\ [][Next]_vars

-----------------------------------------------------------------------------
\* While the game runs through an extender that was checked, what was recorded
\* of it is of one build and is what was recorded: no failed or killed install,
\* no file Steam replaced, and no install that began during the launch mixed two
\* (launch.go:133, script_extender.go:199).
PlaysAsRecorded ==
    playing = "checked" =>
        \E b \in Build : \A f \in DOMAIN manifest : f \in DOMAIN b /\ disk[f] = b[f]

\* The manifest is said to have every file of the install (script_extender.go:342);
\* a game whose launch was checked would then run one whole build.  It does not
\* when a file that could not be hashed was skipped (371) and changed since.
PlaysWholeBuild ==
    playing = "checked" => \E b \in Build : \A f \in DOMAIN b : disk[f] = b[f]

\* An install never replaces a file of the extender under a running game, nor
\* between the check of a launch and its start.
NotUnderLaunch ==
    launch.at \in {"checking", "checked", "unverified"} \/ playing # "no" => disk' = disk
=============================================================================
