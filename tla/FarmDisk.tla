------------------------------ MODULE FarmDisk ------------------------------
(***************************************************************************)
(* The part of a game's install folder that internal/vfs owns: the Data    *)
(* folder, the siblings it creates next to it, and the records that say    *)
(* which change is under way.  All of them are entries of one parent       *)
(* directory, so a value of type Namespaces is what a directory listing    *)
(* plus the bodies of the record files would show.                         *)
(*                                                                         *)
(* A directory is named by its (device, inode) identity, as directoryAt    *)
(* reads it; what a directory holds is kept apart, in a Content record, so *)
(* that renaming a directory moves its content along.                      *)
(***************************************************************************)
EXTENDS Naturals, FiniteSets

CONSTANTS
  Original,   \* identity of the game's own Data directory
  Farms,      \* identities the file system may give to directories we create
  Foreign,    \* identities of directories another program creates
  Files,      \* names of files a game or tool may write into a farm
  Layers,     \* the layer lists (profiles) that may be deployed
  None        \* no directory, no record

ASSUME IdentityAssumption ==
  /\ Original \notin Farms \cup Foreign
  /\ Farms \cap Foreign = {}
  /\ None \notin Farms \cup Foreign \cup Layers \cup {Original}

Dirs == {Original} \cup Farms \cup Foreign
OptDirs == Dirs \cup {None}

(* A directory's content.  meta is the state of the overlay sentinel and   *)
(* the farm manifest it names: "full" both, "sentinel" only the first.     *)
(* bulk says whether anything but metadata and output is inside, out is    *)
(* what the game wrote that no manifest entry owns.                        *)
Content == [meta : {"none", "sentinel", "full"}, bulk : BOOLEAN,
            out : SUBSET Files, layers : Layers \cup {None}]

EmptyDir == [meta |-> "none", bulk |-> FALSE, out |-> {}, layers |-> None]
PlainDir == [EmptyDir EXCEPT !.bulk = TRUE]
FarmDir(l) == [meta |-> "full", bulk |-> TRUE, out |-> {}, layers |-> l]

(* CaptureOptions: an empty PreserveInto sends output to Overwrite.        *)
CaptureOpts == {"overwrite", "preserve"}

Activating == [schema : {1, 2}, original : OptDirs, farm : OptDirs]
Applying   == [schema : {1, 2}, live : OptDirs, staging : OptDirs]
Journals   == [farm : Dirs, backup : Dirs, capture : CaptureOpts,
               dataCaptured : BOOLEAN, retiredCaptured : BOOLEAN]
Restoring  == [backup : Dirs, farm : OptDirs]

ASSUME RecordAssumption == None \notin Activating \cup Applying \cup Journals \cup Restoring

Namespaces == [data : OptDirs, orig : OptDirs, staging : OptDirs,
               oldfarm : OptDirs, retired : OptDirs,
               activating : Activating \cup {None},
               applying   : Applying \cup {None},
               journal    : Journals \cup {None},
               restoring  : Restoring \cup {None}]

Places == {"data", "orig", "staging", "oldfarm", "retired"}

PristineNamespace ==
  [data |-> Original, orig |-> None, staging |-> None, oldfarm |-> None,
   retired |-> None, activating |-> None, applying |-> None,
   journal |-> None, restoring |-> None]

ActivatingIntent(o, f) == [schema |-> 2, original |-> o, farm |-> f]
ApplyingIntent(l, s) == [schema |-> 2, live |-> l, staging |-> s]
NewJournal(f, b, opts) ==
  [farm |-> f, backup |-> b, capture |-> opts,
   dataCaptured |-> FALSE, retiredCaptured |-> FALSE]

(* The directories a namespace holds, and every identity it mentions.      *)
Held(n) == {n[p] : p \in Places} \ {None}

Mentioned(n) ==
  Held(n)
    \cup (IF n.activating = None THEN {}
          ELSE {n.activating.original, n.activating.farm})
    \cup (IF n.applying = None THEN {} ELSE {n.applying.live, n.applying.staging})
    \cup (IF n.journal = None THEN {} ELSE {n.journal.farm, n.journal.backup})
    \cup (IF n.restoring = None THEN {} ELSE {n.restoring.backup, n.restoring.farm})

(* ReadSentinel succeeds, and ValidateSentinel accepts what it returns:    *)
(* the backup directory the sentinel names must exist.                     *)
HasSentinel(dir, d) == d # None /\ dir[d].meta # "none"
ValidFarm(n, dir, d) == HasSentinel(dir, d) /\ n.orig # None

IsEmptyDir(c) == c.meta = "none" /\ ~c.bulk /\ c.out = {}

(* What an interrupted os.RemoveAll may leave: entries go in an order the  *)
(* file system picks.                                                      *)
Remnants(c) ==
  {r \in [meta : {"none", "sentinel", c.meta}, bulk : {FALSE, c.bulk},
          out : {{}, c.out}, layers : {c.layers}] :
     r.meta = "sentinel" => c.meta # "none"}
=============================================================================
