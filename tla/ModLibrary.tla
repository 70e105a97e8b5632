----------------------------- MODULE ModLibrary -----------------------------
(***************************************************************************)
(* The mods of one game, the modlists of its profiles and what of them is  *)
(* deployed, under the calls that change them at the same time             *)
(* (daemon/mods.go, mod_deployment.go, profiles.go, install.go, merge.go,  *)
(* reinstall.go, transfer_service.go, vfs_service.go).                     *)
(*                                                                         *)
(* Three kinds of locks order the calls: one per mod folder (lockMods),    *)
(* one for the profiles of the game (lockProfiles) and s.mu.  They are not *)
(* all taken by everybody: applying changes holds s.mu alone, setting a    *)
(* modlist and importing hold the profile lock alone.  The fence of the    *)
(* install does not order them, all of these hold it shared.               *)
(*                                                                         *)
(* Abstracted: a folder is the call that built it, or the mod it came      *)
(* with; a layer is a name and the folder it was deployed from.  One       *)
(* replacement of a folder is a step or two here, FolderSwap takes it      *)
(* apart; so is one deployment, see Farm and RootDeployment.               *)
(***************************************************************************)
EXTENDS Naturals, Sequences, FiniteSets, SequencesExt

CONSTANTS
    Names,                  \* mod folders
    Installed,              \* those there from the start
    Profiles,
    Calls,                  \* calls of clients, each made once
    Requests,               \* modlists that clients send
    MaxFaults,              \* bound: file operations that fail
    None

\* What is asked of the constants, where the module is instantiated.
InstalledAssumption == Installed \subseteq Names /\ Installed # {}

VARIABLES
    folder,                 \* name -> what its folder holds, or None
    index,                  \* name -> true_index of its metadata.yaml
    lists,                  \* profile -> modlist.txt
    mounted,                \* the profile whose farm is live, or None
    applied,                \* the layers the farm was built from
    root,                   \* ... the game-root deployment
    desired,                \* mm.layers: names to deploy at the next apply
    dirty,                  \* desiredGen differs from appliedGen
    op,                     \* what a call is doing
    arrived,                \* history: folders that came since the last deployment
    faults

store == <<folder, index>>
farm  == <<mounted, applied, root, desired, dirty>>
vars  == <<store, lists, farm, op, arrived, faults>>

Folders  == Names \union Calls
Kinds    == {"setlist", "rebuild", "uninstall", "rename", "install", "import", "reinstall",
             "extract", "tool"}
Policies == {"abort", "skip", "rename", "overwrite"}
Entries  == [name : Names, on : BOOLEAN]
Layers   == [name : Names, folder : Folders]

Idle == [kind |-> None, at |-> "idle", name |-> None, to |-> None, profile |-> None,
         policy |-> None, entries |-> <<>>, layers |-> <<>>, lists |-> None, used |-> FALSE,
         index |-> 0]
Ended == [Idle EXCEPT !.at = "ended"]

TypeOK ==
    /\ folder \in [Names -> Folders \union {None}]
    /\ index \in [Names -> Nat]
    /\ \A p \in Profiles : \A i \in DOMAIN lists[p] : lists[p][i] \in Entries
    /\ mounted \in Profiles \union {None}
    /\ \A s \in {applied, root} : \A i \in DOMAIN s : s[i] \in Layers
    /\ \A i \in DOMAIN desired : desired[i] \in Names
    /\ dirty \in BOOLEAN
    /\ \A c \in Calls : op[c].kind \in Kinds \union {None} /\ op[c].policy \in Policies \union {None}
    /\ arrived \subseteq Names /\ faults \in 0..MaxFaults

-----------------------------------------------------------------------------
\* Locks: who holds one follows from where the calls are

At(c, at)   == op[c].at = at
Step(c, at) == op' = [op EXCEPT ![c].at = at]
Ends(c)     == op' = [op EXCEPT ![c] = Ended]
Fault       == faults < MaxFaults /\ faults' = faults + 1
Alive(c)    == op[c].at \notin {"idle", "ended"}

\* lockMods: the folder a call works on, and the one a rename is to
Holds(c) == IF /\ op[c].kind # "extract"
               /\ op[c].at \in {"staged", "published", "built", "checked", "locked", "moved",
                                "listed", "allowed", "aside"}
            THEN {op[c].name, op[c].to} ELSE {}
ModsFree(names) == \A c \in Calls : Holds(c) \intersect names = {}

\* lockProfiles
ProfilesFree ==
    \A c \in Calls : op[c].at \notin {"saved", "seen", "allowed", "aside", "moved", "listed"}

\* s.mu; a reader of it waits for a writer too
StateFree == \A c \in Calls : op[c].at \notin {"loaded", "marked", "moved", "listed"}

\* applyBusyLocked: a tool runs in the farm
Busy == \E c \in Calls : op[c].kind = "tool" /\ Alive(c)

-----------------------------------------------------------------------------
\* Lists and layers

NamesOf(s)    == [i \in DOMAIN s |-> s[i].name]
Listed(p, n)  == \E i \in DOMAIN lists[p] : lists[p][i].name = n
Enabled(l, n) == \E i \in DOMAIN l : l[i] = [name |-> n, on |-> TRUE]
Without(l, n) == SelectSeq(l, LAMBDA e : e.name # n)

\* the enabled mods of a list whose folder is there
buildLayers(l) == NamesOf(SelectSeq(l, LAMBDA e : e.on /\ folder[e.name] # None))

\* deploying names links the files their folders hold now
Deployed(names, f) ==
    LET there == SelectSeq(names, LAMBDA n : f[n] # None)
    IN  [i \in DOMAIN there |-> [name |-> there[i], folder |-> f[there[i]]]]

\* Mutant: a pending change of the mounted modlist is overlooked
mountedModUsedNow(n) == \E s \in {applied, root} : \E i \in DOMAIN s : s[i].name = n

\* deployed, or about to be at the next apply
mountedModUsed(n) ==
    /\ mounted # None
    /\ \/ \E s \in {applied, root} : \E i \in DOMAIN s : s[i].name = n
       \/ Enabled(lists[mounted], n)

\* Mutant: the list asked for replaces the one there is
replaceModList(requested, current) == requested

\* the list asked for, with the mods its client did not know of put back in
\* after their nearest neighbour before them
mergeModList(requested, current) ==
    LET named     == {requested[i].name : i \in DOMAIN requested}
        Anchor(i) == LET before == {j \in 1..i : current[j].name \in named}
                     IN  IF before = {} THEN None
                         ELSE current[CHOOSE j \in before : \A k \in before : k <= j].name
        Kept(a)   ==
            LET Keep(i) == /\ current[i].name \notin named /\ folder[current[i].name] # None
                           /\ \A j \in 1..(i - 1) : current[j].name # current[i].name
                           /\ Anchor(i) = a
                at      == SelectSeq([i \in DOMAIN current |-> i], Keep)
            IN  [k \in DOMAIN at |-> current[at[k]]]
    IN  Kept(None) \o FlattenSeq([i \in DOMAIN requested |->
                                     <<requested[i]>> \o Kept(requested[i].name)])

appendToModList(l, n) == IF \E i \in DOMAIN l : l[i].name = n THEN l
                         ELSE Append(l, [name |-> n, on |-> FALSE])

Renamed(l, from, to) == [i \in DOMAIN l |->
                            IF l[i].name = from THEN [l[i] EXCEPT !.name = to] ELSE l[i]]

\* writeTrueIndexes: the position of a mod goes to its metadata
Positions(l) ==
    [n \in Names |->
        LET at == {i \in DOMAIN l : l[i].name = n}
        IN  IF folder[n] = None \/ at = {} THEN index[n]
            ELSE CHOOSE i \in at : \A j \in at : j <= i]

MarkDirty(names) == desired' = names /\ dirty' = TRUE

\* the farm of profile p is built from names
Deploys(p, names) ==
    /\ mounted' = p /\ desired' = names /\ dirty' = FALSE
    /\ applied' = Deployed(names, folder') /\ root' = Deployed(names, folder')
    /\ arrived' = {}

-----------------------------------------------------------------------------
\* SetModList: the profile lock is held throughout, s.mu only to look

SetModList(c, p, requested) ==
    /\ At(c, "idle") /\ ProfilesFree
    /\ LET l == mergeModList(requested, lists[p])
       IN  /\ lists' = [lists EXCEPT ![p] = l]
           /\ index' = Positions(l)
           /\ op' = [op EXCEPT ![c] = [Idle EXCEPT !.kind = "setlist", !.at = "saved", !.profile = p,
                                                   !.entries = l]]
    /\ UNCHANGED <<folder, farm, arrived, faults>>

SetModListLooks(c) ==
    /\ At(c, "saved") /\ StateFree
    /\ IF mounted = op[c].profile THEN Step(c, "seen") ELSE Ends(c)
    /\ UNCHANGED <<store, lists, farm, arrived, faults>>

SetModListMarks(c) ==
    /\ At(c, "seen") /\ Ends(c)
    /\ IF mounted # None THEN MarkDirty(buildLayers(op[c].entries)) ELSE UNCHANGED <<desired, dirty>>
    /\ UNCHANGED <<store, lists, mounted, applied, root, arrived, faults>>

\* RebuildVFS: s.mu is held throughout, the profile lock is not
RebuildVFS(c) ==
    /\ At(c, "idle") /\ StateFree /\ mounted # None /\ ~Busy
    /\ LET names == buildLayers(lists[mounted])
       IN  \/ /\ op' = [op EXCEPT ![c] = [Idle EXCEPT !.kind = "rebuild", !.at = "loaded",
                                                      !.layers = names]]
              /\ root' = Deployed(names, folder) /\ arrived' = {} /\ UNCHANGED faults
           \/ Fault /\ Ends(c) /\ UNCHANGED <<root, arrived>>
    /\ UNCHANGED <<store, lists, mounted, applied, desired, dirty>>

RebuildMarks(c) ==
    /\ At(c, "loaded")
    /\ \/ Step(c, "marked") /\ MarkDirty(op[c].layers) /\ UNCHANGED <<root, faults>>
       \/ /\ Fault /\ Ends(c) /\ root' = Deployed(NamesOf(applied), folder)
          /\ UNCHANGED <<desired, dirty>>
    /\ UNCHANGED <<store, lists, mounted, applied, arrived>>

\* ReMaterialize builds from the layers marked last; when it fails the
\* game-root deployment goes back to what the farm shows
ReMaterialize(c) ==
    /\ At(c, "marked") /\ Ends(c)
    /\ \/ /\ applied' = Deployed(desired, folder) /\ dirty' = FALSE
          /\ UNCHANGED <<root, faults>>
       \/ /\ Fault /\ root' = Deployed(NamesOf(applied), folder)
          /\ UNCHANGED <<applied, dirty>>
    /\ UNCHANGED <<store, lists, mounted, desired, arrived>>

\* MountVFS and retargeting hold both locks; a retarget that fails leaves what was
MountVFS(p) ==
    /\ ProfilesFree /\ StateFree /\ mounted # p /\ ~Busy
    /\ \/ UNCHANGED folder /\ Deploys(p, buildLayers(lists[p])) /\ UNCHANGED faults
       \/ Fault /\ UNCHANGED <<folder, farm, arrived>>
    /\ UNCHANGED <<index, lists, op>>

\* UnmountVFS takes the game-root deployment down first; when the farm will not
\* follow, it is deployed again from the modlist as it is
UnmountVFS ==
    /\ StateFree /\ mounted # None /\ ~Busy
    /\ \/ /\ mounted' = None /\ applied' = <<>> /\ root' = <<>> /\ desired' = <<>> /\ dirty' = FALSE
          /\ arrived' = {} /\ UNCHANGED faults
       \/ /\ Fault /\ root' = Deployed(buildLayers(lists[mounted]), folder)
          /\ UNCHANGED <<mounted, applied, desired, dirty, arrived>>
    /\ UNCHANGED <<store, lists, op>>

\* LaunchExecutable and its end: a tool with scratch output has the farm marked,
\* without any lock
LaunchTool(c) ==
    /\ At(c, "idle") /\ StateFree /\ mounted # None
    /\ op' = [op EXCEPT ![c] = [Idle EXCEPT !.kind = "tool", !.at = "running", !.profile = mounted]]
    /\ UNCHANGED <<store, lists, farm, arrived, faults>>

ToolEnds(c) ==
    /\ At(c, "running")
    /\ op' = [op EXCEPT ![c].at = "imported", ![c].layers = buildLayers(lists[op[c].profile])]
    /\ UNCHANGED <<store, lists, farm, arrived, faults>>

ToolMarks(c) ==
    /\ op[c].kind = "tool" /\ At(c, "imported") /\ Ends(c)
    /\ IF mounted # None THEN MarkDirty(op[c].layers) ELSE UNCHANGED <<desired, dirty>>
    /\ UNCHANGED <<store, lists, mounted, applied, root, arrived, faults>>

-----------------------------------------------------------------------------
\* A new mod: StartInstall and what extracts a mod from Overwrite

StartInstall(c, n) ==
    /\ At(c, "idle") /\ ModsFree({n})
    /\ op' = [op EXCEPT ![c] = [Idle EXCEPT !.kind = "install", !.at = "staged", !.name = n]]
    /\ UNCHANGED <<store, lists, farm, arrived, faults>>

NewFolder(n, c) ==
    /\ folder' = [folder EXCEPT ![n] = c] /\ index' = [index EXCEPT ![n] = 0]
    /\ arrived' = arrived \union {n}

Publish(c) ==
    /\ At(c, "staged")
    /\ \/ folder[op[c].name] = None /\ NewFolder(op[c].name, c) /\ Step(c, "published") /\ UNCHANGED faults
       \/ folder[op[c].name] # None /\ Ends(c) /\ UNCHANGED <<store, arrived, faults>>
       \/ Fault /\ Ends(c) /\ UNCHANGED <<store, arrived>>
    /\ UNCHANGED <<lists, farm>>

\* ExtractOverwriteToMod looks whether the name is free and takes no mod lock
ExtractOverwriteToMod(c, n) ==
    /\ At(c, "idle") /\ folder[n] = None
    /\ op' = [op EXCEPT ![c] = [Idle EXCEPT !.kind = "extract", !.at = "vacant", !.name = n]]
    /\ UNCHANGED <<store, lists, farm, arrived, faults>>

\* MkdirAll: a folder of that name made meanwhile gets the files as well
Extract(c) ==
    /\ At(c, "vacant") /\ Step(c, "published")
    /\ IF folder[op[c].name] = None THEN NewFolder(op[c].name, c) ELSE UNCHANGED <<store, arrived>>
    /\ UNCHANGED <<lists, farm, faults>>

\* appendToModLists: one that cannot be saved is left out
appendToModLists(c) ==
    /\ At(c, "published") /\ ProfilesFree
    /\ IF op[c].kind = "extract" THEN Step(c, "ended") ELSE Ends(c)       \* remembered for Unlocked
    /\ \/ /\ lists' = [p \in Profiles |-> appendToModList(lists[p], op[c].name)] /\ UNCHANGED faults
       \/ /\ Fault
          /\ \E p \in Profiles :
                lists' = [q \in Profiles |-> IF q = p THEN lists[q]
                                             ELSE appendToModList(lists[q], op[c].name)]
    /\ UNCHANGED <<store, farm, arrived>>

-----------------------------------------------------------------------------
\* ReinstallMod, a merge, a replacing install: built aside, swapped under both locks

ReinstallMod(c, n) ==
    /\ At(c, "idle") /\ ModsFree({n}) /\ folder[n] # None
    /\ op' = [op EXCEPT ![c] = [Idle EXCEPT !.kind = "reinstall", !.at = "built", !.name = n,
                                            !.index = index[n]]]
    /\ UNCHANGED <<store, lists, farm, arrived, faults>>

\* edits made to the original while the new folder was built are kept
mergeStageMetadata(c) == IF index[op[c].name] # op[c].index THEN index[op[c].name] ELSE op[c].index

\* a deployed mod is deployed again at once, or everything stays as it was
Swap(c) ==
    LET n == op[c].name
    IN  /\ At(c, "built") /\ ProfilesFree /\ StateFree /\ Ends(c)
        /\ \/ /\ mountedModUsed(n) => ~Busy
              /\ folder' = [folder EXCEPT ![n] = c]
              /\ index' = [index EXCEPT ![n] = mergeStageMetadata(c)]
              /\ IF mountedModUsed(n) THEN Deploys(mounted, buildLayers(lists[mounted]))
                                      ELSE UNCHANGED <<farm, arrived>>
              /\ UNCHANGED faults
           \/ mountedModUsed(n) /\ Busy /\ UNCHANGED <<store, farm, arrived, faults>>
           \/ Fault /\ UNCHANGED <<store, farm, arrived>>
        /\ UNCHANGED lists

-----------------------------------------------------------------------------
\* UninstallMod: lists and farm first, then the folder goes to the trash

UninstallMod(c, n) ==
    /\ At(c, "idle") /\ ModsFree({n}) /\ folder[n] # None
    /\ \E used \in BOOLEAN :            \* force
          op' = [op EXCEPT ![c] = [Idle EXCEPT !.kind = "uninstall", !.at = "checked", !.name = n,
                                               !.used = used]]
    /\ UNCHANGED <<store, lists, farm, arrived, faults>>

\* ModInUseError, without force
InUse(c) == ~op[c].used /\ \E p \in Profiles : Enabled(lists[p], op[c].name)

\* dropFromModListsLocked and the farm without the mod
uninstallModWithFarm(c) ==
    LET n    == op[c].name
        used == mountedModUsed(n)
    IN  /\ At(c, "checked") /\ ProfilesFree /\ StateFree
        /\ \/ /\ InUse(c) \/ (used /\ Busy)
              /\ Ends(c) /\ UNCHANGED <<store, lists, farm, arrived, faults>>
           \/ Fault /\ Ends(c) /\ UNCHANGED <<store, lists, farm, arrived>>    \* rolled back
           \/ /\ ~InUse(c) /\ (used => ~Busy)
              /\ lists' = [p \in Profiles |-> Without(lists[p], n)]
              /\ \/ /\ folder' = [folder EXCEPT ![n] = None]
                    /\ (IF used THEN Ends(c) ELSE Step(c, "after")) /\ UNCHANGED faults
                 \/ /\ Fault /\ Ends(c)         \* the trash: not moved, or not known to last
                    /\ folder' \in {folder, [folder EXCEPT ![n] = None]}
              /\ IF used THEN Deploys(mounted, buildLayers(Without(lists[mounted], n)))
                         ELSE UNCHANGED <<farm, arrived>>
              /\ UNCHANGED index

markMountedProfileDirty(c) ==
    /\ At(c, "after") /\ ProfilesFree /\ StateFree /\ Ends(c)
    /\ IF mounted # None THEN MarkDirty(buildLayers(lists[mounted])) ELSE UNCHANGED <<desired, dirty>>
    /\ UNCHANGED <<store, lists, mounted, applied, root, arrived, faults>>

-----------------------------------------------------------------------------
\* RenameMod: the folder, then each modlist, then the farm

RenameMod(c, n, to) ==
    /\ At(c, "idle") /\ n # to /\ ModsFree({n, to}) /\ folder[n] # None /\ folder[to] = None
    /\ op' = [op EXCEPT ![c] = [Idle EXCEPT !.kind = "rename", !.at = "locked", !.name = n, !.to = to]]
    /\ UNCHANGED <<store, lists, farm, arrived, faults>>

Moves(f, n, to, new) == [f EXCEPT ![to] = f[n], ![n] = new]

renameModFolder(c) ==
    LET n == op[c].name  to == op[c].to
    IN  /\ At(c, "locked") /\ ProfilesFree /\ StateFree
        /\ \/ /\ folder[to] # None \/ folder[n] = None \/ (mountedModUsed(n) /\ Busy)
              /\ Ends(c) /\ UNCHANGED <<store, faults>>
           \/ /\ folder[to] = None /\ folder[n] # None /\ (mountedModUsed(n) => ~Busy)
              /\ folder' = Moves(folder, n, to, None) /\ index' = Moves(index, n, to, 0)
              /\ op' = [op EXCEPT ![c].at = "moved", ![c].lists = lists, ![c].used = mountedModUsed(n)]
              /\ UNCHANGED faults
           \/ Fault /\ Ends(c) /\ UNCHANGED store
        /\ UNCHANGED <<lists, farm, arrived>>

\* the folder and every modlist are what they were; a folder extracted under the
\* old name meanwhile is in the way
restoreRenamedModLocked(c) ==
    /\ IF folder[op[c].name] = None
       THEN /\ folder' = Moves(folder, op[c].to, op[c].name, None)
            /\ index' = Moves(index, op[c].to, op[c].name, 0) /\ UNCHANGED arrived
       ELSE arrived' = arrived \union {op[c].to} /\ UNCHANGED store
    /\ lists' = op[c].lists /\ Ends(c)

\* one profile after the other; a failing one does not keep the rest back
renameInModLists(c) ==
    LET n == op[c].name  to == op[c].to
        stale == {p \in Profiles : Listed(p, n)}
    IN  /\ At(c, "moved")
        /\ \/ /\ \E p \in stale : lists' = [lists EXCEPT ![p] = Renamed(@, n, to)]
              /\ UNCHANGED <<store, op, arrived, faults>>
           \/ stale # {} /\ Fault /\ restoreRenamedModLocked(c)
           \/ stale = {} /\ Step(c, "listed") /\ UNCHANGED <<store, lists, arrived, faults>>
        /\ UNCHANGED farm

\* a deployed mod is deployed under its new name, or all of it is taken back
RenameDeploys(c) ==
    /\ At(c, "listed")
    /\ \/ /\ op[c].used /\ UNCHANGED store /\ Deploys(mounted, buildLayers(lists[mounted]))
          /\ UNCHANGED <<lists, faults>> /\ Ends(c)
       \/ /\ ~op[c].used /\ Ends(c)
          /\ IF mounted # None THEN MarkDirty(buildLayers(lists[mounted])) ELSE UNCHANGED <<desired, dirty>>
          /\ UNCHANGED <<store, lists, mounted, applied, root, arrived, faults>>
       \/ op[c].used /\ Fault /\ restoreRenamedModLocked(c) /\ UNCHANGED farm

-----------------------------------------------------------------------------
\* ImportInstance with a bundle of the mod n and the profile p that enables it

ImportInstance(c, n, p, policy) ==
    /\ At(c, "idle") /\ ProfilesFree /\ StateFree
    /\ policy = "abort" => folder[n] = None /\ p = None
    /\ policy = "overwrite" => /\ p = None \/ mounted # p             \* refuseMountedOverwrites
                               /\ folder[n] = None \/ ~mountedModUsed(n)
    /\ op' = [op EXCEPT ![c] = [Idle EXCEPT !.kind = "import", !.at = "extracted", !.name = n,
                                            !.profile = p, !.policy = policy,
                                            !.entries = <<[name |-> n, on |-> TRUE]>>]]
    /\ UNCHANGED <<store, lists, farm, arrived, faults>>

\* CheckReplacement, under s.mu
CheckReplacement(c, n) == op[c].policy = "overwrite" => ~mountedModUsed(n)

\* finalizeMod takes the mod's lock and the profile lock
finalizeMod(c) ==
    LET n == op[c].name
    IN  /\ At(c, "extracted") /\ ModsFree({n}) /\ ProfilesFree /\ StateFree
        /\ \/ CheckReplacement(c, n) /\ Step(c, "allowed")
           \/ ~CheckReplacement(c, n) /\ Ends(c)
        /\ UNCHANGED <<store, lists, farm, arrived, faults>>

\* ... and keeps, renames or replaces
Imports(c) ==
    LET n == op[c].name
    IN  /\ At(c, "allowed")
        /\ \/ folder[n] = None /\ NewFolder(n, c) /\ Step(c, "imported") /\ UNCHANGED faults
           \/ /\ folder[n] # None /\ op[c].policy = "skip"
              /\ Step(c, "imported") /\ UNCHANGED <<store, arrived, faults>>
           \/ /\ folder[n] # None /\ op[c].policy = "rename"
              /\ \E new \in Names :
                    /\ folder[new] = None /\ NewFolder(new, c)
                    /\ op' = [op EXCEPT ![c].at = "imported",
                                        ![c].entries = Renamed(op[c].entries, n, new)]
              /\ UNCHANGED faults
           \/ /\ folder[n] # None
              /\ \/ op[c].policy = "abort"
                 \/ op[c].policy = "rename" /\ \A new \in Names : folder[new] # None
              /\ Ends(c) /\ UNCHANGED <<store, arrived, faults>>
           \/ /\ folder[n] # None /\ op[c].policy = "overwrite"
              /\ folder' = [folder EXCEPT ![n] = None] /\ index' = [index EXCEPT ![n] = 0]
              /\ Step(c, "aside") /\ UNCHANGED <<arrived, faults>>
           \/ Fault /\ Ends(c) /\ UNCHANGED <<store, arrived>>
        /\ UNCHANGED <<lists, farm>>

\* a folder made meanwhile is in the way; the old one stays aside until a restart
Replaces(c) ==
    /\ At(c, "aside")
    /\ IF folder[op[c].name] = None THEN NewFolder(op[c].name, c) /\ Step(c, "imported")
                                    ELSE UNCHANGED <<store, arrived>> /\ Ends(c)
    /\ UNCHANGED <<lists, farm, faults>>

\* finalizeProfile: the mounted profile is not overwritten
finalizeProfile(c) ==
    /\ At(c, "imported") /\ op[c].kind = "import" /\ ProfilesFree /\ StateFree /\ Ends(c)
    /\ LET replace == op[c].policy = "overwrite" /\ op[c].profile \notin {None, mounted}
       IN  \/ replace /\ lists' = [lists EXCEPT ![op[c].profile] = op[c].entries] /\ UNCHANGED faults
           \/ ~replace /\ UNCHANGED <<lists, faults>>
           \/ Fault /\ UNCHANGED lists
    /\ UNCHANGED <<store, farm, arrived>>

-----------------------------------------------------------------------------
\* a library at rest: what is enabled, and what was when it was last deployed
Init ==
    /\ folder = [n \in Names |-> IF n \in Installed THEN n ELSE None]
    /\ index = [n \in Names |-> 0]
    /\ \E on \in [Profiles -> BOOLEAN] :
          lists = [p \in Profiles |-> [i \in 1..Cardinality(Installed) |->
                      [name |-> SetToSeq(Installed)[i], on |-> on[p]]]]
    /\ mounted \in Profiles \union {None}
    /\ desired = IF mounted = None THEN <<>> ELSE buildLayers(lists[mounted])
    /\ \E last \in {<<>>, SetToSeq(Installed)} :
          /\ mounted = None => last = <<>>
          /\ applied = Deployed(last, folder) /\ dirty = (last # desired)
    /\ root = applied
    /\ op = [c \in Calls |-> Idle] /\ arrived = {} /\ faults = 0

Arranging(c) ==
    \/ \E p \in Profiles, l \in Requests : SetModList(c, p, l)
    \/ SetModListLooks(c) \/ SetModListMarks(c)

Deploying(c) == RebuildVFS(c) \/ RebuildMarks(c) \/ ReMaterialize(c) \/ LaunchTool(c) \/ ToolEnds(c) \/ ToolMarks(c)

Installing(c) ==
    \/ \E n \in Names : StartInstall(c, n) \/ ExtractOverwriteToMod(c, n) \/ ReinstallMod(c, n)
    \/ Publish(c) \/ Extract(c) \/ appendToModLists(c) \/ Swap(c)

Removing(c) ==
    \/ \E n \in Names : UninstallMod(c, n)
    \/ uninstallModWithFarm(c) \/ markMountedProfileDirty(c)

Renaming(c) ==
    \/ \E n, to \in Names : RenameMod(c, n, to)
    \/ renameModFolder(c) \/ renameInModLists(c) \/ RenameDeploys(c)

Importing(c) ==
    \/ \E n \in Names, p \in Profiles \union {None}, policy \in Policies : ImportInstance(c, n, p, policy)
    \/ finalizeMod(c) \/ Imports(c) \/ Replaces(c) \/ finalizeProfile(c)

Next ==
    \/ \E c \in Calls : \/ Arranging(c) \/ Deploying(c) \/ Installing(c)
                         \/ Removing(c) \/ Renaming(c) \/ Importing(c)
    \/ \E p \in Profiles : MountVFS(p)
    \/ UnmountVFS

Spec == Init /\ [][Next]_vars

-----------------------------------------------------------------------------
\* a folder that was extracted without the lock of its mod
Unlocked(n) == \E c \in Calls : op[c].kind = "extract" /\ op[c].name = n

\* What is deployed is what the library holds: no call takes away or replaces
\* the folder of a mod the live farm or the game-root deployment shows, though
\* applying takes none of the locks an import holds (mountedModUsedLocked,
\* CheckReplacement, checkMountedModChangeLocked).
DeployedIsCurrent ==
    StateFree => \A s \in {applied, root} : \A i \in DOMAIN s :
                    folder[s[i].name] = s[i].folder \/ Unlocked(s[i].name)

\* While the status shows no pending changes, farm and game-root deployment show
\* the enabled mods of the mounted modlist in its order; only folders that came
\* since are missing (SetModList, rebuildVFSOwned, LaunchExecutable's end,
\* retargeting and the rollbacks).
CleanMeansDeployed ==
    mounted # None /\ ~dirty /\ StateFree
    /\ (\A c \in Calls : op[c].at \in {"saved", "seen"} => op[c].profile # mounted) =>
       LET Known(names) == SelectSeq(names, LAMBDA n : n \notin arrived)
       IN  \A s \in {applied, root} : Known(NamesOf(s)) = Known(buildLayers(lists[mounted]))

\* the library as it was before a rename in progress
InRename    == {c \in Calls : op[c].at \in {"moved", "listed"}}
LastLists   == IF InRename = {} THEN lists ELSE op[CHOOSE c \in InRename : TRUE].lists
LastFolder  == IF InRename = {} THEN folder
               ELSE LET c == CHOOSE c \in InRename : TRUE
                    IN  Moves(folder, op[c].to, op[c].name, None)
Switches(p, k) == {LastLists[p][i].on : i \in {i \in DOMAIN LastLists[p] :
                                                  LastFolder[LastLists[p][i].name] = k}}

\* A mod that is installed and listed in a profile stays listed there, enabled or
\* not as it was, through installs, renames and their rollbacks, and lists sent
\* by clients that did not know of it; it leaves only when it is uninstalled, and
\* without force only when it is enabled nowhere (mergeModList, renameInModLists,
\* restoreModListsLocked, dropFromModListsLocked).  Out of it are what an import
\* replaces, a rename to a name the modlist still has without a folder and one
\* whose old name was extracted to meanwhile.
SwitchesKept ==
    <<lists, folder, InRename>>' # <<lists, folder, InRename>> =>
    \A p \in Profiles, k \in Folders :
          Switches(p, k) # {} /\ Switches(p, k)' # Switches(p, k) =>
             \/ \E c \in Calls : /\ At(c, "idle") /\ At(c, "saved")' /\ op'[c].profile = p
                                 /\ Switches(p, k)' # {}
             \/ \E c \in Calls : /\ op[c].kind = "uninstall" /\ LastFolder[op[c].name] = k
                                 /\ TRUE \in Switches(p, k) => op[c].used
             \/ \E c \in Calls : op[c].kind = "import" /\ op[c].profile = p /\ op[c].policy = "overwrite"
             \/ \E c \in Calls : At(c, "allowed") /\ folder[op[c].name] = k
             \/ \E c \in Calls : /\ op[c].kind = "reinstall" /\ folder[op[c].name] = k
                                 /\ lists' = lists
             \/ \E c \in InRename : Unlocked(op[c].name) \/ \E i \in DOMAIN LastLists[p] : LastLists[p][i].name = op[c].to

\* The position SetModList wrote into a mod's metadata survives a merge or
\* reinstall that began before (mergeStageMetadata, mergedReinstallMetadata).
EditsSurvive ==
    \A n \in Names :
          folder[n] # None /\ folder'[n] # None /\ index'[n] # index[n] =>
             \E c \in Calls : At(c, "idle") /\ At(c, "saved")'
=============================================================================
