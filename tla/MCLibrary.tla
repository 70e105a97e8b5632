------------------------------ MODULE MCLibrary ------------------------------
(***************************************************************************)
(* The components that keep the mods and say what they are, side by side:  *)
(* the library of mods, profiles and what is deployed of it (ModLibrary),  *)
(* requests for missing dependencies (ModDeps), the merged tree and the    *)
(* capture of what the game writes into it (FarmTree), the analysis of     *)
(* SMAPI manifests (Manifests), archive rows (ArchiveRows) and the         *)
(* installation of archives (Installs).                                    *)
(*                                                                         *)
(* A behaviour is one of one part: the parts take turns at the variables   *)
(* x1 to x18, and an INSTANCE says what each is called there.              *)
(***************************************************************************)
EXTENDS Naturals, FiniteSets, SequencesExt, TLC

CONSTANTS
    Parts,          \* the parts that are run
    a1, a2,         \* two calls, users or clients
    p1, p2,         \* two profiles
    None

VARIABLES part,
    x1, x2, x3, x4, x5, x6, x7, x8, x9, x10, x11, x12, x13, x14, x15, x16, x17, x18
vars == <<part,
    x1, x2, x3, x4, x5, x6, x7, x8, x9, x10, x11, x12, x13, x14, x15, x16, x17, x18>>

Both == {a1, a2}
Symmetry == Permutations(Both) \cup Permutations({p1, p2})

-----------------------------------------------------------------------------
(* Requests: the second fetch asks for more, for another profile.          *)

OneTwo   == {1, 2}
JustOne  == {1}
JustTwo  == {2}
OneId    == {"u"}
TwoIds   == {"u", "v"}
Asked    == [f \in OneTwo |-> OneId]
BothIds  == [f \in JustOne |-> TwoIds]
Wanted   == [f \in OneTwo |-> IF f = 1 THEN "p" ELSE "q"]
MainFile == [d \in OneTwo |-> "main"]
Provided == [m \in {"main", "other"} |-> {"u"}]

-----------------------------------------------------------------------------
(* Trees: the vanilla game, a mod and the overwrite folder.                *)

Dir     == [k |-> "dir"]
File    == [k |-> "file"]
Rel(to) == [k |-> "link", abs |-> FALSE, to |-> to]
Abs(to) == [k |-> "link", abs |-> TRUE, to |-> to]

Entries   == <<"..", "A", "Data", "a", "b", "d", "game", "meta", "x">>
Folds     == [n \in ToSet(Entries) |-> IF n = "A" THEN "a" ELSE n]
Folders   == <<<<"game", "Data.orig">>, <<"mods", "m">>, <<"mods", "over">>>>
FarmFolder == <<"game", "Data">>
Reserved   == {"meta"}
OtherDevices == {{}, {2}}
Reads      == {<<"a">>, <<"b">>, <<"d", "b">>}
Beside    == <<"game", "x">> :> Dir @@ <<"game", "x", "b">> :> File @@ <<"game", "x", "d">> :> Rel(<<"b">>)
             @@ <<"game", "x", "x">> :> Rel(<<".">>)

\* links: to a sibling, up, out of the deploy folder and back into it, to the
\* folder beside it, to themselves, to nothing, and to where a layer is kept
Targets == {Rel(<<"b">>), Rel(<<"..", "b">>), Rel(<<"A">>), Rel(<<"d">>), Rel(<<"..", "Data", "b">>),
            Rel(<<"..", "..", "Data", "d">>), Rel(<<"..", "x">>), Rel(<<"..", "x", "b">>),
            Rel(<<"..", "..", "x", "d">>), Abs(<<"mods", "m", "b">>), Abs(<<"game", "x">>)}

\* back to the folder they are in: the view takes a link to such a link for a broken one
Loops == {Rel(<<"..", "..", "Data", "d">>)}

\* small trees of the vanilla game and of a mod
Vanillas == {<<>>, <<"b">> :> File, <<"d">> :> Dir, <<"d">> :> File,
             <<"a">> :> File @@ <<"b">> :> File,
             <<"d">> :> Dir @@ <<"d", "b">> :> File @@ <<"A">> :> File}
LinkTrees(T) == {<<"a">> :> t @@ <<"b">> :> File @@ <<"d">> :> Dir : t \in T}
     \union {<<"d">> :> Dir @@ <<"d", "a">> :> t @@ <<"meta">> :> File @@ <<"b">> :> File : t \in T}
     \union {<<"d">> :> Dir @@ <<"d", "a">> :> t @@ <<"d", "b">> :> u : t \in T, u \in T \ Loops}
Plains == {<<"A">> :> File @@ <<"a">> :> File, <<"meta">> :> File @@ <<"d">> :> Dir @@ <<"d", "meta">> :> File,
           <<"d">> :> File @@ <<"A">> :> Dir @@ <<"A", "b">> :> File, <<"b">> :> Dir @@ <<"b", "a">> :> File,
           <<"A">> :> Dir @@ <<"a">> :> Dir @@ <<"A", "b">> :> File @@ <<"a", "b">> :> File}
Overs  == {<<>>, <<"b">> :> File, <<"d">> :> Dir @@ <<"d", "b">> :> File}

Trees == {<<v, m, o>> : v \in Vanillas, m \in Plains \union LinkTrees(Targets), o \in Overs}
Plays == {<<<<"a">> :> File, <<"d">> :> Dir @@ <<"d", "b">> :> File, <<>>>>}
Chosen == Trees \cup Plays

-----------------------------------------------------------------------------
(* Manifests: up to three folders; IDs are named in the order they first   *)
(* appear, "d" is provided by nothing but a disabled mod.                  *)

Part(text, value, rank) == [text |-> text, value |-> value, rank |-> rank, unofficial |-> FALSE]
Numbered(n) == [number |-> n, tag |-> <<>>]
Pre(n, parts) == [number |-> n, tag |-> parts]
One == Numbered(1)
Two == Numbered(2)
TwoBeta == Pre(2, <<Part("beta", None, 5), Part("2", 2, 3)>>)

Dep(id, minimum, required) == [id |-> id, minimum |-> minimum, required |-> required]
Comp(id, version, deps, flaw) == [id |-> id, version |-> version, deps |-> deps, flaw |-> flaw]
Ids == {"a", "b", "c", "d"}
Lists == {<<>>} \cup {<<Dep(id, m, r)>> : id \in Ids, m \in {None, Two}, r \in BOOLEAN}
    \cup {<<Dep("d", TwoBeta, TRUE), Dep("d", One, TRUE)>>,
          <<Dep("c", None, TRUE), Dep("d", Two, FALSE)>>, <<Dep("d", TwoBeta, TRUE)>>}
Called(id) ==
    {Comp(id, v, l, "none") : v \in {One, TwoBeta}, l \in Lists}
    \cup {Comp(id, Two, <<>>, f) : f \in {"none", "field", "loader"}}
    \cup {Comp(None, One, <<>>, "parse")}
ModFolders == <<Called("a"),
    {c \in Called("b") \cup Called("a") : c.version # TwoBeta \/ c.deps = <<>>},
    {c \in Called("c") : c.version = One \/ c.deps = <<>>} \cup {Comp("a", One, <<>>, "none")}>>
Disabled == {Comp("d", v, <<>>, "none") : v \in {One, Two, TwoBeta}} \cup {Comp("d", Two, <<>>, "field")}

-----------------------------------------------------------------------------
(* The library: two mods, and the lists of mods that clients send.  The    *)
(* values of constants that are sets have names: TLC evaluates those once. *)

TwoMods  == {"a", "b"}
FirstMod == {"a"}
TwoProfiles == {p1, p2}
ModLists == {l \in BoundedSeq([name : TwoMods, on : BOOLEAN], 2) :
                \A i, j \in DOMAIN l : l[i].name = l[j].name => i = j}

-----------------------------------------------------------------------------
(* Archives: the one that is installed brings a file more than the mod has. *)

OneArchive == {"archive"}
OneRequest == {"request"}
OldFiles   == {"f"}
NewFiles   == {"f", "g"}

-----------------------------------------------------------------------------
Library == INSTANCE ModLibrary WITH
    Names <- TwoMods, Installed <- FirstMod, Profiles <- TwoProfiles, Calls <- Both,
    Requests <- ModLists,
    MaxFaults <- 1, folder <- x1, index <- x2, lists <- x3, mounted <- x4,
    applied <- x5, root <- x6, desired <- x7, dirty <- x8, op <- x9, arrived <- x10,
    faults <- x11

Deps == INSTANCE ModDeps WITH
    Uid <- OneId, Fetch <- OneTwo, Download <- OneTwo, Browser <- {},
    IdsOf <- Asked, ProfileOf <- Wanted, FileOf <- MainFile, Provides <- Provided,
    MaxFaults <- 1, doc <- x1, failures <- x2, dl <- x3, mods <- x4, lists <- x5,
    outcome <- x6, failing <- x7, fetch <- x8, job <- x9, resume <- x10, up <- x11,
    faults <- x12, missed <- x13, removed <- x14, slipped <- x15, late <- x16,
    across <- x17, uuids <- x18

\* One request, with a download the user may start in the browser.
Links == INSTANCE ModDeps WITH
    Uid <- TwoIds, Fetch <- JustOne, Download <- OneTwo, Browser <- JustTwo,
    IdsOf <- BothIds, ProfileOf <- Wanted, FileOf <- MainFile, Provides <- Provided,
    MaxFaults <- 2, doc <- x1, failures <- x2, dl <- x3, mods <- x4, lists <- x5,
    outcome <- x6, failing <- x7, fetch <- x8, job <- x9, resume <- x10, up <- x11,
    faults <- x12, missed <- x13, removed <- x14, slipped <- x15, late <- x16,
    across <- x17, uuids <- x18

Tree == INSTANCE FarmTree WITH
    Alphabet <- Entries, Fold <- Folds, Internal <- Reserved, Top <- 3,
    Roots <- Folders, LayerChoices <- Chosen, Outside <- Beside,
    FarmRoot <- FarmFolder, Devices <- OtherDevices, Playable <- Plays,
    GamePaths <- Reads, MaxHops <- 3, MaxMoves <- 4,
    Depth <- 3, layers <- x1, elsewhere <- x2, store <- x3, legacy <- x4, phase <- x5,
    farm <- x6, manifest <- x7, over <- x8, placed <- x9, replaced <- x10, moves <- x11

Loader == INSTANCE Manifests WITH
    Folders <- ModFolders, Spares <- Disabled, MaxActive <- 3, Sole <- 2, active <- x1,
    disabled <- x2

Rows == INSTANCE ArchiveRows WITH
    Mods <- OneTwo, Archives <- OneArchive, Users <- Both, MaxOps <- 3, folder <- x1,
    file <- x2, index <- x3, cache <- x4, pushed <- x5, op <- x6, begun <- x7,
    overtaken <- x8

Installs == INSTANCE Installs WITH
    Clients <- Both, Requests <- OneRequest, Archive <- NewFiles, Before <- OldFiles,
    MaxPreviews <- 1, MaxOutcomes <- 1, MaxExtractions <- 2, MaxRequests <- 2,
    MaxKills <- 1, disk <- x1, previews <- x2, order <- x3, doomed <- x4, left <- x5,
    mod <- x6, flag <- x7, outcome <- x8, did <- x9, op <- x10, made <- x11,
    asked <- x12, kills <- x13

\* What the parts ask of their constants.
ASSUME Library!InstalledAssumption /\ Deps!BrowserAssumption /\ Links!BrowserAssumption
       /\ Rows!RowsAssumption /\ Installs!InstallsAssumption

-----------------------------------------------------------------------------
Init ==
    /\ part \in Parts
    /\ \/ /\ part = "library" /\ Library!Init /\ x12 = 0 /\ x13 = 0 /\ x14 = 0
          /\ x15 = 0 /\ x16 = 0 /\ x17 = 0 /\ x18 = 0
       \/ part = "deps" /\ Deps!Init
       \/ part = "links" /\ Links!Init
       \/ /\ part = "tree" /\ Tree!Init /\ x12 = 0 /\ x13 = 0 /\ x14 = 0 /\ x15 = 0
          /\ x16 = 0 /\ x17 = 0 /\ x18 = 0
       \/ /\ part = "manifests" /\ Loader!Init /\ x3 = 0 /\ x4 = 0 /\ x5 = 0 /\ x6 = 0
          /\ x7 = 0 /\ x8 = 0 /\ x9 = 0 /\ x10 = 0 /\ x11 = 0 /\ x12 = 0 /\ x13 = 0
          /\ x14 = 0 /\ x15 = 0 /\ x16 = 0 /\ x17 = 0 /\ x18 = 0
       \/ /\ part = "rows" /\ Rows!Init /\ x9 = 0 /\ x10 = 0 /\ x11 = 0 /\ x12 = 0
          /\ x13 = 0 /\ x14 = 0 /\ x15 = 0 /\ x16 = 0 /\ x17 = 0 /\ x18 = 0
       \/ /\ part = "installs" /\ Installs!Init /\ x14 = 0 /\ x15 = 0 /\ x16 = 0
          /\ x17 = 0 /\ x18 = 0

LibraryNext ==
    /\ part = "library" /\ Library!Next
    /\ UNCHANGED <<part, x12, x13, x14, x15, x16, x17, x18>>
DepsNext == part = "deps" /\ Deps!Next /\ UNCHANGED part
LinksNext == part = "links" /\ Links!Next /\ UNCHANGED part
TreeNext ==
    /\ part = "tree" /\ Tree!Next
    /\ UNCHANGED <<part, x12, x13, x14, x15, x16, x17, x18>>
LoaderNext ==
    /\ part = "manifests" /\ Loader!Next
    /\ UNCHANGED <<part, x3, x4, x5, x6, x7, x8, x9, x10, x11, x12, x13, x14, x15, x16, x17,
                 x18>>
RowsNext ==
    /\ part = "rows" /\ Rows!Next
    /\ UNCHANGED <<part, x9, x10, x11, x12, x13, x14, x15, x16, x17, x18>>
InstallsNext ==
    /\ part = "installs" /\ Installs!Next
    /\ UNCHANGED <<part, x14, x15, x16, x17, x18>>

Next ==
    \/ LibraryNext \/ DepsNext \/ LinksNext \/ TreeNext \/ LoaderNext
    \/ RowsNext \/ InstallsNext

Spec == Init /\ [][Next]_vars

-----------------------------------------------------------------------------
\* Every variable keeps its type.
Typed ==
    /\ part = "library" => Library!TypeOK
    /\ part = "deps" => Deps!TypeOK
    /\ part = "links" => Links!TypeOK
    /\ part = "rows" => Rows!TypeOK
    /\ part = "installs" => Installs!TypeOK

\* What is deployed is what the library holds, and shown as clean only when it is
\* what the mounted profile asks for, through every install, uninstall, rename,
\* import and launch (vfs_service.go:531, launch.go:71, mod_deployment.go).
Deployed == part = "library" => Library!DeployedIsCurrent /\ Library!CleanMeansDeployed

\* No step takes away what the user did: a mod's place and switch in a profile, an
\* edit of its position, a pending enable, what the game wrote into the farm, the
\* files of a mod while a merge is prepared (mods.go, moddeps.go, farm_capture.go,
\* merge.go:18).
WorkSurvives ==
    [][/\ part = "library" => Library!SwitchesKept /\ Library!EditsSurvive
       /\ part = "deps" => Deps!EnablesKept
       /\ part = "links" => Links!EnablesKept
       /\ part = "tree" => Tree!NothingLost
       /\ part = "installs" => Installs!ChangesAtOnce]_vars

\* A request for a dependency never waits for nothing, is answered with a mod that
\* provides it, and does not run into its own install (moddeps.go, depreqs.go).
RequestsServed ==
    /\ part = "deps" => Deps!WaitingIsServed /\ Deps!PendingProvides /\ Deps!OwnInstallAdopted
    /\ part = "links" => Links!WaitingIsServed /\ Links!PendingProvides /\ Links!OwnInstallAdopted

\* What is in the farm is what the layers say, what tools are shown of it is what
\* the game sees, and what the game wrote is told from what was placed
\* (tree.go, materialize.go, moddeps_view.go, farm_classification.go:16).
TreeAsLayered ==
    part = "tree" => Tree!MergedAsLayered /\ Tree!ViewIsFarm /\ Tree!OutputIsOutput

\* The report on SMAPI mods: what loads can, what fails says why, and what is
\* offered helps (analyze.go).
ReportsTrue ==
    part = "manifests" =>
        /\ Loader!LoadsClosed /\ Loader!FailuresExplained
        /\ Loader!OffersHelp /\ Loader!MinimumIsHighest

\* An installation reads a whole archive, leaves nothing behind and is reported as
\* it ended, once (preview_cache.go:83, install_outcome.go:75).
InstallsTrue ==
    part = "installs" => Installs!ReadsWhole /\ Installs!NothingLeaks /\ Installs!OutcomeIsTrue

\* At rest the map of installed archives in memory is that of the mods' metadata
\* (session.go:432); the other parts keep the types of what they remember.
CacheIsTrue == Typed /\ (part = "rows" => Rows!CacheIsTrue)
=============================================================================
