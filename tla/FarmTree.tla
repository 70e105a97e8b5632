------------------------------ MODULE FarmTree ------------------------------
(***************************************************************************)
(* What a farm holds (internal/vfs: tree.go, walk.go, materialize.go,      *)
(* farm_manifest.go, farm_classification.go) and what the dependency       *)
(* report believes it will hold (daemon/moddeps_view.go).                  *)
(*                                                                         *)
(* Layers are merged into one tree without case; the tree is placed as     *)
(* hard links, or as absolute links where a file is on another device; the *)
(* game then works in the farm, and what it made is told from what was     *)
(* placed by inode.  The view predicts the farm without building it.       *)
(*                                                                         *)
(* Abstracted: a path is a sequence of names and a name's case is Fold;    *)
(* the content of a file is a token; the forty links a chain may have are  *)
(* MaxHops.                                                                *)
(***************************************************************************)
EXTENDS Naturals, Sequences, FiniteSets, SequencesExt

CONSTANTS
    Alphabet, Fold,         \* the names of entries in byte order, and each one's lower case
    Internal,               \* names a mod keeps at its root for the program itself
    Top, Roots,             \* layers are 1..Top: 1 the vanilla game, Top the overwrite; their folders
    LayerChoices,           \* what the layers may hold: functions from relative paths to nodes
    Outside, FarmRoot,      \* the rest of the disk, and the deploy folder
    Devices,                \* which layers may be on another device than the farm: sets of layers
    Playable, GamePaths,    \* choices in which the game plays, and where it writes
    MaxHops, MaxMoves, Depth   \* bounds: links followed, things the game does, listings compared

VARIABLES
    layers,                 \* the content of each layer
    elsewhere,              \* the layers on another device
    store,                  \* layer, path -> inode and token of its file or link
    legacy,                 \* no manifest can be read: the link-count rule applies
    phase,
    farm,                   \* relative path -> node, with inode and token
    manifest,               \* relative path -> what was placed: inode, type, target
    over,                   \* output in the overwrite folder
    placed,                 \* history: the token placed at a path
    replaced,               \* history: a file of a layer was replaced under the farm
    moves                   \* bound

vars == <<layers, elsewhere, store, legacy, phase, farm, manifest, over, placed, replaced, moves>>

Layers == 1..Top
Nowhere == <<"">>

Dir      == [k |-> "dir"]
File     == [k |-> "file"]
Rel(to)  == [k |-> "link", abs |-> FALSE, to |-> to]
Abs(to)  == [k |-> "link", abs |-> TRUE, to |-> to]

With(f, x, v) == [y \in DOMAIN f \union {x} |-> IF y = x THEN v ELSE f[y]]
Without(f, S) == [y \in DOMAIN f \ S |-> f[y]]

-----------------------------------------------------------------------------
\* The kernel's file system

\* every folder, file and link there is, by absolute path
Disk(f) ==
    LET inLayers == {<<Roots[i] \o p, layers[i][p]>> : <<i, p>> \in
                        UNION {{<<i, p>> : p \in DOMAIN layers[i]} : i \in Layers}}
        inFarm   == {<<FarmRoot \o p, f[p].node>> : p \in DOMAIN f}
        all      == inLayers \union inFarm \union {<<p, Outside[p]>> : p \in DOMAIN Outside}
        named    == {x[1] : x \in all}
        folders  == UNION {Prefixes(p) : p \in named \union {FarmRoot} \union {Roots[i] : i \in Layers}}
    IN  [p \in named \union folders |->
            IF p \in named THEN (CHOOSE x \in all : x[1] = p)[2] ELSE Dir]

RECURSIVE Follow(_, _, _, _)
\* where a path leads, links followed; ".." is the parent of the folder reached
Follow(disk, at, rest, hops) ==
    IF rest = <<>> THEN at
    ELSE IF disk[at].k # "dir" THEN Nowhere
    ELSE IF Head(rest) = ".." THEN Follow(disk, IF at = <<>> THEN at ELSE Front(at), Tail(rest), hops)
    ELSE LET next == Append(at, Head(rest)) IN
         IF next \notin DOMAIN disk THEN Nowhere
         ELSE IF disk[next].k # "link" THEN Follow(disk, next, Tail(rest), hops)
         ELSE IF hops = 0 THEN Nowhere
         ELSE Follow(disk, IF disk[next].abs THEN <<>> ELSE at, disk[next].to \o Tail(rest), hops - 1)

Stat(disk, path) == Follow(disk, <<>>, path, MaxHops)
Listing(disk, at) == {Last(p) : p \in {q \in DOMAIN disk : q # <<>> /\ Front(q) = at}}

OtherDevice(path) == \E i \in elsewhere : IsPrefix(Roots[i], path)

-----------------------------------------------------------------------------
\* Merging the layers

Folded(p) == [i \in DOMAIN p |-> Fold[p[i]]]

\* os.ReadDir's order, entries of a folder after the folder
ByteOrder(n) == CHOOSE i \in DOMAIN Alphabet : Alphabet[i] = n
Precedes(p, q) ==
    \/ IsStrictPrefix(p, q)
    \/ \E i \in DOMAIN p \intersect DOMAIN q :
            /\ \A j \in 1..(i - 1) : p[j] = q[j]
            /\ ByteOrder(p[i]) < ByteOrder(q[i])

\* walkDir's entries: those of a mod's root that are the program's are left out
Visited(i) == {p \in DOMAIN layers[i] : i = 1 \/ Fold[p[1]] \notin Internal}

WalkLayers ==
    FlattenSeq([i \in Layers |-> SetToSortSeq({<<i, p>> : p \in Visited(i)},
                                             LAMBDA x, y : Precedes(x[2], y[2]))])

\* Mutant: a later layer's spelling and type win.
LastSeen(kids, key, kid) == With(kids, key, kid)

\* the first entry seen of a name gives its spelling and its type
FirstSeen(kids, key, kid) == IF key \in DOMAIN kids THEN kids ELSE With(kids, key, kid)

\* MergedTree.Build's visitor, and farmView.apply, which keeps the real folders too
Visit(tree, e) ==
    LET vpath  == Folded(e[2])
        isDir  == layers[e[1]][e[2]].k = "dir"
        kids   == IF Front(vpath) \in DOMAIN tree.dirs THEN tree.dirs[Front(vpath)] ELSE <<>>
        grown  == With(tree.dirs, Front(vpath),
                       FirstSeen(kids, Last(vpath), [name |-> Last(e[2]), dir |-> isDir]))
    IN  [dirs  |-> IF isDir /\ vpath \notin DOMAIN grown THEN With(grown, vpath, <<>>) ELSE grown,
         files |-> IF isDir THEN tree.files ELSE With(tree.files, vpath, e),
         reals |-> IF ~isDir THEN tree.reals
                   ELSE With(tree.reals, vpath, {Roots[e[1]] \o e[2]} \union
                             (IF vpath \in DOMAIN tree.reals THEN tree.reals[vpath] ELSE {}))]

\* MergedTree.Build
Merged ==
    FoldLeft(Visit, [dirs |-> <<>> :> <<>>, files |-> <<>>,
                     reals |-> <<>> :> {Roots[i] : i \in Layers}], WalkLayers)

-----------------------------------------------------------------------------
\* BuildInto: the merged tree placed in the deploy folder

RECURSIVE Places(_, _, _)
\* folders and files below a folder of the merged tree, under the names they are given
Places(tree, key, rel) ==
    UNION {LET kid  == tree.dirs[key][k]
               here == <<Append(rel, kid.name), Append(key, k), kid.dir>>
           IN  IF kid.dir THEN {here} \union Places(tree, here[2], here[1]) ELSE {here}
           : k \in DOMAIN tree.dirs[key]}

\* tryHardlink and its fallback: a link's own device is that of what it points to
Placed(disk, e) ==
    LET real == Roots[e[1]] \o e[2]
        to   == Stat(disk, real)
        far  == OtherDevice(real) \/ (to # Nowhere /\ OtherDevice(to))
    IN  IF far THEN [node |-> Abs(real), ino |-> <<Top + 1, e[2]>>, tok |-> store[e].tok]
        ELSE [node |-> layers[e[1]][e[2]], ino |-> store[e].ino, tok |-> store[e].tok]

BuildInto(tree, disk) ==
    LET all == Places(tree, <<>>, <<>>) IN
    [p \in {x[1] : x \in all} |->
        LET x == CHOOSE y \in all : y[1] = p IN
        IF x[3] THEN [node |-> Dir, ino |-> <<>>, tok |-> <<>>]
        ELSE Placed(disk, tree.files[x[2]])]

\* farmEntryAt
Entry(x) == [ino |-> x.ino, node |-> x.node]
Leaves(f) == {p \in DOMAIN f : f[p].node.k # "dir"}

Deploy ==
    LET f == BuildInto(Merged, Disk(<<>>)) IN
    /\ phase = "apart" /\ moves = 0
    /\ phase' = "placed" /\ farm' = f
    /\ manifest' = [p \in Leaves(f) |-> Entry(f[p])]
    /\ placed' = [p \in Leaves(f) |-> f[p].tok]
    /\ UNCHANGED <<layers, elsewhere, store, legacy, over, replaced, moves>>

-----------------------------------------------------------------------------
\* The view: newFarmView over the same layers

ViewNode(k, merged, vpath, real, chain) ==
    [k |-> k, merged |-> merged, vpath |-> vpath, real |-> real, chain |-> chain]
Absent == ViewNode("absent", FALSE, <<>>, <<>>, {})
Broken == ViewNode("broken", FALSE, <<>>, <<>>, {})
Loop   == ViewNode("loop", FALSE, <<>>, <<>>, {})
RootOf(tree) == ViewNode("dir", TRUE, <<>>, <<>>, tree.reals[<<>>])

\* leaf: a file or folder outside the merged tree, with the links it is reached by
Leaf(disk, real, chain) ==
    LET to == Stat(disk, real) IN
    IF to = Nowhere THEN Broken
    ELSE IF disk[to].k # "dir" THEN ViewNode("file", FALSE, <<>>, real, {})
    ELSE IF to \in {Stat(disk, c) : c \in chain} THEN Loop
    ELSE ViewNode("dir", FALSE, <<>>, real, chain \union {real})

\* path.Join and path.Clean: ".." removes the name before it
Step(path, name) ==
    IF name = ".." /\ path # <<>> /\ Last(path) # ".." THEN Front(path) ELSE Append(path, name)
Joined(path, to) == FoldLeft(Step, path, to)
EscapesView(path) == path # <<>> /\ path[1] = ".."

\* farmRelativeLink: a relative link that is placed as it is
StaysRelative(disk, e) ==
    LET real == Roots[e[1]] \o e[2]
        node == layers[e[1]][e[2]]
        to   == Stat(disk, real)
    IN  /\ node.k = "link" /\ ~node.abs
        /\ ~OtherDevice(real) /\ (to # Nowhere => ~OtherDevice(to))

RECURSIVE Child(_, _, _, _, _), Resolve(_, _, _, _)

\* farmLeaf
FarmLeaf(tree, disk, parent, e, depth) ==
    IF ~StaysRelative(disk, e) THEN Leaf(disk, Roots[e[1]] \o e[2], parent.chain)
    ELSE LET joined   == Joined(parent.vpath, layers[e[1]][e[2]].to)
             outside  == Joined(FarmRoot, joined)
             inside   == ~EscapesView(joined) \/ IsPrefix(FarmRoot, outside)
             path     == IF EscapesView(joined) THEN SubSeq(outside, Len(FarmRoot) + 1, Len(outside))
                         ELSE joined
             resolved == Resolve(tree, disk, path, depth + 1)
         IN  IF ~inside THEN Leaf(disk, outside, parent.chain)
             ELSE IF depth >= MaxHops \/ resolved.k \in {"absent", "loop"} THEN Broken
             ELSE IF resolved.k = "dir" /\ resolved.merged /\ IsPrefix(resolved.vpath, parent.vpath)
                  THEN Loop
             ELSE resolved

\* child: without case in the merged tree, exactly below a link that left it
Child(tree, disk, parent, part, depth) ==
    LET key   == Fold[part]
        vpath == Append(parent.vpath, key)
    IN  IF ~parent.merged THEN Leaf(disk, Append(parent.real, part), parent.chain)
        ELSE IF key \notin DOMAIN tree.dirs[parent.vpath] THEN Absent
        ELSE IF tree.dirs[parent.vpath][key].dir
             THEN ViewNode("dir", TRUE, vpath, <<>>, parent.chain \union tree.reals[vpath])
        ELSE FarmLeaf(tree, disk, parent, tree.files[vpath], depth)

\* resolveDepth
Resolve(tree, disk, path, depth) ==
    FoldLeft(LAMBDA node, part :
                IF node.k # "dir" THEN Absent ELSE
                LET next == Child(tree, disk, node, part, depth) IN
                IF next.k = "loop" THEN Absent ELSE next,
             RootOf(tree), path)

\* entries: the names of a folder, each under the spelling it has
Entries(tree, disk, node) ==
    IF node.merged
    THEN {<<tree.dirs[node.vpath][k].name, Child(tree, disk, node, k, 0)>> : k \in DOMAIN tree.dirs[node.vpath]}
    ELSE {<<n, Leaf(disk, Append(node.real, n), node.chain)>> : n \in Listing(disk, Stat(disk, node.real))}

RECURSIVE ViewTree(_, _, _, _)
\* what a walk of the view sees, a few folders deep
ViewTree(tree, disk, node, rel) ==
    UNION {LET path == Append(rel, x[1]) IN
           IF x[2].k \in {"loop", "absent"} THEN {}
           ELSE IF x[2].k = "dir" /\ Len(path) < Depth
                THEN {<<path, "dir", <<>>>>} \union ViewTree(tree, disk, x[2], path)
           ELSE {<<path, x[2].k, IF x[2].k = "file" THEN Stat(disk, x[2].real) ELSE <<>>>>}
           : x \in Entries(tree, disk, node)}

-----------------------------------------------------------------------------
\* The game, the layers and the capture of what the game made

InPlay == phase = "placed" /\ layers \in Playable /\ moves < MaxMoves
Used(f) == {f[p].ino : p \in DOMAIN f} \union {store[e].ino : e \in DOMAIN store}
               \union {over[p].ino : p \in DOMAIN over}
Fresh == <<0, <<moves + 1>>>>

\* the game writes a file: a new one, or the old one removed first, whose inode may be used again
GameWrites ==
    \E p \in GamePaths :
        LET kept == Without(farm, {p})
            again == IF p \in Leaves(farm) THEN {farm[p].ino} \ Used(kept) ELSE {}
        IN  /\ InPlay /\ Front(p) \in DOMAIN farm \union {<<>>}
            /\ p \in DOMAIN farm => farm[p].node.k # "dir"
            /\ \E ino \in {Fresh} \union again :
                   farm' = With(kept, p, [node |-> File, ino |-> ino, tok |-> Fresh])
            /\ moves' = moves + 1
            /\ UNCHANGED <<layers, elsewhere, store, legacy, phase, manifest, over, placed, replaced>>

\* the game renames a file, over another one or not
GameRenames ==
    \E p, q \in GamePaths :
        /\ InPlay /\ p # q /\ p \in Leaves(farm) /\ farm[p].node = File
        /\ Front(q) \in DOMAIN farm \union {<<>>}
        /\ q \in DOMAIN farm => farm[q].node.k # "dir"
        /\ farm' = With(Without(farm, {p}), q, farm[p])
        /\ moves' = moves + 1
        /\ UNCHANGED <<layers, elsewhere, store, legacy, phase, manifest, over, placed, replaced>>

GameDeletes ==
    \E p \in GamePaths :
        /\ InPlay /\ p \in Leaves(farm) /\ farm' = Without(farm, {p})
        /\ moves' = moves + 1
        /\ UNCHANGED <<layers, elsewhere, store, legacy, phase, manifest, over, placed, replaced>>

\* a mod is reinstalled while its files are linked in the farm
StoreReplaces ==
    \E e \in DOMAIN store :
        /\ InPlay /\ e[1] \notin {1, Top}
        /\ store' = [store EXCEPT ![e] = [ino |-> Fresh, tok |-> Fresh]]
        /\ replaced' = replaced \union {e}
        /\ moves' = moves + 1
        /\ UNCHANGED <<layers, elsewhere, legacy, phase, farm, manifest, over, placed>>

\* ClassifyFarm: owned, by inode, type and target
IsPlaced(f, p) == p \in DOMAIN manifest /\ manifest[p] = Entry(f[p])

Links(f, ov, ino) == Cardinality({p \in DOMAIN f : f[p].ino = ino})
                         + Cardinality({e \in DOMAIN store : store[e].ino = ino})
                         + Cardinality({p \in DOMAIN ov : ov[p].ino = ino})

\* whether the manifest the sentinel names is there and whole
ReadFarmManifest == ~legacy

\* a regular file that was not placed, or, without a manifest, that nothing else links
IsOutput(f, ov, p) ==
    f[p].node.k = "file" /\ IF ~ReadFarmManifest THEN Links(f, ov, f[p].ino) = 1 ELSE ~IsPlaced(f, p)

FarOver == Top \in elsewhere

\* relinkCaptured
Relinked(p, x) ==
    [node |-> IF FarOver THEN Abs(Roots[Top] \o p) ELSE File,
     ino  |-> IF FarOver THEN <<Top + 3 + moves, p>> ELSE x.ino, tok |-> x.tok]

\* moveFile: a rename, or a copy onto another device
MoveFile(p, x) == [ino |-> IF FarOver THEN <<Top + 2, p>> ELSE x.ino, tok |-> x.tok]

\* CaptureNewFilesInto: each output file in walk order, linked back or not
Capture(relink) ==
    LET Take(s, p) ==
            IF ~IsOutput(s.farm, s.over, p) THEN s
            ELSE LET x == s.farm[p] IN
                 [farm |-> IF relink THEN [s.farm EXCEPT ![p] = Relinked(p, x)] ELSE Without(s.farm, {p}),
                  over |-> With(s.over, p, MoveFile(p, x)),
                  took |-> s.took \union {p}]
    IN  FoldLeft(Take, [farm |-> farm, over |-> over, took |-> {}], SetToSortSeq(Leaves(farm), Precedes))

\* publishSuccessorManifest: the relinked files are placed from now on
Successor(c) ==
    IF ~ReadFarmManifest THEN manifest
    ELSE [p \in DOMAIN manifest \union c.took |-> IF p \in c.took THEN Entry(c.farm[p]) ELSE manifest[p]]

\* after a tool ran: what it made is captured and linked back
Flush ==
    LET c == Capture(TRUE) IN
    /\ phase = "placed" /\ layers \in Playable /\ c.took # {}
    /\ over' = c.over /\ farm' = c.farm /\ manifest' = Successor(c)
    /\ placed' = [p \in DOMAIN placed \union c.took |-> IF p \in c.took THEN farm[p].tok ELSE placed[p]]
    /\ UNCHANGED <<layers, elsewhere, store, legacy, phase, replaced, moves>>

\* the teardown's capture; what is left of the farm is then removed
Teardown ==
    /\ phase = "placed" /\ layers \in Playable
    /\ over' = Capture(FALSE).over
    /\ phase' = "apart" /\ farm' = <<>> /\ manifest' = <<>> /\ moves' = MaxMoves + 1
    /\ UNCHANGED <<layers, elsewhere, store, legacy, placed, replaced>>

Init ==
    /\ layers \in LayerChoices /\ elsewhere \in Devices
    /\ store = [e \in UNION {{<<i, p>> : p \in {q \in DOMAIN layers[i] : layers[i][q].k # "dir"}} : i \in Layers}
                    |-> [ino |-> e, tok |-> e]]
    /\ legacy \in (IF layers \in Playable THEN BOOLEAN ELSE {FALSE})
    /\ phase = "apart" /\ farm = <<>> /\ manifest = <<>> /\ over = <<>>
    /\ placed = <<>> /\ replaced = {} /\ moves = 0

Next ==
    \/ Deploy \/ GameWrites \/ GameRenames \/ GameDeletes
    \/ StoreReplaces \/ Flush \/ Teardown

Spec == Init /\ [][Next]_vars

-----------------------------------------------------------------------------
\* Properties

JustPlaced == phase = "placed" /\ moves = 0

\* Every entry of every layer that is not the program's own is an entry of the
\* farm if each folder above it is a folder wherever it is first seen; the
\* first entry seen of a name gives its spelling and type, the last layer that
\* has a file of that name the content (tree.go Build, materialize.go BuildInto).
MergedAsLayered ==
    JustPlaced =>
    LET entries == {WalkLayers[i] : i \in DOMAIN WalkLayers}
        \* the entries of a name, and whether one is seen before another
        Same(key) == {e \in entries : Folded(e[2]) = key}
        Before(d, e) == d[1] < e[1] \/ (d[1] = e[1] /\ Precedes(d[2], e[2]))
        First(key) == CHOOSE e \in Same(key) : \A d \in Same(key) \ {e} : Before(e, d)
        Source(key) == LET S == {e \in Same(key) : layers[e[1]][e[2]].k # "dir"}
                       IN  CHOOSE e \in S : \A d \in S \ {e} : Before(d, e)
        IsFolder(key) == layers[First(key)[1]][First(key)[2]].k = "dir"
        keys == {Folded(e[2]) : e \in entries}
        Seen(key) == \A q \in Prefixes(key) \ {<<>>, key} : IsFolder(q)
        Spelled(key) == [i \in DOMAIN key |-> Last(First(SubSeq(key, 1, i))[2])]
    IN  /\ {p \in DOMAIN farm : TRUE} = {Spelled(key) : key \in {k \in keys : Seen(k)}}
        /\ \A key \in keys : Seen(key) =>
               IF IsFolder(key) THEN farm[Spelled(key)].node = Dir
               ELSE farm[Spelled(key)].tok = Source(key)

RECURSIVE FarmTreeOf(_, _, _)
\* what a walk of the deploy folder sees, links followed, a few folders deep
FarmTreeOf(disk, at, rel) ==
    UNION {LET path == Append(rel, n)
               to   == Stat(disk, Append(at, n))
           IN  IF to = Nowhere THEN {<<path, "broken", <<>>>>}
               ELSE IF disk[to].k # "dir" THEN {<<path, "file", to>>}
               ELSE IF IsPrefix(to, at) THEN {}
               ELSE {<<path, "dir", <<>>>>} \union
                    (IF Len(path) < Depth THEN FarmTreeOf(disk, to, path) ELSE {})
           : n \in Listing(disk, at)}

\* the file itself: a hard link and the file it links are one
Identity(path) ==
    LET own == {p \in Leaves(farm) : FarmRoot \o p = path}
        kept == {e \in DOMAIN store : Roots[e[1]] \o e[2] = path}
    IN  IF own # {} THEN farm[CHOOSE p \in own : TRUE].ino
        ELSE IF kept # {} THEN store[CHOOSE e \in kept : TRUE].ino ELSE path

Identified(tree) == {<<x[1], x[2], IF x[2] = "file" THEN Identity(x[3]) ELSE <<>>>> : x \in tree}

\* no two names differ only in case, in the layers or in the links' targets
OneCase ==
    LET named == UNION {UNION {{p[j] : j \in DOMAIN p} : p \in DOMAIN layers[i]} : i \in Layers}
        aimed == UNION {UNION {IF layers[i][p].k = "link" /\ ~layers[i][p].abs
                               THEN {layers[i][p].to[j] : j \in DOMAIN layers[i][p].to} ELSE {}
                               : p \in DOMAIN layers[i]} : i \in Layers}
    IN  \A m, n \in (named \union aimed) \ {".."} : Fold[m] = Fold[n] => m = n

\* The view shows the files that the game will see: every entry under its
\* spelling, with the file a link in the farm will lead to, unless a link names
\* it in another case than the farm does (moddeps_view.go:83).
ViewIsFarm ==
    (JustPlaced /\ OneCase) =>
    LET disk == Disk(farm) IN
    Identified(ViewTree(Merged, disk, RootOf(Merged), <<>>)) = Identified(FarmTreeOf(disk, FarmRoot, <<>>))

\* While no file of a layer was replaced under the farm, the capture by
\* manifest takes exactly the files that hold something else than what was
\* placed there, inodes used again included (farm_classification.go:16).
OutputIsOutput ==
    (phase = "placed" /\ ~legacy /\ replaced = {}) =>
    \A p \in Leaves(farm) : farm[p].node.k = "file" =>
        (IsOutput(farm, over, p) <=> ~(p \in DOMAIN placed /\ placed[p] = farm[p].tok))

\* What the game made and left in the farm is in the overwrite folder once the
\* farm is gone, after any number of flushes; by link counts, where no manifest
\* can be read, unless it is still linked with an older flush (materialize.go:165).
NothingLost ==
    (Teardown /\ replaced = {}) => \A p \in Leaves(farm) :
          farm[p].tok[1] = 0 /\ (legacy => farm[p].ino \notin {over[q].ino : q \in DOMAIN over})
              => \E q \in DOMAIN over' : over'[q].tok = farm[p].tok

=============================================================================
