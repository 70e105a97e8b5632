------------------------------ MODULE Manifests ------------------------------
(***************************************************************************)
(* What SMAPI will do with a Mods folder, as Gorganizer predicts it:       *)
(* the order of versions (src/internal/smapi/semver.go) and Analyze        *)
(* (src/internal/smapi/analyze.go), which decides which components load,   *)
(* why the others fail and which disabled mods would help.                 *)
(*                                                                         *)
(* A version is a number and a prerelease tag, a sequence of parts.  A     *)
(* part has its value when it is a number, its rank among upper-cased      *)
(* texts and its exact spelling.                                           *)
(***************************************************************************)
EXTENDS Naturals, Sequences, FiniteSets, SequencesExt, FiniteSetsExt

CONSTANTS
    Folders,        \* the components a Mods folder may hold, by position
    Spares,         \* the disabled components there may be
    MaxActive,      \* bound on the folders of an input
    Sole,           \* bound on the folders beside a disabled component
    None

VARIABLES
    active,         \* the active folders, in the order of their names
    disabled        \* the disabled providers
vars == <<active, disabled>>

-----------------------------------------------------------------------------
(* Versions.                                                               *)

Sign(a, b) == IF a < b THEN -1 ELSE IF a > b THEN 1 ELSE 0
Shorter(s, t) == Sign(Len(s), Len(t))
\* The first part that differs decides: an unofficial build is the older one,
\* numbers compare as numbers, anything else as upper-cased text.
ComparePart(p, q) ==
    IF q.unofficial THEN 1
    ELSE IF p.unofficial THEN -1
    ELSE IF p.value # None /\ q.value # None THEN Sign(p.value, q.value)
    ELSE Sign(p.rank, q.rank)
CompareTags(s, t) ==
    LET both == 1..Min({Len(s), Len(t)})
        differ == {i \in both : s[i].text # t[i].text}
    IN  IF differ # {} THEN ComparePart(s[Min(differ)], t[Min(differ)]) ELSE Shorter(s, t)
Compare(v, w) ==
    IF v.number # w.number THEN Sign(v.number, w.number)
    ELSE IF v.tag = w.tag THEN 0
    ELSE IF v.tag = <<>> THEN 1
    ELSE IF w.tag = <<>> THEN -1
    ELSE CompareTags(v.tag, w.tag)
Newer(v, w) == Compare(v, w) > 0
TooOld(minimum, v) == minimum # None /\ Newer(minimum, v)
Stricter(m, n) == m # None /\ (n = None \/ Newer(m, n))

-----------------------------------------------------------------------------
(* Analyze.                                                                *)

HasManifest(c) == c.id # None
Carriers(comps, id) == {i \in DOMAIN comps : HasManifest(comps[i]) /\ comps[i].id = id}
Found(comps, id) == IF Carriers(comps, id) = {} THEN None ELSE Min(Carriers(comps, id))

Issue(kind, id, minimum, providers) ==
    [kind |-> kind, id |-> id, minimum |-> minimum, providers |-> providers]
Fail(s, i, reason, issues) ==
    [s EXCEPT !.state[i] = "failed", !.reason[i] = reason, !.issues[i] = @ \cup issues]

\* validateManifests: a wrong manifest fails, and so does one that asks for a
\* newer loader or game.
Flaw(c) == CASE c.flaw \in {"parse", "field", "dll"} -> "invalid"
             [] c.flaw \in {"loader", "game"} -> "incompatible"
             [] OTHER -> None
Validated(comps) ==
    LET flawed(i) == Flaw(comps[i]) # None
    IN  [state  |-> [i \in DOMAIN comps |-> IF flawed(i) THEN "failed" ELSE "queued"],
         reason |-> [i \in DOMAIN comps |-> Flaw(comps[i])],
         issues |-> [i \in DOMAIN comps |->
             IF flawed(i) THEN {Issue(comps[i].flaw, None, None, {})} ELSE {}]]
\* markDuplicates: every component that shares its ID fails, unless the loader
\* or the game version already excludes it.
Duplicated(comps, i) == Cardinality(Carriers(comps, comps[i].id)) > 1
\* Mutant: the first folder of a shared ID is kept.
MarkLaterDuplicates(comps, s) ==
    LET hit(i) == HasManifest(comps[i]) /\ i # Found(comps, comps[i].id)
    IN  [s EXCEPT !.state = [i \in DOMAIN comps |-> IF hit(i) THEN "failed" ELSE @[i]],
                  !.issues = [i \in DOMAIN comps |-> IF hit(i)
                      THEN {Issue("duplicate", comps[i].id, None, {})} ELSE @[i]]]
MarkDuplicates(comps, s) ==
    LET hit(i) == HasManifest(comps[i]) /\ Duplicated(comps, i) /\ s.reason[i] # "incompatible"
        others(i) == Carriers(comps, comps[i].id) \ {i}
    IN  [state  |-> [i \in DOMAIN comps |-> IF hit(i) THEN "failed" ELSE s.state[i]],
         reason |-> [i \in DOMAIN comps |-> IF hit(i) THEN "duplicate" ELSE s.reason[i]],
         issues |-> [i \in DOMAIN comps |-> IF hit(i)
             THEN s.issues[i] \cup {Issue("duplicate", comps[i].id, None, others(i))}
             ELSE s.issues[i]]]

\* mergeRequirement: one issue per dependency, with the highest minimum.
Highest(minima) == FoldLeft(LAMBDA m, n : IF Stricter(n, m) THEN n ELSE m, None, minima)
Minima(deps, id) == LET of == SelectSeq(deps, LAMBDA d : d.id = id)
                    IN  [k \in DOMAIN of |-> of[k].minimum]
\* classifyMissing: a disabled provider that would satisfy the minimum.
Satisfies(p, minimum) == p.flaw \notin {"parse", "field", "dll"} /\ ~TooOld(minimum, p.version)
Suitable(spare, id, minimum) ==
    {k \in DOMAIN spare : spare[k].id = id /\ Satisfies(spare[k], minimum)}
MissingIssue(spare, deps, id) ==
    LET minimum == Highest(Minima(SelectSeq(deps, LAMBDA d : d.required), id))
        able == Suitable(spare, id, minimum)
    IN  Issue(IF able # {} THEN "disabled" ELSE "missing", id, minimum, able)

Absent(comps, deps) == {deps[k].id : k \in {j \in DOMAIN deps :
    deps[j].required /\ Found(comps, deps[j].id) = None}}
Outdated(comps, deps) == {deps[k].id : k \in {j \in DOMAIN deps :
    LET at == Found(comps, deps[j].id)
    IN  at # None /\ TooOld(deps[j].minimum, comps[at].version)}}

\* processDependencies: depth first, in the order the manifest lists them.
RECURSIVE Process(_, _, _, _), Descend(_, _, _, _, _)
Process(comps, spare, i, s) ==
    LET deps == comps[i].deps
        absent == Absent(comps, deps)
        old == Outdated(comps, deps)
    IN  IF s.state[i] # "queued" THEN s
        ELSE IF deps = <<>> THEN [s EXCEPT !.state[i] = "sorted"]
        ELSE IF absent # {}
             THEN Fail(s, i, "dependencies", {MissingIssue(spare, deps, id) : id \in absent})
        ELSE IF old # {}
             THEN Fail(s, i, "dependencies",
                    {Issue("old", id, Highest(Minima(deps, id)), {Found(comps, id)}) : id \in old})
        ELSE Descend(comps, spare, i, 1, [s EXCEPT !.state[i] = "checking"])
Descend(comps, spare, i, k, s) ==
    IF k > Len(comps[i].deps) THEN [s EXCEPT !.state[i] = "sorted"]
    ELSE LET dep == comps[i].deps[k]
             at == Found(comps, dep.id)
             after == Process(comps, spare, at, s)
         IN  IF at = None THEN Descend(comps, spare, i, k + 1, s)
             ELSE IF s.state[at] = "checking"
                  THEN Fail(s, i, "dependencies", {Issue("circular", dep.id, None, {at})})
             ELSE IF after.state[at] = "failed" /\ dep.required
                  THEN Fail(after, i, "dependencies", {Issue("failed", dep.id, None, {at})})
             ELSE Descend(comps, spare, i, k + 1, after)
Analyze(comps, spare) ==
    FoldLeft(LAMBDA s, i : Process(comps, spare, i, s),
             MarkDuplicates(comps, Validated(comps)), [i \in DOMAIN comps |-> i])

\* aggregateMissing: one entry for each dependency somebody lacks.
Lacks(s, i) == {x \in s.issues[i] : x.kind \in {"missing", "disabled"}}
Entry(s, id) ==
    LET by == SelectSeq([i \in DOMAIN s.state |-> i], LAMBDA i : \E x \in Lacks(s, i) : x.id = id)
        of(i) == CHOOSE x \in Lacks(s, i) : x.id = id
    IN  [id |-> id, by |-> ToSet(by),
         minimum |-> Highest([k \in DOMAIN by |-> of(by[k]).minimum]),
         providers |-> FoldLeft(LAMBDA p, i : p \cap of(i).providers,
                                of(by[1]).providers, by)]
MissingOf(s) == {Entry(s, id) : id \in {x.id : x \in UNION {Lacks(s, i) : i \in DOMAIN s.state}}}

-----------------------------------------------------------------------------
(* The inputs: folders are added one by one, or one mod is disabled.       *)

Init == active = <<>> /\ disabled = <<>>
AddFolder ==
    /\ Len(active) < (IF disabled = <<>> THEN MaxActive ELSE Sole)
    /\ \E c \in Folders[Len(active) + 1] : active' = Append(active, c)
    /\ UNCHANGED disabled
Disable ==
    /\ active = <<>> /\ Len(disabled) < 2
    /\ \E c \in Spares : disabled' = Append(disabled, c)
    /\ UNCHANGED active
Next == AddFolder \/ Disable
Spec == Init /\ [][Next]_vars

-----------------------------------------------------------------------------
(* Properties.                                                             *)

Report == Analyze(active, disabled)
Loads(s, i) == s.state[i] = "sorted"

\* What is said to load really can: everything it requires is there, loads too
\* and, like what it may use, has no version below the minimum it states.
LoadsClosed ==
    LET s == Report
    IN  \A i \in DOMAIN active : Loads(s, i) => \A k \in DOMAIN active[i].deps :
            LET d == active[i].deps[k]
                at == Found(active, d.id)
            IN  /\ d.required => at # None /\ Loads(s, at)
                /\ at # None => ~TooOld(d.minimum, active[at].version)

\* Everything that fails says why, and nothing else is left undecided; of the
\* folders that share an ID none loads.
FailuresExplained ==
    LET s == Report
    IN  \A i \in DOMAIN active :
            /\ s.state[i] \in {"sorted", "failed"}
            /\ (s.state[i] = "failed") = (s.issues[i] # {})
            /\ \A j \in DOMAIN active \ {i} :
                    HasManifest(active[i]) /\ active[i].id = active[j].id => ~Loads(s, i)

\* "keeping only providers that satisfy every requirer" (analyze.go): enabling
\* a mod the report offers for a missing dependency leaves none of the mods that
\* need it without it or with too old a version of it.
OffersHelp ==
    LET s == Report
    IN  \A m \in MissingOf(s) : \A p \in m.providers :
            LET t == Analyze(Append(active, disabled[p]), disabled)
            IN  \A i \in m.by : \A x \in t.issues[i] :
                    x.kind \in {"missing", "disabled", "old"} => x.id # m.id

\* "keeping only the highest required version" (analyze.go): the minimum the
\* report states for a missing dependency is not below what any mod asks for.
MinimumIsHighest ==
    \A m \in MissingOf(Report) : \A i \in m.by : \A k \in DOMAIN active[i].deps :
        LET d == active[i].deps[k]
        IN  d.id = m.id /\ d.required => ~Stricter(d.minimum, m.minimum)
=============================================================================
