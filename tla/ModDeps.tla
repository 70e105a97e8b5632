------------------------------ MODULE ModDeps ------------------------------
(***************************************************************************)
(* The requests for missing mod dependencies of one game (daemon/          *)
(* moddeps.go, depreqs.go).                                                *)
(*                                                                         *)
(* A fetch registers what it waits for in a durable document before it     *)
(* queues a download, and attaches to what earlier fetches wait for.  A    *)
(* landed archive is checked, installed and settles the entries it         *)
(* satisfies; a failed download fails them; a start of the daemon settles  *)
(* what the daemon before it left.  Every change of the document is one    *)
(* critical section of the game's request lock, everything between two     *)
(* changes races with the rest.                                            *)
(*                                                                         *)
(* Abstracted: one Nexus mod (entries of another are never looked at       *)
(* together), its file "main", which Premium downloads, and "other", a     *)
(* file the user picks in the browser; pages, versions, reports; the       *)
(* retention of old batches.  Deferred landings are in Session, the        *)
(* download itself in Downloads.                                           *)
(***************************************************************************)
EXTENDS Naturals, FiniteSets

CONSTANTS
    Uid,                    \* UniqueIDs the Nexus mod is known to provide
    Fetch,                  \* calls of FetchModDependencies, naturals: the order of batches
    IdsOf, ProfileOf,       \* what a fetch asks for, and for which profile
    Download,               \* downloads, naturals; also the archives they land
    Browser,                \* those the user may start in the browser, with links that expire
    FileOf,                 \* "main" or "other"
    Provides,               \* file -> the UniqueIDs its archive really holds
    MaxFaults,              \* bound: kills, failing saves, refused installs, retries, removals,
                            \* deadlines, together
    None

\* What is asked of the constants, where the module is instantiated.
BrowserAssumption == \A d \in Download \ Browser : FileOf[d] = "main"

VARIABLES
    doc, failures,          \* the request document: its entries, its failed downloads
    dl, mods, lists,        \* downloads, mod folders by file, the profiles' mod lists
    outcome,                \* downloadOutcomes: what this daemon remembers of a download
    failing,                \* goroutines of failDownload that have not run yet
    fetch, job, resume,     \* fetches, landings being handled, landings found by a start
    up, faults,
    missed, removed, slipped, late, across, uuids   \* history

disk   == <<dl, mods, lists>>
memory == <<outcome, failing, fetch, job, resume, up>>
past   == <<missed, removed, slipped, late, across, uuids>>
vars   == <<doc, failures, disk, memory, faults, past>>

Files    == {"main", "other"}
Profiles == {ProfileOf[f] : f \in Fetch}
Refs     == Fetch \X Uid

\* depEntry
Entry == [st : {"awaiting", "downloading", "installing", "enable_pending", "done", "failed",
                "expired"},
          file : {"main", None}, dl : Download \union {None}, inst : 0..Cardinality(Download) * 2 + 2,
          arch : Download \union {None}, mod : Files \union {None},
          why : {None, "mismatch", "download", "lost", "install", "interrupted", "unlisted"},
          had : SUBSET Download]

At(r)      == doc[r[1]][r[2]]
Held       == {r \in Refs : At(r) # None}
In(st)     == {r \in Held : At(r).st = st}

\* set
Set(e, st, why) == [e EXCEPT !.st = st, !.why = why]

\* updateRequests: the entries of some refs get new values under the lock
Update(new) ==
    doc' = [f \in Fetch |-> [u \in Uid |-> IF <<f, u>> \in DOMAIN new THEN new[<<f, u>>]
                                                                     ELSE doc[f][u]]]

Landed  == {d \in Download : dl[d] = "landed"}
Fault   == faults < MaxFaults /\ faults' = faults + 1
\* the update cannot read or save the document: nothing changes, the work waits for a start
Fails   == Fault /\ missed' = TRUE /\ UNCHANGED <<doc, failures>>
Saves   == UNCHANGED <<faults, missed>>

-----------------------------------------------------------------------------
\* The download manager, as the requests see it

\* ledgerSnapshot.nonTerminal
NonTerminal(d) == dl[d] \in {"live", "unlanded"}

\* The user starts a download in the browser
BrowserStarts(d) ==
    /\ up /\ d \in Browser /\ dl[d] = None
    /\ dl' = [dl EXCEPT ![d] = "live"]
    /\ UNCHANGED <<doc, failures, mods, lists, memory, faults, past>>

\* a landing being handled; fresh: its pipeline has just run
NewJob(at, id, inst, fresh) ==
    [at |-> at, dl |-> id, inst |-> inst, cands |-> {}, res |-> None, fresh |-> fresh]

\* OnArchiveLanded
Lands(d) ==
    /\ up /\ dl[d] \in {"live", "unlanded"} /\ job[d] = None
    /\ dl' = [dl EXCEPT ![d] = "landed"]
    /\ job' = [job EXCEPT ![d] = NewJob("note", d, 0, TRUE)]
    /\ UNCHANGED <<doc, failures, mods, lists, outcome, failing, fetch, resume, up, faults,
                   past>>

\* observeDownload, failed or cancelled
Observe(d) ==
    /\ up /\ dl[d] = "live"
    /\ dl' = [dl EXCEPT ![d] = "failed"]
    /\ outcome' = [outcome EXCEPT ![d] = "failed"]
    /\ failing' = failing \union {d}
    /\ UNCHANGED <<doc, failures, mods, lists, fetch, job, resume, up, faults, past>>

\* observeDownload, failed with a landing record: the user finishes it with a retry
ObserveUnlanded(d) ==
    /\ up /\ dl[d] = "live"
    /\ dl' = [dl EXCEPT ![d] = "unlanded"]
    /\ UNCHANGED <<doc, failures, mods, lists, memory, faults, past>>

\* RetryDownload, and observeDownload of the queued download
Retries(d) ==
    /\ up /\ dl[d] = "failed" /\ Fault
    /\ dl' = [dl EXCEPT ![d] = "live"]
    /\ outcome' = [outcome EXCEPT ![d] = IF @ = "failed" THEN None ELSE @]
    /\ UNCHANGED <<doc, failures, mods, lists, failing, fetch, job, resume, up, past>>

-----------------------------------------------------------------------------
\* FetchModDependencies

\* GetProgress: queued or active, up to the end of the pipeline that called OnArchiveLanded
GetProgress(d, leaving) ==
    \/ dl[d] = "live"
    \/ ~leaving /\ job[d] # None /\ job[d].fresh

\* downloadLive
downloadLive(d, leaving) == outcome[d] = None /\ (GetProgress(d, leaving) \/ NonTerminal(d))

Present(m) == mods[m] # None

\* pendingEnableMod, with its folder
PendingMods(u) ==
    {m \in Files : Present(m) /\ \E r \in In("enable_pending") : r[2] = u /\ At(r).mod = m}

\* projectSMAPI, classifyFetchRequests: missing, and no listed mod provides it disabled
Missing(f) ==
    {u \in IdsOf[f] : \A m \in lists[ProfileOf[f]] : Present(m) => u \notin Provides[m]}

Step(f, plan) == fetch' = [fetch EXCEPT ![f] = plan]

\* chooseMainFiles: Premium and one main file, or the browser
Plans(f, premium) ==
    /\ up /\ fetch[f] = None /\ \A g \in Fetch : g < f => fetch[g] # None
    /\ Missing(f) # {}
    /\ Step(f, [at |-> "list", ids |-> Missing(f), premium |-> premium, stale |-> {}, dl |-> None])
    /\ UNCHANGED <<doc, failures, disk, outcome, failing, job, resume, up, faults, past>>

\* a fetch that has still to name its download
WillName(f) == fetch[f] # None /\ fetch[f].at \in {"queue", "record"}

\* listPendingEnableMods: the installed mods the fetch will attach to
ToList(f) == UNION {PendingMods(u) : u \in fetch[f].ids}

ListPending(f) ==
    /\ fetch[f] # None /\ fetch[f].at = "list"
    /\ \/ lists' = [lists EXCEPT ![ProfileOf[f]] = @ \union ToList(f)]
          /\ UNCHANGED <<faults, slipped>>
       \/ ToList(f) # {} /\ Fault /\ slipped' = slipped \union {f} /\ UNCHANGED lists
    /\ Step(f, [fetch[f] EXCEPT !.at = "register"])
    /\ UNCHANGED <<doc, failures, dl, mods, outcome, failing, job, resume, up, missed, removed,
                   late, across, uuids>>

New(st, file) == [st |-> st, file |-> file, dl |-> None, inst |-> 0, arch |-> None, mod |-> None,
                  why |-> None, had |-> Landed]

\* attachPlan's switch: an earlier mismatch of the main file sends the plan to the browser
Mismatched(wanted) ==
    \E r \in In("failed") : r[2] \in wanted /\ At(r).file = "main" /\ At(r).why = "mismatch"

\* registerBatch, attachPlan; graced: a download ID still missing is recent;
\* leaving: pipelines whose archive landed have returned
Register(f, graced, leaving) ==
    LET plan    == fetch[f]
        enabled == {u \in plan.ids : PendingMods(u) # {}}
        wanted  == plan.ids \ enabled
        busy    == {r \in In("installing") : At(r).inst # 0}
        waiting == {r \in In("downloading") : At(r).file = "main"}
        live    == {At(r).dl : r \in {q \in waiting : At(q).dl # None /\ downloadLive(At(q).dl, leaving)}}
        unnamed == graced /\ \E r \in waiting : At(r).dl = None
        premium == plan.premium /\ ~Mismatched(wanted)
        queues  == premium /\ wanted # {} /\ busy = {} /\ live = {} /\ ~unnamed
    IN  /\ plan # None /\ plan.at = "register"
        /\ \E b \in (IF busy = {} THEN {None} ELSE busy),
              l \in (IF live = {} THEN {None} ELSE live),
              m \in [enabled -> Files] :
             /\ \A u \in enabled : m[u] \in PendingMods(u)
             /\ Update([r \in {f} \X plan.ids |->
                  CASE r[2] \in enabled -> [New("enable_pending", None) EXCEPT !.mod = m[r[2]]]
                    [] r[2] \notin enabled /\ b # None -> At(b)
                    [] r[2] \notin enabled /\ b = None /\ premium ->
                          [New("downloading", "main") EXCEPT !.dl = l]
                    [] OTHER -> New("awaiting", None)])
        /\ Step(f, [plan EXCEPT !.at = IF queues THEN "queue" ELSE "over",
                                !.stale = {At(r).dl : r \in waiting} \ (live \union {None})])
        /\ late' = IF unnamed /\ \A g \in Fetch : ~WillName(g) THEN late \union {f} \X wanted ELSE late
        /\ UNCHANGED <<failures, disk, outcome, failing, job, resume, up, faults, missed,
                       removed, slipped, across, uuids>>

\* registerBatch fails: the fetch reports it and nothing is registered
RegisterFails(f) ==
    /\ fetch[f] # None /\ fetch[f].at = "register" /\ Fault
    /\ Step(f, [fetch[f] EXCEPT !.at = "over"])
    /\ UNCHANGED <<doc, failures, disk, outcome, failing, job, resume, up, past>>

\* enqueuePlans: StartDownloadForGame, queued or refused
Queue(f) ==
    /\ fetch[f] # None /\ fetch[f].at = "queue"
    /\ \/ \E d \in Download \ Browser :
             /\ dl[d] = None /\ \A e \in Download \ Browser : e < d => dl[e] # None
             /\ dl' = [dl EXCEPT ![d] = "live"]
             /\ Step(f, [fetch[f] EXCEPT !.at = "record", !.dl = d])
             /\ UNCHANGED faults
       \/ Fault /\ Step(f, [fetch[f] EXCEPT !.at = "record"]) /\ UNCHANGED dl
    /\ UNCHANGED <<doc, failures, mods, lists, outcome, failing, job, resume, up, past>>

\* awaitBrowser
Awaits(e) == Set(e, "awaiting", None)

\* Mutant: a failure that came before the download's ID was recorded is forgotten.
ForgetsEarly(d) == FALSE

\* the failure of a download whose ID was not recorded yet
RacedAhead(d) == d \in failures \/ outcome[d] = "failed"

\* recordQueuedPlan: the ID goes to this fetch's entries and to those whose download is missing
\* or dead; a failure that raced ahead is applied
RecordQueued(f) ==
    LET plan  == fetch[f]
        gets  == {r \in In("downloading") :
                     \/ r[1] = f \/ At(r).dl = None \/ At(r).dl \in plan.stale}
    IN  /\ plan # None /\ plan.at = "record"
        /\ \/ /\ IF plan.dl = None
                 THEN Update([r \in {r \in gets : r[1] = f \/ At(r).dl = None} |-> Awaits(At(r))])
                 ELSE Update([r \in gets |->
                        IF RacedAhead(plan.dl)
                        THEN Set([At(r) EXCEPT !.dl = plan.dl], "failed", "download")
                        ELSE [At(r) EXCEPT !.dl = plan.dl]])
              /\ UNCHANGED failures /\ Saves
           \/ Fails
        /\ Step(f, [plan EXCEPT !.at = "over"])
        /\ late' = late \union {r \in gets : plan.dl # None /\ outcome[plan.dl] = "landed" /\ r[1] # f}
        /\ UNCHANGED <<disk, outcome, failing, job, resume, up, removed, slipped, across,
                       uuids>>

-----------------------------------------------------------------------------
\* A failed download

\* recordFailedDownload, while an entry still waits for its download's ID
Remember(d) ==
    failures' = IF \E r \in In("downloading") : At(r).dl = None THEN failures \union {d}
                                                                 ELSE failures

\* failDownload, in its own goroutine
FailDownload(d) ==
    /\ d \in failing /\ failing' = failing \ {d}
    /\ \/ /\ Update([r \in {r \in In("downloading") : At(r).dl = d} |->
                    Set(At(r), "failed", "download")])
          /\ Remember(d) /\ Saves
       \/ Fails
    /\ UNCHANGED <<disk, outcome, fetch, job, resume, up, removed, slipped, late, across,
                   uuids>>

-----------------------------------------------------------------------------
\* A landed archive

Go(d, j)  == job' = [job EXCEPT ![d] = j]
Leaves(d) == Go(d, None)
At_(d, s) == job[d] # None /\ job[d].at = s

\* landedMatch
landedMatch(r, d, id) ==
    \/ At(r).st = "downloading" /\ At(r).file = FileOf[d]
    \/ At(r).st = "awaiting"
    \/ /\ At(r).st = "failed" /\ At(r).why = "download" /\ At(r).file = FileOf[d]
       /\ id # None /\ At(r).dl = id

\* consumeLandedArchive: the outcome is noted before the document is read
NoteLanded(d) ==
    /\ At_(d, "note")
    /\ outcome' = IF job[d].dl = None THEN outcome ELSE [outcome EXCEPT ![job[d].dl] = "landed"]
    /\ Go(d, [job[d] EXCEPT !.at = "look"])
    /\ UNCHANGED <<doc, failures, disk, failing, fetch, resume, up, faults, past>>

\* landingCandidates
Look(d) ==
    LET cands == {r \in Held : landedMatch(r, d, job[d].dl)} IN
    /\ At_(d, "look")
    /\ \/ /\ Go(d, [job[d] EXCEPT !.at = IF cands = {} THEN "auto" ELSE "check", !.cands = cands])
          /\ UNCHANGED <<doc, failures>> /\ Saves
       \/ Fails /\ Go(d, [job[d] EXCEPT !.at = "auto"])
    /\ UNCHANGED <<disk, outcome, failing, fetch, resume, up, removed, slipped, late, across,
                   uuids>>

\* checkLandedArchive: an archive that cannot be read leaves its requests waiting
Check(d) ==
    /\ At_(d, "check")
    /\ \/ Go(d, [job[d] EXCEPT !.at = IF job[d].inst = 0 THEN "record" ELSE "install"])
          /\ UNCHANGED <<doc, failures>> /\ Saves
       \/ Fails /\ Leaves(d)
    /\ UNCHANGED <<disk, outcome, failing, fetch, resume, up, removed, slipped, late, across,
                   uuids>>

\* consumeLandedArchive's update: the candidates are looked at again under the lock
Consume(d) ==
    LET j     == job[d]
        still == {r \in j.cands : landedMatch(r, d, j.dl)}
        takes == {r \in still : r[2] \in Provides[FileOf[d]]}
        fails == {r \in still \ takes : At(r).st # "awaiting"}
        inst  == uuids + 1
    IN  /\ At_(d, "record")
        /\ \/ /\ Update([r \in takes \union fails |->
                    IF r \in takes
                    THEN [Set(At(r), "installing", None) EXCEPT !.inst = inst, !.arch = d]
                    ELSE Set(At(r), "failed", "mismatch")])
              /\ failures' = failures \ {j.dl}
              /\ uuids' = IF takes = {} THEN uuids ELSE inst
              /\ Go(d, IF takes = {} THEN [j EXCEPT !.at = "auto", !.cands = {}]
                       ELSE [j EXCEPT !.at = "install", !.inst = inst, !.cands = {}])
              /\ Saves
           \/ Fails /\ Leaves(d) /\ UNCHANGED uuids
        /\ UNCHANGED <<disk, outcome, failing, fetch, resume, up, removed, slipped, late,
                       across>>

\* startInstallFrom: refused, colliding with a folder, failing, or publishing its folder
Install(d) ==
    /\ At_(d, "install")
    /\ \/ /\ Fault /\ missed' = TRUE /\ Leaves(d) /\ UNCHANGED mods
       \/ /\ Present(FileOf[d])
          /\ Go(d, [job[d] EXCEPT !.at = "settle", !.res = "collides"])
          /\ UNCHANGED mods /\ Saves
       \/ /\ ~Present(FileOf[d]) /\ Fault
          /\ Go(d, [job[d] EXCEPT !.at = "settle", !.res = "broken"])
          /\ UNCHANGED <<mods, missed>>
       \/ /\ ~Present(FileOf[d])
          /\ mods' = [mods EXCEPT ![FileOf[d]] = d]
          /\ Go(d, [job[d] EXCEPT !.at = "list"]) /\ Saves
    /\ UNCHANGED <<doc, failures, dl, lists, outcome, failing, fetch, resume, up, removed,
                   slipped, late, across, uuids>>

\* ensureInModList: every profile's list, before the entries are settled
List(d) ==
    /\ At_(d, "list")
    /\ \/ /\ lists' = [p \in Profiles |-> lists[p] \union {FileOf[d]}]
          /\ Go(d, [job[d] EXCEPT !.at = "settle"]) /\ UNCHANGED faults
       \/ /\ Fault /\ UNCHANGED lists
          /\ Go(d, [job[d] EXCEPT !.at = "settle", !.res = "unregistered"])
    /\ UNCHANGED <<doc, failures, dl, mods, outcome, failing, fetch, resume, up, past>>

\* what the archive was found to hold: an entry attached later may not be among it
Planned(r, d) == r[2] \in Provides[FileOf[d]]

\* installForRequests' update
Settle(d) ==
    LET j == job[d]
        mine == {r \in In("installing") : At(r).inst = j.inst}
    IN  /\ At_(d, "settle")
        /\ \/ /\ Update([r \in mine |->
                   IF j.res # None THEN Set(At(r), "failed", "install")
                   ELSE IF ~Planned(r, d) THEN Set(At(r), "failed", "mismatch")
                   ELSE [Set(At(r), "enable_pending", None) EXCEPT !.mod = FileOf[d]]])
              /\ UNCHANGED failures /\ Saves
           \/ Fails
        /\ Leaves(d)
        /\ UNCHANGED <<disk, outcome, failing, fetch, resume, up, removed, slipped, late,
                       across, uuids>>

\* autoInstallAfterDownload, when no request took the archive: in one step
AutoInstall(d) ==
    /\ At_(d, "auto") /\ Leaves(d)
    /\ \/ /\ job[d].fresh /\ ~Present(FileOf[d])
          /\ mods' = [mods EXCEPT ![FileOf[d]] = d]
          /\ lists' = [p \in Profiles |-> lists[p] \union {FileOf[d]}]
       \/ UNCHANGED <<mods, lists>>
    /\ UNCHANGED <<doc, failures, dl, outcome, failing, fetch, resume, up, faults, past>>

-----------------------------------------------------------------------------
\* The user

\* a mod leaves the lists, then its folder goes
Unlists(m) ==
    /\ up /\ Present(m) /\ m \notin removed /\ removed' = removed \union {m} /\ Fault
    /\ lists' = [p \in Profiles |-> lists[p] \ {m}]
    /\ UNCHANGED <<doc, failures, dl, mods, memory, missed, slipped, late, across, uuids>>

Uninstalls(m) ==
    /\ up /\ Present(m) /\ m \in removed /\ \A p \in Profiles : m \notin lists[p]
    /\ mods' = [mods EXCEPT ![m] = None]
    /\ UNCHANGED <<doc, failures, dl, lists, memory, faults, past>>

\* RemoveArchive
DeletesArchive(d) ==
    /\ up /\ dl[d] = "landed" /\ job[d] = None /\ Fault
    /\ dl' = [dl EXCEPT ![d] = "gone"]
    /\ UNCHANGED <<doc, failures, mods, lists, memory, past>>

\* AckDependencyEnable
Acks(f) ==
    /\ up /\ \E r \in In("enable_pending") : r[1] = f
    /\ Update([r \in {r \in In("enable_pending") : r[1] = f} |-> Set(At(r), "done", None)])
    /\ UNCHANGED <<failures, disk, memory, faults, past>>

\* expireDependencyRequests, in whatever update comes next
Expires(r) ==
    /\ up /\ r \in In("awaiting") /\ Fault
    /\ Update([q \in {r} |-> Set(At(q), "expired", None)])
    /\ UNCHANGED <<failures, disk, memory, past>>

\* requestSummary, failEnablesOutsideModlist: the list is read under the request lock
Summary(p) ==
    LET lost == {r \in In("enable_pending") : ProfileOf[r[1]] = p /\ At(r).mod \notin lists[p]}
    IN  /\ up /\ lost # {}
        /\ Update([r \in lost |-> Set(At(r), "failed", "unlisted")])
        /\ UNCHANGED <<failures, disk, memory, faults, past>>

-----------------------------------------------------------------------------
\* The daemon ends and starts

Kill ==
    /\ up /\ Fault /\ up' = FALSE
    /\ outcome' = [d \in Download |-> None] /\ failing' = {} /\ resume' = {}
    /\ job' = [d \in Download |-> None]
    /\ fetch' = [f \in Fetch |-> IF fetch[f] = None THEN None ELSE [fetch[f] EXCEPT !.at = "over"]]
    /\ UNCHANGED <<doc, failures, disk, past>>

\* RecoverLandings, before the requests are looked at
RecoverLandings(done) ==
    [d \in Download |-> IF d \in done THEN "landed" ELSE dl[d]]

Installed(d) == mods[FileOf[d]] = d

\* consumedArchives
Consumed == {At(r).arch : r \in Held} \ {None}

\* landedArchiveFor the entry's file
ArchivesFor(file, l) == {d \in l : FileOf[d] = file}

\* recoverInstallingEntry: what an interrupted install resumes from
ResumesFrom(e, l) == IF e.arch \in l THEN {e.arch} ELSE ArchivesFor(e.file, l)

\* recoverDownloadingEntry: the download is still to be landed or in the ledger
StillPending(e, led) == e.dl \in led

\* queueBrowserLandings
BrowserLandings(r, l) == {d \in l : d \notin At(r).had \union Consumed /\ ~Installed(d)}

\* recoverInterruptedRequests, with the landings it returns.  led: downloads in the ledger or
\* with a landing record; newest: the newest landed archive of the main file, or None
Recovered(l, led, adopts, newest) ==
    LET lost    == {r \in In("downloading") : ~StillPending(At(r), led)}
        named   == IF adopts = None THEN {} ELSE lost
        landed  == IF newest = None THEN {} ELSE lost \ named
        ended   == (lost \ named) \ landed
        broken  == {r \in In("installing") : ResumesFrom(At(r), l) = {}}
    IN  /\ Update([r \in named \union ended \union broken |->
              IF r \in named THEN [At(r) EXCEPT !.dl = adopts]
              ELSE IF r \in broken THEN Set(At(r), "failed", "interrupted")
              ELSE Set(At(r), "failed",
                       IF At(r).dl # None /\ dl[At(r).dl] \in {"failed", "expired"}
                       THEN "download" ELSE "lost")])
        /\ LET plain == {[arch |-> newest, dl |-> At(r).dl, inst |-> 0] : r \in landed} \union
                        UNION {{[arch |-> d, dl |-> None, inst |-> 0] :
                                  d \in BrowserLandings(r, l)} : r \in In("awaiting")}
               kept  == {[arch |-> IF At(r).arch \in l THEN At(r).arch ELSE newest,
                          dl |-> At(r).dl, inst |-> At(r).inst] : r \in In("installing") \ broken}
           IN  \E one \in SUBSET plain :
                  /\ \A x \in one, y \in one : x.arch = y.arch => x = y
                  /\ {x.arch : x \in one} = {x.arch : x \in plain}
                  /\ resume' = kept \union one

\* Start: landings, requests, and the ledger last; a download whose link has expired is
\* marked failed with nobody told
Start ==
    /\ ~up /\ up' = TRUE
    /\ \E done \in SUBSET {d \in Download : dl[d] = "unlanded"}, expired \in SUBSET Browser :
          LET after == RecoverLandings(done)
              l     == {d \in Download : after[d] = "landed"}
              led   == {d \in Download : after[d] \in {"live", "unlanded"}}
              main  == ArchivesFor("main", l)
              mine  == ArchivesFor("main", led)
          IN  \E adopts \in (IF mine = {} THEN {None} ELSE mine),
                 newest \in (IF main = {} THEN {None} ELSE main) :
                 /\ \/ Recovered(l, led, adopts, newest) /\ UNCHANGED faults /\ missed' = FALSE
                    \/ Fault /\ UNCHANGED <<doc, resume>> /\ missed' = TRUE
                 /\ dl' = [d \in Download |-> IF d \in expired /\ after[d] = "live"
                                              THEN "expired" ELSE after[d]]
    /\ UNCHANGED <<failures, mods, lists, outcome, failing, fetch, job, removed, slipped, late,
                   across, uuids>>

\* installedArchiveMap
WasInstalled(l) == Installed(l.arch)

\* resumeRecoveredLandings: one after the other
Resume(l) ==
    /\ l \in resume /\ \A d \in Download : job[d] # None => job[d].fresh
    /\ job[l.arch] = None
    /\ resume' = resume \ {l}
    /\ job' = [job EXCEPT ![l.arch] =
                  NewJob(IF WasInstalled(l) THEN "adopt" ELSE IF l.inst # 0 THEN "check" ELSE "note",
                         l.dl, l.inst, FALSE)]
    /\ UNCHANGED <<doc, failures, disk, outcome, failing, fetch, up, faults, past>>

\* the entries an installed archive settles
Adopts(d) ==
    {r \in Held : IF job[d].inst # 0 THEN At(r).st = "installing" /\ At(r).inst = job[d].inst
                                     ELSE At(r).st = "downloading" /\ landedMatch(r, d, job[d].dl)}

\* adoptInstalledArchive lists the mod in the profiles it adopts for
AdoptList(d) ==
    LET ps == {ProfileOf[r[1]] : r \in {q \in Adopts(d) : Planned(q, d)}} IN
    /\ At_(d, "adopt")
    /\ \E ok \in SUBSET ps :
          /\ IF ok = ps THEN Saves ELSE Fault /\ missed' = TRUE
          /\ lists' = [p \in Profiles |-> lists[p] \union IF p \in ok THEN {FileOf[d]} ELSE {}]
          /\ Go(d, [job[d] EXCEPT !.at = "adopted", !.cands = ok])
    /\ UNCHANGED <<doc, failures, dl, mods, outcome, failing, fetch, resume, up, removed,
                   slipped, late, across, uuids>>

\* ... and then settles them; an entry attached in between, for a profile not listed, is left
Adopt(d) ==
    LET listed == {r \in Adopts(d) : ProfileOf[r[1]] \in job[d].cands}
        wrong  == {r \in Adopts(d) : ~Planned(r, d)}
    IN  /\ At_(d, "adopted") /\ Leaves(d)
        /\ \/ /\ Update([r \in listed \union wrong |->
                    IF r \in wrong THEN Set(At(r), "failed", "mismatch")
                    ELSE [Set(At(r), "enable_pending", None) EXCEPT !.mod = FileOf[d]]])
              /\ UNCHANGED failures /\ Saves
           \/ Fails
        /\ late' = late \union (Adopts(d) \ (listed \union wrong))
        /\ across' = across \union {f \in Fetch : fetch[f] # None /\ fetch[f].at = "register"}
        /\ UNCHANGED <<disk, outcome, failing, fetch, resume, up, removed, slipped, uuids>>

-----------------------------------------------------------------------------

Init ==
    /\ doc = [f \in Fetch |-> [u \in Uid |-> None]] /\ failures = {}
    /\ dl = [d \in Download |-> None] /\ mods = [m \in Files |-> None]
    /\ lists = [p \in Profiles |-> {}]
    /\ outcome = [d \in Download |-> None] /\ failing = {}
    /\ fetch = [f \in Fetch |-> None] /\ job = [d \in Download |-> None] /\ resume = {}
    /\ up = TRUE /\ faults = 0
    /\ missed = FALSE /\ removed = {} /\ slipped = {} /\ late = {} /\ across = {} /\ uuids = 0

Fetches ==
    \E f \in Fetch :
        \/ \E premium \in BOOLEAN : Plans(f, premium)
        \/ ListPending(f)
        \/ \E graced, leaving \in BOOLEAN : Register(f, graced, leaving)
        \/ RegisterFails(f) \/ Queue(f) \/ RecordQueued(f)

Transfers ==
    \E d \in Download :
        BrowserStarts(d) \/ Lands(d) \/ Observe(d) \/ ObserveUnlanded(d) \/ Retries(d)
        \/ FailDownload(d) \/ DeletesArchive(d)

Landings ==
    \/ \E d \in Download :
          NoteLanded(d) \/ Look(d) \/ Check(d) \/ Consume(d) \/ Install(d) \/ List(d) \/ Settle(d)
          \/ AutoInstall(d) \/ AdoptList(d) \/ Adopt(d)
    \/ \E l \in resume : Resume(l)

Users ==
    \/ \E m \in Files : Unlists(m) \/ Uninstalls(m)
    \/ \E f \in Fetch : Acks(f)
    \/ \E r \in Refs : Expires(r)
    \/ \E p \in Profiles : Summary(p)

Next == Fetches \/ Transfers \/ Landings \/ Users \/ Kill \/ Start

Spec == Init /\ [][Next]_vars

-----------------------------------------------------------------------------

TypeOK ==
    /\ \A r \in Held : At(r) \in Entry
    /\ failures \subseteq Download /\ failing \subseteq Download
    /\ dl \in [Download -> {None, "live", "unlanded", "landed", "failed", "expired", "gone"}]
    /\ mods \in [Files -> Download \union {None}] /\ lists \in [Profiles -> SUBSET Files]
    /\ outcome \in [Download -> {None, "landed", "failed"}]

\* A landing that will look at the entry, or has it among its candidates.
Coming(r) ==
    \/ \E d \in Download : /\ job[d] # None /\ FileOf[d] = At(r).file
                           /\ \/ job[d].at \in {"note", "look"}
                              \/ job[d].at \in {"check", "record"} /\ r \in job[d].cands
                              \/ job[d].at \in {"adopt", "adopted"} /\ r \in Adopts(d)
    \/ \E l \in resume : l.inst = 0 /\ FileOf[l.arch] = At(r).file

\* A download that will still end one way or another, or whose failure is on its way; a link
\* that expired while the daemon was down is settled by the start after this one.
Ends(d) == dl[d] \in {"live", "unlanded", "expired"} \/ d \in failing

\* A fetch that will still name the entry's download.
Naming(r) ==
    \E f \in Fetch : /\ WillName(f)
                     /\ r[1] = f \/ At(r).dl = None \/ At(r).dl \in fetch[f].stale

\* No request waits for nothing (depreqs.go, moddeps.go): while every update of the document
\* has succeeded since the daemon started, an entry that waits for a download has one that
\* will end, a landing that will look at it, a failure about to be recorded, or a fetch about
\* to name its download; and an install it is attached to is running or will be resumed.  A
\* finished download is never attached to, however closely its end and the fetch race.
WaitingIsServed ==
    up /\ ~missed =>
        /\ \A r \in In("downloading") :
              (At(r).dl # None /\ Ends(At(r).dl)) \/ Naming(r) \/ Coming(r) \/ r \in late
        /\ \A r \in In("installing") :
              \/ \E d \in Download : job[d] # None /\ job[d].inst = At(r).inst
              \/ \E l \in resume : l.inst = At(r).inst
              \/ r \in late

\* What is announced as ready to enable really provides the dependency: an entry that attached
\* itself to an install before its archive was known is told the truth when it ends.
PendingProvides ==
    \A r \in In("enable_pending") : r[2] \in Provides[At(r).mod]

\* An install the daemon finished before it was killed is adopted, not run into: no request
\* fails because of the folder made from its own archive.
OwnInstallAdopted ==
    \A d \in Download : job[d] # None /\ job[d].res = "collides" => mods[FileOf[d]] # d

\* A pending enable is never withdrawn as not_in_modlist unless the user removed the mod (or
\* listing it failed when the fetch attached to it): the mod is listed before it is announced.
EnablesKept ==
    \A r \in In("enable_pending") :
          doc'[r[1]][r[2]].why = "unlisted" =>
             At(r).mod \in removed \/ r[1] \in slipped \union across
=============================================================================
