----------------------------- MODULE Downloads -----------------------------
(***************************************************************************)
(* The downloads of one game (internal/download, daemon/archives.go).      *)
(*                                                                         *)
(* A download waits in the manager's queue, runs as a pipeline that writes *)
(* a part file, and lands: the part gets the archive's name, a sidecar and *)
(* a row in the index, and the download leaves the ledger, all under a     *)
(* durable landing record a later start or a retry finishes from.  The     *)
(* user starts, cancels, retries and removes; the server answers in every  *)
(* way the code tells apart; the daemon may be killed between any two      *)
(* steps.                                                                  *)
(*                                                                         *)
(* Abstracted: names and folders (a download's archive is fixed), progress *)
(* events, the contents of sidecars.  An archive is Size blocks long.      *)
(***************************************************************************)
EXTENDS Naturals, Sequences, FiniteSets, SequencesExt

CONSTANTS
    Ids,                    \* downloads
    Archives,               \* archive paths below the downloads folder
    ArchiveOf,              \* the archive a download saves
    Size,                   \* blocks of an archive
    Inodes,                 \* inode numbers part files may get
    Limits,                 \* values of the limit on concurrent pipelines
    MaxEvents,              \* bound: cancels, retries, removals, failing calls of the
                            \* file system outside the ledger, expiring links and
                            \* kills, together
    None                    \* model value: no file, no entry, nobody

SizeAssumption == Size \in Nat \ {0}

VARIABLES
    \* on disk
    part, archive,          \* files by archive path: inode and length
    sidecar, index,         \* archives with a sidecar, with a row in the index
    ledger,                 \* download -> its entry
    unsaved,                \* history: downloads no save of the ledger has recorded
    record,                 \* download -> its landing record
    \* in the manager
    queued, active, retrying, claims, pump, awake, pipe,
    limit,                  \* MaxConcurrent
    \* calls and locks
    lander,                 \* who holds the game's landing lock, and how far it is
    cancelling,             \* dequeued by a cancel that has not saved the ledger yet
    removing,               \* a removal that has made its checks
    starting,               \* landings a starting daemon has still to finish, or None
    expired,                \* downloads whose link has expired
    \* bounds and history
    events, asked, given

files   == <<part, archive, sidecar, index>>
saved   == <<ledger, unsaved, record>>
memory  == <<queued, active, claims, pump, awake, pipe>>
users   == <<retrying, cancelling, removing>>
outside == <<limit, starting, expired, asked, given>>
vars    == <<files, saved, memory, users, lander, outside, events>>

File    == [ino : Inodes, len : 0..Size]
Entry   == [status : {"queued", "downloading", "failed", "cancelled"}, done : 0..1, named : BOOLEAN]
Pipe    == [at : {"resolve", "request", "stream", "check", "record", "landing", "exit"},
            got : 0..Size, ino : Inodes \union {None},
            named : BOOLEAN, stop : BOOLEAN]
Landing == [id : Ids, by : {"pipeline", "retry", "startup"},
            at : {"match", "sidecar", "index", "ledger", "record"}]

ValuesAssumption ==
    /\ IsFiniteSet(Ids) /\ ArchiveOf \in [Ids -> Archives] /\ Limits \subseteq Nat
    /\ None \notin File \cup Entry \cup Ids /\ \A ids \in SUBSET Ids : None # ids

\* LedgerEntry.Terminal
Terminal(e) == e.status \in {"failed", "cancelled"}

\* UpsertLedgerEntry: one entry, the file replaced whole.  Any save may fail, and
\* all callers but one ignore that: the old entry, or none, stays.  Bounds: the
\* save of a call fails while MaxEvents still leaves an event that could tell
\* (SaveMayFail), that of a pipeline before the first event (Upsert).
Saves(id, e)       == ledger' = [ledger EXCEPT ![id] = e] /\ unsaved' = unsaved \ {id}
SaveMayFail        == events < MaxEvents
Upsert(id, e)      == Saves(id, e) \/ (events = 0 /\ UNCHANGED <<ledger, unsaved>>)
CallUpserts(id, e) == Saves(id, e) \/ (SaveMayFail /\ UNCHANGED <<ledger, unsaved>>)

\* signalPump: one slot, a full one is left alone
Signal == pump' = TRUE

\* resolveArchiveDestination
Dest(id) == ArchiveOf[id]

Up == starting = None

\* claimDestination
Free(id) == claims[Dest(id)] = None

\* Manager.IsActive
IsActive(id) == id \in active \/ Contains(queued, id) \/ retrying[id] # None

-----------------------------------------------------------------------------
\* The user's calls

NewEntry(status) == [status |-> status, done |-> 0, named |-> FALSE]

\* a Download, queued
Waiting(got, named) ==
    [at |-> "resolve", got |-> got, ino |-> None, named |-> named, stop |-> FALSE]

\* what is left of it when nobody holds it
Idle == [at |-> "exit", got |-> 0, ino |-> None, named |-> FALSE, stop |-> FALSE]

\* BytesDone: only whether there is any is ever looked at
Done(got) == IF got > 0 THEN 1 ELSE 0

\* StartDownloadForGame
Start(id) ==
    /\ Up /\ id \notin asked /\ id \notin expired
    /\ asked' = asked \union {id}
    /\ \/ Saves(id, NewEntry("queued"))
       \/ SaveMayFail /\ UNCHANGED ledger /\ unsaved' = unsaved \union {id}
    /\ queued' = Append(queued, id)
    /\ pipe' = [pipe EXCEPT ![id] = Waiting(0, FALSE)]
    /\ Signal
    /\ UNCHANGED <<files, record, active, claims, awake, users, lander, limit, starting,
                   expired, given, events>>

Event  == events < MaxEvents /\ events' = events + 1
Called == Up /\ Event

\* CancelDownload, an active download: its context is cancelled
CancelActive(id) ==
    /\ Called /\ id \in active
    /\ pipe' = [pipe EXCEPT ![id].stop = TRUE]
    /\ UNCHANGED <<files, saved, queued, active, claims, pump, awake, users, lander, limit,
                   starting, expired, asked, given>>

\* CancelDownload, a queued one: dequeued under the lock, saved after it
CancelQueued(id) ==
    /\ Called /\ id \notin active
    /\ \E i \in DOMAIN queued : queued[i] = id /\ queued' = RemoveAt(queued, i)
    /\ cancelling' = cancelling \union {id}
    /\ UNCHANGED <<files, saved, active, claims, pump, awake, pipe, retrying, removing, lander,
                   limit, starting, expired, asked, given>>

SaveCancel(id) ==
    /\ id \in cancelling
    /\ cancelling' = cancelling \ {id}
    /\ CallUpserts(id, [status |-> "cancelled", done |-> Done(pipe[id].got), named |-> pipe[id].named])
    /\ pipe' = IF IsActive(id) THEN pipe ELSE [pipe EXCEPT ![id] = Idle]
    /\ UNCHANGED <<files, record, queued, active, claims, pump, awake, retrying, removing,
                   lander, outside, events>>

\* CancelDownload, neither: the ledger's entry is marked
CancelIdle(id) ==
    /\ Called /\ id \notin active /\ ~Contains(queued, id) /\ ledger[id] # None
    /\ CallUpserts(id, [ledger[id] EXCEPT !.status = "cancelled"])
    /\ UNCHANGED <<files, record, memory, users, lander, limit, starting, expired, asked,
                   given>>

\* ArchiveService.RetryDownload with a landing record: finish the landing
RetryLanding(id) ==
    /\ Called /\ record[id] # None
    /\ lander = None
    /\ IF ~Free(id)
       THEN UNCHANGED <<claims, lander>>                \* ErrArchiveDownloadBusy
       ELSE /\ claims' = [claims EXCEPT ![Dest(id)] = id]
            /\ lander' = [id |-> id, by |-> "retry", at |-> "match"]
    /\ UNCHANGED <<files, saved, queued, active, pump, awake, pipe, users, limit, starting,
                   expired, asked, given>>

\* Manager.RetryDownload up to reading the ledger.  An active or queued
\* download, or one being retried, is left as it is.
RetryAdmit(id) ==
    /\ Called /\ record[id] = None
    /\ id \notin active /\ ~Contains(queued, id) /\ retrying[id] = None
    /\ ledger[id] # None /\ id \notin expired
    /\ retrying' = [retrying EXCEPT ![id] = [entry |-> ledger[id], saved |-> FALSE]]
    /\ UNCHANGED <<files, saved, memory, cancelling, removing, lander, limit, starting, expired,
                   asked, given>>

RetrySave(id) ==
    /\ retrying[id] # None /\ ~retrying[id].saved
    /\ CallUpserts(id, [retrying[id].entry EXCEPT !.status = "queued"])
    /\ retrying' = [retrying EXCEPT ![id].saved = TRUE]
    /\ UNCHANGED <<files, record, memory, cancelling, removing, lander, outside, events>>

RetryQueue(id) ==
    /\ retrying[id] # None /\ retrying[id].saved
    /\ queued' = Append(queued, id)
    /\ pipe' = [pipe EXCEPT ![id] = Waiting(retrying[id].entry.done, retrying[id].entry.named)]
    /\ retrying' = [retrying EXCEPT ![id] = None]
    /\ Signal
    /\ UNCHANGED <<files, saved, active, claims, awake, cancelling, removing, lander, outside,
                   events>>

\* RemoveArchive up to the ledger's status: a live download is busy

RemoveCheck(id, rel) ==
    /\ Called /\ removing = None
    /\ ~IsActive(id)
    /\ rel => ~\E o \in active : pipe[o].named /\ Dest(o) = Dest(id)
    /\ IF ledger[id] = None THEN rel ELSE Terminal(ledger[id])
    /\ removing' = [id |-> id, rel |-> rel, at |-> IF ledger[id] = None THEN "files" ELSE "entry"]
    /\ UNCHANGED <<files, saved, memory, retrying, cancelling, lander, limit, starting, expired,
                   asked, given>>

\* RemoveArchive of a path alone, the row of a finished download: no check
RemoveRow(id) ==
    /\ Called /\ removing = None /\ Dest(id) \in index
    /\ removing' = [id |-> id, rel |-> TRUE, at |-> "files"]
    /\ UNCHANGED <<files, saved, memory, retrying, cancelling, lander, limit, starting, expired,
                   asked, given>>

Removes(at) == removing # None /\ removing.at = at

\* The landing record first, under the landing lock, then the ledger's entry
RemoveEntry ==
    /\ Removes("entry")
    /\ \/ /\ record[removing.id] # None /\ lander = None
          /\ record' = [record EXCEPT ![removing.id] = None]
          /\ UNCHANGED <<ledger, removing>>
       \/ /\ record[removing.id] = None
          /\ ledger' = [ledger EXCEPT ![removing.id] = None]
          /\ removing' = IF removing.rel THEN [removing EXCEPT !.at = "files"] ELSE None
          /\ UNCHANGED record
    /\ given' = given \union {removing.id}
    /\ UNCHANGED <<files, unsaved, memory, retrying, cancelling, lander, limit, starting, expired, asked,
                   events>>

\* With a path: the archive, its sidecar and part, the row ...
RemoveFiles ==
    /\ Removes("files")
    /\ LET a == Dest(removing.id)
       IN /\ part' = [part EXCEPT ![a] = None]
          /\ archive' = [archive EXCEPT ![a] = None]
          /\ sidecar' = sidecar \ {a}
          /\ index' = index \ {a}
          /\ given' = given \union {o \in asked : Dest(o) = a}
    /\ removing' = [removing EXCEPT !.at = "others"]
    /\ UNCHANGED <<saved, memory, retrying, cancelling, lander, limit, starting, expired, asked,
                   events>>

\* ... and every other download of that archive
RemoveOthers ==
    LET same == {o \in Ids : Dest(o) = Dest(removing.id) /\ ledger[o] # None /\ ledger[o].named}
    IN /\ Removes("others")
       /\ (\E o \in same : record[o] # None) => lander = None
       /\ record' = [o \in Ids |-> IF o \in same THEN None ELSE record[o]]
       /\ ledger' = [o \in Ids |-> IF o \in same THEN None ELSE ledger[o]]
       /\ given' = given \union same
       /\ removing' = None
       /\ UNCHANGED <<files, unsaved, memory, retrying, cancelling, lander, limit, starting, expired,
                      asked, events>>

\* The index, a record or the ledger cannot be read or saved: the removal is
\* reported as failed and what it has removed stays removed.
RemoveFails ==
    /\ removing # None /\ Event
    /\ removing' = None
    /\ given' = given \union {removing.id}
    /\ UNCHANGED <<files, saved, memory, retrying, cancelling, lander, limit, starting, expired,
                   asked>>

-----------------------------------------------------------------------------
\* The queue pump

\* runQueuePump takes the signal
PumpWakes ==
    /\ Up /\ ~awake /\ pump
    /\ pump' = FALSE /\ awake' = TRUE
    /\ UNCHANGED <<files, saved, queued, active, claims, pipe, users, lander, outside, events>>

Room == Cardinality(active) < limit /\ queued # <<>>

\* ... and starts pipelines until the limit is reached or the queue is empty
PumpStarts ==
    /\ awake /\ Room
    /\ active' = active \union {Head(queued)}
    /\ queued' = Tail(queued)
    /\ UNCHANGED <<files, saved, claims, pump, awake, pipe, users, lander, outside, events>>

PumpSleeps ==
    /\ awake /\ ~Room
    /\ awake' = FALSE
    /\ UNCHANGED <<files, saved, queued, active, claims, pump, pipe, users, lander, outside,
                   events>>

-----------------------------------------------------------------------------
\* The pipeline of one download (runPipeline)

At(id, at) == id \in active /\ pipe[id].at = at

\* fail and the cancelled exit: the entry is saved, the pipeline is not over yet
Ending(id, status, got) ==
    /\ pipe' = [pipe EXCEPT ![id].at = "exit", ![id].got = got]
    /\ Upsert(id, [status |-> status, done |-> Done(got), named |-> pipe[id].named])

Fails(id) == Ending(id, "failed", pipe[id].got)

\* the deferred calls: the archive is free, the place is free, the pump is told
Exit(id) ==
    /\ At(id, "exit")
    /\ claims' = [a \in Archives |-> IF claims[a] = id THEN None ELSE claims[a]]
    /\ active' = active \ {id}
    /\ pipe' = [pipe EXCEPT ![id] = Idle]
    /\ Signal
    /\ UNCHANGED <<files, saved, queued, awake, users, lander, outside, events>>

\* The link cannot be resolved, or another pipeline saves this archive
Unresolved(id) ==
    /\ At(id, "resolve")
    /\ \/ Fails(id)
       \/ /\ ~Free(id)
          /\ pipe' = [pipe EXCEPT ![id].at = "exit", ![id].named = TRUE]
          /\ Upsert(id, [status |-> "failed", done |-> Done(pipe[id].got), named |-> TRUE])
    /\ UNCHANGED <<files, record, queued, active, claims, pump, awake, users, lander, outside,
                   events>>

\* partSize, and 0 when the ledger says the part is to be written anew
ResumeFrom(id) ==
    IF (pipe[id].named /\ pipe[id].got = 0) \/ part[Dest(id)] = None THEN 0 ELSE part[Dest(id)].len

Resolve(id) ==
    /\ At(id, "resolve") /\ Free(id)
    /\ claims' = [claims EXCEPT ![Dest(id)] = id]
    /\ pipe' = [pipe EXCEPT ![id].at = "request", ![id].named = TRUE, ![id].got = ResumeFrom(id)]
    /\ Upsert(id, [status |-> "downloading", done |-> Done(ResumeFrom(id)), named |-> TRUE])
    /\ UNCHANGED <<files, record, queued, active, pump, awake, users, lander, outside, events>>

\* a new inode: one no file and no record has
FreeInodes == {i \in Inodes :
    /\ \A a \in Archives : (part[a] # None => part[a].ino # i) /\ (archive[a] # None => archive[a].ino # i)
    /\ \A d \in Ids : record[d] # None => record[d].ino # i
    /\ \A d \in active : pipe[d].ino # i}
FreshInode == CHOOSE i \in FreeInodes : TRUE

\* openArchivePart and the truncation: the part is made when it is missing
Opened(id, from) ==
    LET a == Dest(id)
        f == IF part[a] = None THEN [ino |-> FreshInode, len |-> 0] ELSE part[a]
    IN IF from = 0 THEN [f EXCEPT !.len = 0] ELSE f

\* The answer is used from block `from` on
Answered(id, from) ==
    LET f == Opened(id, from)
    IN /\ part[Dest(id)] = None => FreeInodes # {}      \* there are always more
       /\ part' = [part EXCEPT ![Dest(id)] = f]
       /\ pipe' = [pipe EXCEPT ![id].at = "stream", ![id].got = from, ![id].ino = f.ino]

\* streamToFile up to the body: 200 from the start, 206 for the rest; after a
\* 416 the request is made again without a range
Respond(id) ==
    /\ At(id, "request")
    /\ \/ Answered(id, 0)
       \/ pipe[id].got \in 1..(Size - 1) /\ Answered(id, pipe[id].got)
    /\ UNCHANGED <<archive, sidecar, index, saved, queued, active, claims, pump, awake, users,
                   lander, outside, events>>

\* An error, a status the code refuses, or a range that does not fit: the last
\* one has the next attempt start over
NoAnswer(id) ==
    /\ At(id, "request")
    /\ \/ Fails(id)
       \/ pipe[id].got > 0 /\ Ending(id, "failed", 0)
    /\ UNCHANGED <<files, record, queued, active, claims, pump, awake, users, lander, outside,
                   events>>

\* The file the pipeline has open still has the part's name
IsOpen(id) == part[Dest(id)] # None /\ part[Dest(id)].ino = pipe[id].ino

\* A block arrives; now and then the ledger is brought up to date
Write(id) ==
    /\ At(id, "stream") /\ pipe[id].got < Size
    /\ pipe' = [pipe EXCEPT ![id].got = @ + 1]
    /\ part' = IF IsOpen(id) /\ part[Dest(id)].len < Size
               THEN [part EXCEPT ![Dest(id)].len = @ + 1] ELSE part
    /\ Upsert(id, [status |-> "downloading", done |-> 1, named |-> TRUE])
    /\ UNCHANGED <<archive, sidecar, index, record, queued, active, claims, pump, awake, users,
                   lander, outside, events>>

\* The body ends where the server's file ends, and where it was said to end
StreamEnds(id) ==
    /\ At(id, "stream") /\ pipe[id].got = Size
    /\ pipe' = [pipe EXCEPT ![id].at = "check"]
    /\ UNCHANGED <<files, saved, queued, active, claims, pump, awake, users, lander, outside,
                   events>>

\* The connection breaks, or the part cannot be written
StreamFails(id) ==
    /\ At(id, "stream")
    /\ Fails(id)
    /\ UNCHANGED <<files, record, queued, active, claims, pump, awake, users, lander, outside,
                   events>>

\* The context is seen cancelled: the entry is saved and the part removed
Cancelled(id) ==
    /\ pipe[id].stop /\ (At(id, "request") \/ At(id, "stream"))
    /\ Ending(id, "cancelled", pipe[id].got)
    /\ part' = [part EXCEPT ![Dest(id)] = None]
    /\ UNCHANGED <<archive, sidecar, index, record, queued, active, claims, pump, awake, users,
                   lander, outside, events>>

\* The part has the length that was received.  (It is also compared with the
\* announced one, which the body has been checked against already.)
PartIsWhole(id) == part[Dest(id)] # None /\ part[Dest(id)].len = pipe[id].got

\* an error of the file system
MayFail == Event

\* The length is checked and the entry saved, which must succeed here
Check(id) ==
    /\ At(id, "check")
    /\ \/ /\ PartIsWhole(id)
          /\ Saves(id, [status |-> "downloading", done |-> Done(pipe[id].got), named |-> TRUE])
          /\ pipe' = [pipe EXCEPT ![id].at = "record"]
          /\ UNCHANGED events
       \/ ~PartIsWhole(id) /\ Fails(id) /\ UNCHANGED events
       \/ MayFail /\ Fails(id)
    /\ UNCHANGED <<files, record, queued, active, claims, pump, awake, users, lander, outside>>

\* writeLanding, under the game's landing lock.  A save that fails may have
\* put the record there.
Record(id) ==
    LET rec == [ino |-> part[Dest(id)].ino, len |-> part[Dest(id)].len]
    IN /\ At(id, "record") /\ lander = None
       /\ \/ /\ part[Dest(id)] # None
             /\ record' = [record EXCEPT ![id] = rec]
             /\ lander' = [id |-> id, by |-> "pipeline", at |-> "match"]
             /\ pipe' = [pipe EXCEPT ![id].at = "landing"]
             /\ UNCHANGED <<ledger, unsaved, events>>
          \/ /\ part[Dest(id)] = None
             /\ Fails(id)
             /\ UNCHANGED <<record, lander, events>>
          \/ /\ part[Dest(id)] # None /\ MayFail
             /\ \E r \in {record[id], rec} : record' = [record EXCEPT ![id] = r]
             /\ Fails(id)
             /\ UNCHANGED lander
    /\ UNCHANGED <<files, queued, active, claims, pump, awake, users, outside>>

-----------------------------------------------------------------------------
\* Landing (finishLandingLocked), for a pipeline, a retry or a starting daemon

\* fileMatchesLanding
Matches(f, id) == f # None /\ record[id] # None /\ f = record[id]

Lands(at) == lander # None /\ lander.at = at

\* The landing is over with an error.  A pipeline fails; a starting daemon
\* marks an entry that is still live; a retry reports it.
GivesUp ==
    LET id == lander.id
    IN /\ lander' = None
       /\ CASE lander.by = "pipeline" -> Fails(id) /\ UNCHANGED <<claims, starting>>
            [] lander.by = "retry" ->
                 /\ claims' = [claims EXCEPT ![Dest(id)] = None]
                 /\ UNCHANGED <<ledger, unsaved, pipe, starting>>
            [] lander.by = "startup" ->
                 /\ starting' = starting \ {id}
                 /\ \/ /\ ledger[id] # None /\ ~Terminal(ledger[id])
                       /\ ledger' = [ledger EXCEPT ![id].status = "failed"]
                    \/ UNCHANGED ledger
                 /\ UNCHANGED <<unsaved, claims, pipe>>

rest == <<queued, active, pump, awake, users, limit, expired, asked, given>>

LandFails ==
    /\ lander # None
    /\ MayFail
    /\ GivesUp
    /\ UNCHANGED <<files, record, rest>>

Landed(at) ==
    /\ lander' = [lander EXCEPT !.at = at]
    /\ UNCHANGED <<claims, pipe, starting, events, rest>>

\* The archive is already the recorded file, or the part is and is renamed,
\* which the folder's sync may report as failed
LandRename ==
    /\ Lands("match")
    /\ LET id == lander.id
           a  == Dest(id)
       IN \/ /\ Matches(archive[a], id)
             /\ Landed("sidecar")
             /\ UNCHANGED <<part, archive, ledger, unsaved>>
          \/ /\ ~Matches(archive[a], id) /\ Matches(part[a], id)
             /\ archive' = [archive EXCEPT ![a] = part[a]]
             /\ part' = [part EXCEPT ![a] = None]
             /\ \/ Landed("sidecar") /\ UNCHANGED <<ledger, unsaved>>
                \/ MayFail /\ GivesUp /\ UNCHANGED rest      \* renamed, not synced
          \/ /\ ~Matches(archive[a], id) /\ ~Matches(part[a], id)
             /\ GivesUp
             /\ UNCHANGED <<part, archive, events, rest>>
    /\ UNCHANGED <<sidecar, index, record>>

\* Mutant: the download leaves the ledger when its archive has its name.
LandSidecarForgets ==
    /\ Lands("sidecar")
    /\ sidecar' = sidecar \union {Dest(lander.id)}
    /\ ledger' = [ledger EXCEPT ![lander.id] = None]
    /\ Landed("index")
    /\ UNCHANGED <<part, archive, index, record, unsaved>>

LandSidecar ==
    /\ Lands("sidecar")
    /\ sidecar' = sidecar \union {Dest(lander.id)}
    /\ Landed("index")
    /\ UNCHANGED <<part, archive, index, saved>>

LandIndex ==
    /\ Lands("index")
    /\ index' = index \union {Dest(lander.id)}
    /\ Landed("ledger")
    /\ UNCHANGED <<part, archive, sidecar, saved>>

LandLedger ==
    /\ Lands("ledger")
    /\ ledger' = [ledger EXCEPT ![lander.id] = None]
    /\ Landed("record")
    /\ UNCHANGED <<files, record, unsaved>>

\* The record goes last; then whoever landed goes on
LandRecord ==
    /\ Lands("record")
    /\ record' = [record EXCEPT ![lander.id] = None]
    /\ lander' = None
    /\ CASE lander.by = "pipeline" ->
              pipe' = [pipe EXCEPT ![lander.id].at = "exit"] /\ UNCHANGED <<claims, starting>>
         [] lander.by = "retry" ->
              /\ claims' = [claims EXCEPT ![Dest(lander.id)] = None]
              /\ UNCHANGED <<pipe, starting>>
         [] lander.by = "startup" ->
              starting' = starting \ {lander.id} /\ UNCHANGED <<claims, pipe>>
    /\ UNCHANGED <<files, ledger, unsaved, events, rest>>

-----------------------------------------------------------------------------
\* Kill and start

Crash ==
    /\ Event
    /\ queued' = <<>> /\ active' = {} /\ claims' = [a \in Archives |-> None] /\ pump' = FALSE /\ awake' = FALSE
    /\ pipe' = [id \in Ids |-> Idle]
    /\ retrying' = [id \in Ids |-> None] /\ cancelling' = {} /\ removing' = None /\ lander' = None
    /\ starting' = {id \in Ids : record[id] # None}
    /\ UNCHANGED <<files, saved, limit, expired, asked, given>>

\* RecoverLandings takes one landing record
RecoverLanding(id) ==
    /\ ~Up /\ id \in starting /\ lander = None
    /\ lander' = [id |-> id, by |-> "startup", at |-> "match"]
    /\ UNCHANGED <<files, saved, memory, users, outside, events>>

\* RehydrateLedger: live entries are queued again; one with a landing record
\* or an expired link fails, if that can be saved
Live == {id \in Ids : ledger[id] # None /\ ~Terminal(ledger[id])}

Rehydrate ==
    LET back == {id \in Live : record[id] = None /\ id \notin expired}
    IN /\ starting = {} /\ lander = None
       /\ queued' \in SetToSeqs(back)
       /\ pipe' = [id \in Ids |-> IF id \in back THEN Waiting(ledger[id].done, ledger[id].named) ELSE pipe[id]]
       /\ \E failed \in SUBSET (Live \ back) :
            ledger' = [id \in Ids |-> IF id \in failed THEN [ledger[id] EXCEPT !.status = "failed"]
                                      ELSE ledger[id]]
       /\ Signal
       /\ starting' = None
       /\ UNCHANGED <<files, record, unsaved, active, claims, awake, users, lander, limit, expired,
                      asked, given, events>>

\* IsExpired
Expire(id) ==
    /\ id \in asked \ expired /\ Event
    /\ expired' = expired \union {id}
    /\ UNCHANGED <<files, saved, memory, users, lander, limit, starting, asked, given>>

-----------------------------------------------------------------------------
Init ==
    /\ part = [a \in Archives |-> None] /\ archive = [a \in Archives |-> None]
    /\ sidecar = {} /\ index = {}
    /\ ledger = [id \in Ids |-> None] /\ unsaved = {} /\ record = [id \in Ids |-> None]
    /\ queued = <<>> /\ active = {} /\ claims = [a \in Archives |-> None] /\ pump = FALSE /\ awake = FALSE
    /\ pipe = [id \in Ids |-> Idle]
    /\ retrying = [id \in Ids |-> None] /\ cancelling = {} /\ removing = None
    /\ limit \in Limits
    /\ lander = None /\ starting = None /\ expired = {}
    /\ events = 0 /\ asked = {} /\ given = {}

UserCalls(id) ==
    \/ Start(id) \/ CancelActive(id) \/ CancelQueued(id) \/ CancelIdle(id)
    \/ RetryLanding(id) \/ RetryAdmit(id) \/ RemoveRow(id) \/ \E rel \in BOOLEAN : RemoveCheck(id, rel)

CallsGoOn(id) == SaveCancel(id) \/ RetrySave(id) \/ RetryQueue(id)

Pipeline(id) ==
    \/ Unresolved(id) \/ Resolve(id) \/ Respond(id) \/ NoAnswer(id) \/ Write(id) \/ StreamEnds(id)
    \/ StreamFails(id) \/ Cancelled(id) \/ Check(id) \/ Record(id) \/ Exit(id)

Pump == PumpWakes \/ PumpStarts \/ PumpSleeps

Land == LandRename \/ LandSidecar \/ LandIndex \/ LandLedger \/ LandRecord \/ LandFails

Next ==
    \/ \E id \in Ids : UserCalls(id) \/ CallsGoOn(id) \/ Pipeline(id) \/ Expire(id) \/ RecoverLanding(id)
    \/ RemoveEntry \/ RemoveFiles \/ RemoveOthers \/ RemoveFails \/ Pump \/ Land \/ Rehydrate \/ Crash

Spec == Init /\ [][Next]_vars

-----------------------------------------------------------------------------
TypeOK ==
    /\ part \in [Archives -> File \union {None}] /\ archive \in [Archives -> File \union {None}]
    /\ sidecar \subseteq Archives /\ index \subseteq Archives
    /\ ledger \in [Ids -> Entry \union {None}] /\ record \in [Ids -> File \union {None}]
    /\ queued \in Seq(Ids) /\ active \subseteq Ids /\ Cardinality(active) =< limit
    /\ pipe \in [Ids -> Pipe] /\ lander \in Landing \union {None}

Kept(id) ==
    \/ ledger[id] # None
    \/ archive[Dest(id)] # None /\ Dest(id) \in sidecar \intersect index

\* Once the ledger has recorded what the user asked for, it is never forgotten:
\* until the user removes it, a download is in the ledger, where a restart or a
\* retry finds it, or its archive is there with its sidecar and its row,
\* whatever fails later and wherever the daemon is killed.
NothingForgotten == \A id \in asked \ (given \union unsaved) : Kept(id)

\* What the user is told: the link was added to Gorganizer, so it is in the
\* Downloads tab until the user removes it (README.md:53, nxm.go:122), waiting
\* or running in the manager, in the ledger, or as an archive.  It is gone when
\* the save of its entry failed (downloader.go:175) and the daemon was killed.
AddedIsKept == \A id \in asked \ (given \union cancelling) : Kept(id) \/ IsActive(id)

\* An archive's name only ever holds a whole archive: no interrupted, resumed
\* or restarted transfer, no second download of the same archive and no
\* landing finished later publishes a part of one.
ArchivesWhole == \A a \in Archives : archive[a] # None => archive[a].len = Size

\* No wake-up of the pump is lost when downloads are started, retried and
\* cancelled while others end: with room for a pipeline and one waiting, the
\* pump is at work or has been told, so the queue moves.
PumpIsTold == Up /\ Room => awake \/ pump
=============================================================================
