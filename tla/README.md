# A verification of Gorganizer

Gorganizer is a mod manager for Linux. A Go daemon (`cmd/gorganizerd`,
`internal/`) deploys a profile of mods by putting a *farm* - a folder of hard
links, symbolic links and copies that merges the base game and the enabled mods -
in place of the game's own `Data` folder, which waits at
`Data.orig-gorganizer-backup` meanwhile. A Qt client (`src/`) and a
command-line client talk to the daemon over gRPC. Most of what can go wrong is
in the daemon: it moves, replaces and deletes folders that hold the only copy of
the user's game, while the user, the game, Steam and crashes come in between.

This directory holds TLA+ modules that model that daemon and the command-line
tools around it, the TLC configurations that check them, and proofs checked by
TLAPS. `PROJECT.json` lists the components, runs, mutants, findings, hazards and
theorems, and maps every definition to the lines of source it models.

    tlc -config farm_safety.cfg MCFarm.tla      # any run of section 3, with
                                                # the module its table names
    tlapm FarmProofs.tla                        # the proofs; so for every module
                                                # whose name ends in Proofs

## 1. Inventory

The system's parts. The last column names the module; "-" is not modelled.

| Component | State it keeps | What is hard about it | Correct when | Module |
|---|---|---|---|---|
| Mod farm: `vfs/mount.go`, `deactivation.go`, `recover.go`, `restore_record.go`, `sentinel.go` | `Data`, its backup, staging, old-farm and retired siblings; four records; the `MountManager` | every operation is several renames and removals; a crash, an error or another program between any two | the original is never lost, output is never destroyed, recovery ends in a state the user can go on from | `Farm` |
| Capture of game output: `vfs/materialize.go`, `maintenance.go`, `farm_manifest.go`, `farm_classification.go` | Overwrite, preserved batches, the farm manifest | the game may write after a capture; inodes are used again | every file the game wrote is somewhere | `Farm`, `FarmTree` |
| Merged tree: `vfs/tree.go`, `walk.go`, `casefold.go`, `daemon/moddeps_view.go` | - | spelling, folders over files, links in and out of layers | the farm is what the layers say; what tools are shown is what the game sees | `FarmTree` |
| Storefront and Steam maintenance: `vfs/storefront.go`, `daemon/storefront.go` | the Steam baseline, the maintenance marker | the decision is made, recorded and used at different times | output made on top of changed files is never mixed with the mods' | `Farm` |
| VFS service and startup recovery: `daemon/vfs_service.go`, `recovery.go` | the managers, pending recoveries | which check comes first; a refused operation must leave a way on | what it reports is what is on disk | `Farm`, `Session` |
| Session, fence, launch tickets: `daemon/session.go`, `session_ticket.go`, `fence.go`, `launch.go` | reservations, process table, tickets and flags, held landings | races between reservations, launches and timers | no exclusive operation while a game starts or runs | `Session` |
| Game-root deployment: `vfs/root_deployment.go` | intent, manifest, backups beside the executables | crash between file replacements; Steam replaces a deployed file | every original in place or in the backup tree | `RootDeployment` |
| SMAPI transactions: `smapi/installer.go`, `stage.go`, `txn.go`, `record.go` | plan, journal, saved originals, install record | one commit point over many files | before it: rolled back; after it: completed | `SmapiTxn` |
| SMAPI manifests and versions: `smapi/analyze.go`, `semver.go` | - | order of versions with tags; dependency cycles | what is said to load loads; what fails says why | `Manifests` |
| Replacing folders: `transfer/commit.go`, `daemon/reinstall.go`, `merge.go` | journals, staged and parked folders | two renames with no folder in between; whose journal it is | old or new folder, never neither | `FolderSwap` |
| Mods, profiles and what is deployed of them: `daemon/mods.go`, `profiles.go`, `mod_deployment.go`, `transfer_service.go` | mod folders, modlists, layers to deploy | three kinds of locks that not everybody takes | what is deployed is in the library; the user's list survives | `ModLibrary` |
| Mod installation: `daemon/install.go`, `preview_cache.go`, `install_outcome.go`, `download/install.go` | extractions, leases, recorded outcomes | eviction of a leased extraction; a lost answer | reads a whole archive, is reported as it ended | `Installs` |
| Archive rows: `daemon/archives.go`, `session.go`, `download/downloads_index.go` | the index, the installed-archive map | a map in memory built without a lock over what it is built from | at rest the map is that of the folders | `ArchiveRows` |
| Downloads: `download/downloader.go`, `landing.go`, `ledger.go` | queue, pipelines, ledger, landing records | cancel, retry, removal and completion race; crash while landing | what was asked for is not forgotten; an archive is whole | `Downloads` |
| Mod dependencies: `daemon/moddeps.go`, `depreqs.go` | the request document, outcomes of downloads | a download lands before it is recorded; a restart half-way | no request waits for nothing | `ModDeps` |
| Data migration: `migrate/plan.go`, `executor.go`, `tree.go`, `config.go` | journal with a phase | journal one step behind the disk; changes by hand | the source goes only after the copy is verified | `Migrate` |
| Releases: `release/release.go` | two links and the bundles | two links are not one step; sessions run from a bundle | both links name a whole version | `Release` |
| Service start and stop: `cmd/gorganizerctl/session.go`, `nxm.go`, `lifecycle.go` | locks, a child process | a supervisor whose child never got the lock | nobody stops what is not his | `Supervisor` |
| Offline commands: `cmd/gorganizerctl/main.go`, `uninstall.go`, `daemon/offline_recovery.go` | the instance lock | games that come and go meanwhile | nothing is deleted that a game needs to get back | `Offline` |
| Tools and their output: `daemon/executables.go`, `tool_output.go` | scratch, stage, capture mod | hard links shared with the mods; a kill in an import | mods keep their files, output is somewhere | `ToolOutput` |
| TTW: `daemon/ttw.go`, `tools/proton_external.go` | installs, the marker, the prefix lock | installers outlive the service; an exit code in a channel | what is played was finished | `TtwInstall` |
| Script extender: `daemon/script_extender.go` | files and their manifest | an update under a launch; a kill half-way | the files are one build's | `ScriptExtender` |
| Durable files: `atomicfile/durable.go` | - | an error after the change is visible | - | as steps of the others |
| Status stream: `daemon/status_coalescer.go`, `streams.go` | pending events | slow clients | the last status arrives | - |
| Plugins, load order, INI, gRPC server, Qt client, packaging | files of their formats | formats, marshalling, external programs | - | - |

How they interact: a farm operation is called by the VFS service under
`session.mu` or with the install reserved exclusively, so the farm sees one
operation at a time. Before it calls, the service asks the fence who else holds
the install, the process table and the launch tickets whether a game runs or is
being started, the pending recoveries and the loader's intent file whether mods
may be deployed at all, and the storefront code whether Steam has changed the
game; that answer is passed down as capture options. Startup recovery runs once
for every install, or is deferred while a game runs and retried by a timer, by
the user and by the next operation. A `RecoveryPending` blocks every mount of
its install until the user confirms, or the daemon is restarted. A download
lands under a shared reservation; while a recovery is deferred it is held back
and replayed after it. A landed archive is looked at for the dependency requests
that wait for it and installed if one does. Installing, removing, renaming and
importing mods hold the install shared, the mod's lock and the profiles' lock;
applying holds `session.mu` alone. Games linked to one install have a
`MountManager` each but share Data, the game-root manager and the reservations.
The service is the one process that holds the instance lock; the offline commands
and a migration take it while there is none, and a migration's journal keeps the
service from starting.

## 2. Modules

| Module | Models |
|---|---|
| `FarmDisk` | the entries of the game's parent folder: identities of directories, what a directory holds, the four records, sentinels |
| `Farm` | the operations on it, one action per system call that changes it, the surroundings, the properties |
| `FarmTree` | what a farm holds, what is told of it, and the capture of what the game wrote |
| `Session` | one install and its linked games: requests, startup recovery and its retries, launches, loader transactions, landings, shutdown and crash |
| `AtomicChange` | the abstract specification of a journalled change |
| `RootDeployment`, `SmapiTxn`, `FolderSwap` | three journalled changes of files that implement it |
| `Migrate`, `ToolOutput`, `ScriptExtender` | files changed under a journal, a stage or a record |
| `ModLibrary` | mods, modlists and deployments under concurrent calls |
| `ModDeps`, `Downloads`, `Installs`, `ArchiveRows` | from a wish to an installed mod |
| `Manifests` | the order of versions and the report on SMAPI mods |
| `Release`, `Supervisor`, `Offline`, `TtwInstall` | processes beside and around the service |
| `FarmProofs`, `FarmOutputProofs` | theorems about `Farm` |
| `SessionProofs` | theorems about `Session` |
| `RootProofs`, `SmapiProofs` | theorems about `RootDeployment` and `SmapiTxn`, and that they implement `AtomicChange` |
| `FolderProofs` | theorems about `Migrate`, `ArchiveRows` and `FolderSwap`, and that a replacement implements `AtomicChange` |
| `ReleaseProofs` | theorems about `Release` |
| `ProcessProofs` | theorems about `TtwInstall`, `Supervisor`, `Offline`, `ScriptExtender`, `Installs` and `ToolOutput` |
| `MCFarm`, `MCSession` | small instances of one module |
| `MCFiles`, `MCProcesses`, `MCLibrary`, `MCEnds` | small instances of several modules, side by side |

`Farm` and `Session` model the same operations at two levels: `Farm` has the
system calls of one operation at a time, `Session` the interleaving of many
operations, each of them one step with every result `Farm` shows it can have. In
the same way `ModLibrary` has the interleaving of calls in which a replacement
is a step or two, and `FolderSwap` takes one replacement apart; `Session` and
`ModDeps` have what becomes of a landed download, `Downloads` how it lands;
`Offline` finds games in the conditions that `SmapiTxn`, `RootDeployment` and
`Farm` leave.

### FarmDisk

`ns` is the directory listing: for `data`, `orig`, `staging`, `oldfarm` and
`retired`, the *identity* (device and inode, as `directoryAt` reads it) of the
directory with that name, and for each record its body. `dir` gives the content
of each identity, so a rename moves a folder with what it holds. A content is
abstract: whether the folder carries the overlay sentinel and the farm manifest
(`meta`), whether it holds anything else (`bulk`), which files the game wrote
that no manifest entry owns (`out`), and which layers were deployed. The random
farm id of a sentinel is identified with the directory's identity: both are made
together and travel together.

### Farm

`pc` names the next system call of the running operation; the letter before the
underscore is the function:

| Prefix | Function | Actions |
|---|---|---|
| `a_` | `MountManager.Activate` | `ABegin` ... `AClear` |
| `b_` | `rollbackActivation` | `BCheck`, `BRemove`, `BRename`, `BClear` |
| `p_` | `reMaterializeLocked` for ReMaterialize (`apply`) and Retarget | `PBegin` ... `PClear` |
| `r_` | the first capture of `deactivate`, `retireFarm`, `resumeFarmRetirement` | `DBegin`, `RCapture`, `RBegin`, `RLive`, `RRestore`, `RRetired`, `RFinish`, `RMismatch`, `RMark*`, `RRetire`, `RDrop` |
| `c_` | `CleanupStale`, `reconcileApplyIntent` | `CBegin` ... `CRestore` |
| `x_`, `f_` | `RestoreFromBackup`, `restoreRecordedBackup`, `finishRestoreCleanup` | `XBegin` ... `FDone` |

`off` is a daemon that is not running, `idle` one that runs no farm operation.
`op` holds the locals, `mgr` the fields of the `MountManager`, `outcome` what
the last recovery reported (`pending` is the pending recovery of the session).
`written`, `saved`, `batch`, `unverified` and `strangers` are history: what the
game wrote, what was saved and where, and which folders another program made.

A rename or removal together with the `SyncDir` after it has three outcomes:
done, not done, and done but reported as failed; the code's reaction to each is
followed to the end, the recursive removal included (`Remnants`: an interrupted
`RemoveAll` leaves any part of sentinel, manifest, output and the rest). A crash
may come before any step and in the middle of any removal.

The surroundings: the game writes through a complete farm at `Data`; another
program makes a `Data` folder while there is none (`ForeignData`); Steam updates
the game; the user ends Steam maintenance; the daemon stops or crashes and
starts again.

What is abstracted, and what that leaves out:

- *Power loss.* The file system commits changes of one directory in order (a
  journalling file system), so a power loss is a crash at an earlier point.
- *Writes into a half-built farm.* The game writes only through a complete farm;
  the program starts a game only after Activate has returned.
- *Identities* are not reused while any entry or record still names them.
- *Unreadable records* and sentinels before schema 3 are left out; the intents
  of the previous schema are modelled (`InheritedStates`), as is a retired farm
  whose journal the user has deleted.
- *FUSE* mounts of older versions are represented by what they leave, not by
  their unmounting. `ForceDeactivate` has no caller and is left out. The capture
  before an executable runs (`daemon/executables.go`) moves output as
  `PCapture` does and changes no name; it is left out.
- *Listing a folder* fails where the code reacts to it by leaving the folder alone
  (`LeftAlone`, `recover.go:455`); the look for empty leftovers at the end of a
  recovery (`recover.go:361`) succeeds.
- *One install.* Games that share an install are one to the farm.
- The pending recovery may be retried by the daemon when the install becomes
  free. That run of `CleanupStale` sees what the run at the next start would
  see; no operation is admitted in between.

### Session

A section of the code that holds `session.mu` from its checks to its end is one
action (`MountVFS`, `UnmountVFS`, `RebuildVFS`, ...). A request that lets go of
it in between is a *job*: `job[w]` says which kind of work the goroutine `w`
does and which of its sections comes next, so other goroutines, a game, a crash
or a shutdown may come between any two of them. Checks the code makes without
the lock (`recoveryIdle`, the preflight of a launch) are steps of their own.

| Job | Code | Stages |
|---|---|---|
| `boot` | `RecoverAll` | `start` (classified), `fenced` (reserved), then the units of `recoverUnits`, `recovered` |
| `retry` | `RetryDeferredRecovery` | `fenced`, the same units, `recovered`, `release`, `replay`, `take` |
| `restore` | `RestoreFromBackup` | `fenced`, `checked`, then loader, root or data, `ticket`, `release`, `replay`, `take` |
| `launch` | `LaunchGame` | `admitted`, `mount`, `apply`, `deploy`, `record`, `ticketed`, `handed` |
| `loader` | `installModLoader` and its like | `fenced`, `prepared`, `changing` |

| State | Code |
|---|---|
| `shared`, `exclusive` | the reservations of `fence.go`, for the fence key of the install; a game in `shared` is the handler of its landed download |
| `ticket`, `flag`, `tracked` | the launch ticket on disk; the Steam-launch times in memory; processes the daemon waits for |
| `starting`, `running` | games handed to Steam that have no process yet; the process table |
| `deferred`, `dataPending`, `rootPending`, `loaderPending` | recovery put off until the game is gone; recoveries that wait for the user |
| `replayPending`, `replayRunning`, `land` | `replayDeferredLandings`; where each landed download is in `handleLandedArchiveMode` |
| `farm`, `root`, `mounted`, `dirty` | the deployment at Data and among the game-root files; what each `MountManager` reports |
| `intent` | the loader's intent file |

What is abstracted, and what that leaves out:

- *Operations on the farm and the root files* are single steps with the results
  success, failure with nothing changed, failure half-way, and done with the
  cleanup unfinished. A crash in the middle is such a failure followed by
  `Down`. A deployment is its game and profile, not the version of its mod list.
- *Time* is two ages: a ticket or flag is `fresh` within its grace period and
  `old` after it. Steam starts a game it was handed within that period or not at
  all (`StillStarting`): a game that appears later is one the program cannot
  know of, and the code's period is chosen for it.
- *A game started without the daemon* may appear at any time except between a
  look at the process table and the work it allows (`BetweenCheckAndWork`);
  nothing the program does could exclude that moment.
- *Removing the ticket* after a successful teardown succeeds, except in a swap,
  where its failure has a path of its own.
- *The process table can be read.* When the scan fails and no launch flag or ticket
  tells of a game, the code goes on as if none ran (`fence.go:258`,
  `session.go:386`): `HolderBusy` and `TeardownBusy` have no such failure, so
  `ReadersKeepMods` and `NoReaderUnderRecovery` hold only while the scan works.
- *Left out*: `LaunchExecutable` and tools, INI and plugin files a launch
  writes, and the ordinary shared reservations of writes to the mod folders,
  which meet the fence as a landing does.

### AtomicChange and the journals that implement it

`AtomicChange` has a value that is `settled` and one that is `intended`: a change
is intended, takes effect as a whole or, where the journal can be rolled back, is
undone as a whole. After somebody else has interfered with the files nothing is
promised (`Unknown`). Each of the three modules below defines `Settled` and
`Intended` from its disk, and `MCFiles` checks the refinement
(`ChangesAtomically`), once for each kind of change; that of `RootDeployment` is
also proved.

**`RootDeployment`** is `vfs/root_deployment.go`: links next to the executables.
State: what is at each path and in the backup tree, the folder made for nested
paths, manifest and intent. One action per system call (`remove`, `mkdir`,
`install`, `rmdir`, `manifest`, `intent`) in the order of `Apply`, `Deactivate`
and `Recover`; any may fail, and the daemon may be killed between two. Steam and
the player change files between operations. It never rolls back: recovery goes
forward. *Left out*: spelling of paths, protected names, malformed records.

**`SmapiTxn`** is `smapi/installer.go` and `txn.go`: the stage, the plan, the
journal, originals saved, targets moved to the backup, new entries moved in, one
commit point, the clean-up; `rollback` and `Recover` from every prefix. The
player edits the loader's configuration, changes files and updates the game at
any time. Entries carry an identity, because the code compares inodes. *Left out*:
bundled mods below `Mods`, the installer's process, folders made on the way.

**`FolderSwap`** has the replacement of a folder by an import
(`transfer/commit.go`) and by a reinstall, a merge or a replacing install
(`daemon/reinstall.go`), both recoveries of a start in the code's order
(`phase`), and what users do to the folders meanwhile. An inode is never used
again. *Not resolved by the code, and so not claimed*: stages of transfers that
no journal names are never swept; creating and deleting a profile ignores a
pending journal; a reinstall whose last sync fails reports a failure over a
replaced folder.

### Other changes of files

**`Migrate`** is `migrate-data`: plan, confirmation, the journal, the items'
phases by rename or by copy, settings, `--resume`, and the check that keeps the
service from starting meanwhile. Faults are failing steps and kills; hands change
a file or add one. A changed file shows in its size; checking a parked folder and
deleting it are one step. A move somebody changed by hand stays pending for good:
`MoveFinishes` has that as its premise.

**`ToolOutput`** is one run of a tool, from `LaunchExecutable`'s admission to the
goroutine that collects its output, for every output policy. Files are inodes,
because farm, mods and Overwrite share them through hard links; what is in one is the
number of the run that wrote it, 0 before any did. The history variable `overtaken`
holds the paths `ToolWorkKept` says nothing about, where the code itself replaces what
a tool wrote: a copied-up input over the output mod's own newer file (`CopiesOlder`);
a write in place to a farm file whose folder was replaced since (`Orphaned`); an import
into Overwrite under a mounted farm, which the next sweep may replace (`Install`); and an
import that leaves a mounted farm unmarked, because no profile is deployed or its lists
do not load, so that an older private copy in the farm can be captured over the imported
file later (`CleanUp`; section 6). What the code does not promise, so no property does:
after an in-place write under `selected_copy_up` the run always reports a failure; scratch
is kept when its import failed; and when an import can neither publish the new folder
nor rename the old one back (`RollbackFails`, two faults) the mod's place stays empty.
`ImportWhole` then says only that every file it had is in the folder parked beside it
(section 6). *Left out*: the prefix lock, arguments, LOOT and INI imports, a tool that
outlives a kill.

**`ScriptExtender`** is the install of an extender, file by file with the
manifest of hashes last, beside a launch that verifies it. A file that cannot be
hashed is skipped and the manifest saved without it (`Record` writes any part);
a manifest that is not there or cannot be read is only warned about, and the
launch goes on `unverified`. So `PlaysAsRecorded` is about a launch that was
checked and the files the manifest has; of skipped files and of unverified
launches it says nothing (section 6). A manifest that cannot be written after an
upgrade leaves the old one, and launches are refused. *Left out*: launches without
a profile, tools' configuration, the runtime library; mounting and the game-root
deployment are one step.

### The library

**`ModLibrary`** has two calls at a time, each in its steps: setting a list,
applying, installing, merging, reinstalling, uninstalling, renaming, importing a
profile with each conflict policy, extracting Overwrite, a tool's end; and
mounting and unmounting. Locks are guards: a step that needs a mod's lock, the
profiles' lock or `session.mu` is enabled when nobody else holds it. `arrived` is
history: folders that came since the last deployment. *As the code has it*:
`ExtractOverwriteToMod` takes no mod lock; a rename to a name that a list already
holds without a folder gives two entries; a rename killed between folder and
lists is not recovered; an unmount that fails puts the game root back from the
current list.

**`ModDeps`** has fetches, their downloads, the landing's work on the document,
users (browser links, enabling, removing mods) and restarts. Each change of the
document is one step, everything between is not. History variables exempt what
the code lets go: `late` holds entries whose download landed before its ID was
recorded, or that attached to an install already settled; `missed` says that the
document could not be saved since the start; `slipped` and `across` hold fetches
whose listing of a mod failed or was overtaken. A kill between the queuing of a
download and its record, and a failed registration, leave entries for the next
start. *Left out*: which mods are looked up, the
retention of batches, documents of older versions, archives that are merged.

**`Downloads`** has the manager's queue, its pump, the pipelines in their stages,
cancel, retry, removal, the landing's five durable steps under the game's lock,
the ledger, and the start that finishes what a kill cut. An archive is `Size`
blocks; a part file has an inode. *Left out*: links and the storefront's API,
names, sidecar contents. A save of the ledger may fail, and all callers but one
ignore that (`Upsert`, `Start`): the old entry stays, or there is none. The bounds
are `SaveMayFail`, by which the save of a call fails while an event is left that could
tell, and that of `Upsert`, by which the save of a pipeline fails before the first. The history
variable `unsaved` holds the downloads no save has recorded yet; `NothingForgotten`
says nothing of those (section 6). Reading the ledger or a landing record does not
fail: the code skips such an entry at a start. *As the code has it*: a retry between a failure and the
end of its pipeline changes nothing, and the ledger of a cancel may be written
after a later retry queued the download.

**`Installs`** has previews, the cache of extractions with leases, installs in
each mode (new, merged, replacing), cancel, kill and shutdown, and outcomes that
a client asks for after a lost connection. *Left out*: formats, FOMOD choices;
the temporary folders of an installer that a kill leaves. **`ArchiveRows`** has
index, installed-archive map and pushed rows under concurrent installs,
uninstalls, renames, landings and removals. Its property is about the map and the
answers to listings; the rows pushed to clients are best effort and no property
constrains them. `overtaken` exempts two cases of the
code: a scan that a change overtakes is stored after the change invalidated the
map (`session.go:432`), and a rename or swap that is rolled back or reported as
failed never invalidates it.

**`FarmTree`** is algorithms and one short life of a farm: `Merged` builds the
tree as `tree.go` does and is compared with a definition by sets of layers;
`View` resolves links as `moddeps_view.go` does and is compared with what the
deployed folder really shows; then the game writes, renames and deletes,
and flushes and the teardown tell its files from placed ones, by manifest or, where
none can be read, by link counts. *As the code has it*: a link whose target is spelled in another case
than the farm has it (`moddeps_view.go:83`), `..` after a linked folder and links
that loop are seen differently; `replaced` exempts an inode used again after a
layer's file was replaced under the farm. *Left out*: permissions, special files,
walks that fail, and that the rule for farms without a manifest leaves a
`plugins.txt` and a `loadorder.txt` at the top where they are (`materialize.go:303`). **`Manifests`** has the order of versions and `Analyze`; its
behaviours only build inputs. Versions with tags of different lengths and kinds are not
strictly ordered (`2 < 10 < 1a < 2`), and cycles with optional dependencies may be
reported by folder order; the properties hold for the versions of the instance
and say nothing about those.

### Processes

**`Release`** has commands of `gorganizerctl` on the store and sessions that run
from a bundle, with kills at each step. The collection of old versions finds out
whether a session runs by trying its lock, which can refuse a session that is
starting (section 6). A kill during the collection leaves a part of a version
folder, and installing that version is refused until another install collects it.
*Left out*: checksums, `registerRelease`, the age of stages. **`Supervisor`** has
windows, links and `stop` around processes of the service; a process is a pid with
its start time; a call to a service that lives may time out, a new one may fail to
start, and a link may be refused by the service. `StopsOwnChild` is about a
supervisor whose child runs: one that ends between its answer to Health and the call
of Shutdown may be replaced on the socket, and the other is asked (section 6). **`Offline`** has the commands that need the service
to be down, with games that start, end, are updated or are not connected.
`recover --data-path` and a game that Steam starts between the look and the
restore are not modelled. **`TtwInstall`** has installers that survive the
service, two handles on their end, the marker and the downloads of the installer
itself. `doubt` exempts folders two runs wrote or that were begun anew after the
marker; `overlap` two downloads to one temporary name. *Left out*: prerequisites
(their id is in no table, so `Cancel` refuses it), patches of executables,
modlists.

### Instances side by side

`MCFiles`, `MCProcesses` and `MCLibrary` instantiate several modules on one set of
variables `x1`, `x2`, ...: the variable `part` is chosen at the start and never
changes, so a behaviour is a behaviour of one component and the state graph is the
disjoint union of theirs. The components in one of them touch no common state, and a
product would only multiply. What components promise alike ("no step deletes what
somebody else put there") is one property of the union, with a conjunct for each.

## 3. Runs

| Run | Module | Instance | States |
|---|---|---|---|
| `farm_safety` | `MCFarm` | 4 farm identities, 2 profiles, 1 file, 1 foreign folder, 2 faults, also from what an older version left | 1 195 000 |
| `session_safety` | `MCSession` | 1 game with a mod loader, 2 profiles, 2 clients, 1 fault | 1 044 000 |
| `session_ends` | `MCSession` | 1 game, 1 client, 1 download, 1 fault, under fairness | 378 000 |
| `ends` | `MCEnds` | farm, with a game that writes during teardown and recovery, migration and TTW cancel, each with 1 fault or kill, under fairness | 171 000 |
| `files` | `MCFiles` | ten parts, see below | 2 130 000 |
| `processes` | `MCProcesses` | six parts | 2 615 000 |
| `library` | `MCLibrary` | seven parts | 1 217 000 |
| `farm_wedge`, `farm_steam` | `MCFarm` | 1 fault, one profile; one violated property each (section 6) | to the counterexample |
| `session_landing`, `session_unmount`, `session_sibling` | `MCSession` | 1 or 2 games, at most 1 fault; one violated property each (section 6) | to the counterexample |

`farm_safety`:

- `OriginalSafe`: the game's own directory is at `Data` or at the backup, at one
  of them only, and never at a place that is removed without confirmation.
- `OriginalTracked`: why `OriginalSafe` holds; inductive (section 5).
- `OutputSafe`: whatever the game wrote is saved or still in a farm that exists.
- `StrangersSafe`: a `Data` folder another program filled is removed only by a
  restore the user confirmed, or by the roll-back of an activation that an older
  version began: its record names no folder, so the code cannot tell.
- `MountedIsLive`: a manager that reports a clean mounted farm names the layers
  of the farm that is really there, also after an apply or a switch that failed
  half-way.
- `MaintenanceRecorded`: once a teardown has set output aside because Steam
  changed the game, the original does not come back without the marker that
  keeps mods off until the files are verified.
- `CleanRecovery`: a recovery that reports success has put the original back and
  left no folder or record of a removal behind. A `Data` folder that cannot be listed
  ends a recovery without a report of either kind (section 6).

`session_safety`, and for two linked games `GamesApart` and a part of
`OthersSpared` of `processes`:

- `FenceExclusion`: a worker that does exclusive work holds the exclusive
  reservation, each launch and each landing in progress holds a shared one, and
  the two kinds exclude one another, through every failure and refusal.
- `NoReaderUnderRecovery`: while a recovery, a confirmed restore or a loader
  change works, no game runs or is being started; not even one that an earlier
  daemon handed to Steam before it crashed.
- `LaunchIsRecorded`: a game handed to Steam has a ticket on disk until it runs.
- `ReadersKeepMods`: the mods a game was started with stay deployed while it
  starts and runs, whichever requests, daemons and crashes come in between.
- `LoaderAlone`: the loader's intent and a deployment never coexist.
- `MountedIsReal`: what a manager reports is what is at Data. It holds for one
  game; linked games are the exception of `session_sibling`, so `GamesApart`
  does not claim it.

`session_ends` and `ends`: a deferred recovery is carried out once the daemon
stays up and no game runs (`DeferredEnds`) and what it held back is replayed
(`HeldIsReplayed`); every operation and recovery of a farm returns
(`OperationsEnd`; `resumeFarmRetirement` is a loop with no bound of its own); a
migration is resumed to its end unless somebody changes the folders
(`MoveFinishes`); a cancelled TTW installer under Proton ends (`CancelEnds`).
`OutputKept` of `ends` is `OutputSafe` with a game that goes on writing while its farm
is taken down or recovered, which only happens when the daemon does not see it: the
farm is captured once more before it is removed (`deactivation.go:253`). It is checked
with any number of crashes and one failing call; section 5 says what two can do.

`files` - parts `root`, `smapi`, `config` (the loader's configuration alone),
`swap`, `tools`, `copyup` (one tool policy alone), `thrice` (three runs, one file),
`undone` (an import with two faults), `move`, `extender`:

- `ChangesAtomically`: the refinement of `AtomicChange` by root deployments,
  SMAPI transactions and replaced folders of mods and of profiles.
- `RestIsWhole`: at rest the records are true of the disk, and recovery never
  gives up unless somebody else changed the files - but for the folder a
  root deployment removed itself (section 6); settings name folders that exist.
- `WorkKept`: the player's files and configuration, what tools wrote last, and
  every planned file of a migration are somewhere they come back from; an import
  of a tool's output is whole, or all of the mod is in the folder beside it.
- `FilesKept`: no step destroys a file of the game, a folder whose replacement is
  not in place, another mod's file under a tool, a file changed by hand, or the
  script extender under a launch or a game.
- `ReportsHold`: what an import says of a replacement is so, and a clean recovery
  left nothing.
- `RunsWhole`: the recorded files of an extender whose launch was checked are one
  build's and as they were recorded; a tool that edits the mods runs without a farm.

`processes` - parts `games`, `downloads`, `release`, `supervisor`, `offline`, `ttw`:

- `DownloadsKept`: what the ledger has recorded of a wish stays there or landed as
  a whole, also when later saves fail; a name never holds a part; no wake-up of the
  queue is lost.
- `GamesApart`: above.
- `VersionsWhole`: both links name whole versions at every step, an open session
  keeps its folder, and a rollback has somewhere to go.
- `AnswersTrue`: a link reported as failed was not added, a stopped service is
  gone, an installer's exit code is its own.
- `TtwWhole`: what is played was finished by one run; one program in the prefix.
- `OthersSpared`: no supervisor whose child runs stops another service, no update installs an
  older version, no offline command deletes what a game needs, mods stay under a
  running game of two that are linked.

`library` - parts `library`, `deps` and `links` (requests with two fetches; with
a browser link), `tree`, `manifests`, `rows`, `installs`:

- `Deployed`: what is deployed is what the library holds, and clean only when it
  is what the profile asks for.
- `WorkSurvives`: no step takes away a mod's place or switch, a position set by
  the user, a pending enable, the game's output, or files under a merge.
- `RequestsServed`: a request never waits for nothing, is answered by a mod that
  provides it and does not run into its own install.
- `TreeAsLayered`: the farm is what the layers say, the view what the game sees,
  the captured files what the game wrote.
- `ReportsTrue`: what is said to load can, what fails says why, what is offered
  helps, the minimum is the highest.
- `InstallsTrue`: an install reads a whole archive, leaks nothing, and is reported
  once as it ended.
- `CacheIsTrue`: at rest the installed-archive map is that of the folders.

Each module's `TypeOK` is checked by its run (`Typed` in the modules that put
several side by side).

*Deadlock* is checked for `Farm` and `Session`, which have none: the daemon can
always be stopped and started. The other runs say `CHECK_DEADLOCK FALSE`: their
parts have a bounded number of calls and stop when those are made.

*Bounds.* Farm: two directories exist besides the original in any operation, and
records can name up to two that are gone; with four identities `Fresh` is never
empty, so no step is lost for want of one. `MaxFaults = 2` allows a failure of a
step and of the recovery from it; the first states an older version left are
themselves what a crash left, so from them it is three. Crashes are not bounded.
More than two profiles add nothing: a step compares at most the old and the new.
One file suffices, as captures treat files alike. Session: crashes, restarts and
games are not bounded, only operations that fail are; one failure followed by a
crash or any other requests is what the recoveries are for. Two clients besides
startup recovery, the retry timer and the landings meet in every pair; the fence
knows no third party. Linked games: two, with one profile, one client and no
failing operation; the mods they keep do not depend on one. What these bounds of
`Farm` and `Session` might hide, the proofs of section 5 exclude.

Root deployment: three paths, one in a subfolder, two mods that share one, three
lists; one fault, kills included, at every call, and one change by Steam or the
player. SMAPI: two versions of which one places a file more, two operations, one
fault, one change; the loader's configuration, which multiplies every state, is
in a part of its own. Swaps: two replacements that may meet on one name, two
faults, two changes by hand: a kill of a replacement and a fault in the recovery.
Tools: two runs of two files, so that the second meets what the first left; one run of
the policy that copies inputs up, which multiplies the states; and three runs over one
file under every policy (`thrice`), because the loss that `CleanUp` exempts takes three:
one that fails and leaves a private copy, one that imports, one that captures the copy.
The part `undone` has two faults and one run: a roll-back that fails too. There are
more inodes than the files in five places and the runs make. Migration: two games (one may have moved) with two files (one
may be copied). Extender: two builds, two kills. Downloads: two of the same
archive, the one case in which they share a name, two events beyond the server's
answers and failing saves. Release: three versions (two links and one to collect), two commands at
a time, three in all. Supervisor: three services, for a window's child, a link's
and one started by hand; one fault. TTW: two installs, one kill. ModLibrary: two
calls, two names, two profiles. ModDeps: two fetches of one ID for two profiles
with two downloads; with a browser link one fetch of two IDs and two faults.
Trees: three layers, paths of two names, eleven kinds of link, all layers on one
device or one of them on another. Manifests: three folders of four IDs, with and
without minimum, one disabled provider. Two installs, two extractions, one kill.

Symmetry is used for safety only, never in the runs under fairness.

*Fairness.* `FairSpec` of Session adds weak fairness of each goroutine that has
work to do, of the retry timer (`retryDeferredRecoveriesLoop` ticks for as long as
the daemon runs), of the handler of a landed download, of the passing of time, and
of Steam's answer to a hand-over. `MCEnds` adds weak fairness of the farm's steps
(`Working`: a straight run of system calls in one goroutine), of the steps of a
migration that runs and of the user's `--resume` after it failed - which is what
the program tells him to do, and the premise of finishing -, of the timeouts of a
cancel, of the kernel's delivery of SIGKILL, and of the goroutines that wait for
an installer. Nothing is assumed of the user otherwise, of a running game, of
other programs or of the starting of new operations: that the daemon stays up and
the game ends is a premise of the properties (`Undisturbed`). Faults are bounded,
so a run cannot fail for ever.

*Mutants.* Next to the definitions stand variants with a plausible bug (a capture
skipped, an identity not compared, a ticket not renewed, a reservation not looked
at, a record written a step early). Each property of a passing run is violated by
one of them.

## 4. Hazards

`PROJECT.json` lists them with their lines and the properties that cover them.
Three smaller ones have no property: an apply does not look for the journal of a
teardown that failed earlier (`mount.go:445`); a clock that is set back makes the
age of a launch flag negative (`fence.go:275`), since time is two ages here; and
the coalescing of status events (`status_coalescer.go:27`) has no module.

## 5. Proofs

TLC checks the instances above; the theorems hold for every value of the
constants. The assumptions are those the modules state about them: in `Farm`, that
the original is none of the directories the program or others create, that `None`
is no identity and no record, and that the bound on faults is a natural number
(`IdentityAssumption`, `RecordAssumption`, `FarmAssumption`); in `Session`, that
games are no workers, clients none of the daemon's own two, `None` none of them,
downloads arrive for games, and the bound on faults is a natural number
(`SessionAssumption`); in `RootDeployment`, the shape of the constants, that mods,
game files and `None` differ, that neither `None` nor `Unknown` is a record or a
function the specification compares it with, and that the bounds are natural
numbers (`RootAssumption`), and the same in `SmapiTxn`, with the disjointness of the
kinds of files and paths (`SmapiAssumption`); in `FolderSwap`, that names, replacements
and the values for other folders differ (`SwapAssumption`); in `Migrate`, that the games
are a sequence, the file added by hand is no planned one, and `None` no folder, journal
or phase (`OrderAssumption`, `NoneAssumption`); in `ArchiveRows`, that mods are numbers,
in the order of their names, and `None` is no mod, map or entry (`RowsAssumption`); in
`Installs`, that `None` is no extraction, folder or outcome (`InstallsAssumption`); in
`Release`, that versions are natural numbers, commands no sessions, and `None` none of
these (`ReleaseAssumption`); in
`TtwInstall`, that `Nobody` is no install, mod, version or exit code, and `"tool"` no
install (`TtwAssumption`); in `ScriptExtender`, that a build is a function from files
(`ExtenderAssumption`); and in these and in `Supervisor` and `Offline`, that the bounds are
natural numbers (`SupervisorAssumption`, `OfflineAssumption`). All but those of `Farm` and
`Session` are hypotheses of their theorems, and the runs assume them of their
instances. Two theorems of `Farm`, one of `Session` and one of `Migrate` have a
hypothesis more; it is named below with the reason.

### Farm

| Module | Theorem | Statement |
|---|---|---|
| `FarmProofs` | `Invariance` | `Spec => []IInv` |
| | `TypeCorrect` | `Spec => []TypeOK` |
| | `OriginalIsTracked` | `Spec => []OriginalTracked` |
| | `OriginalIsSafe` | `Spec => []OriginalSafe` |
| | `RecoveryIsClean` | `Spec => CleanRecovery` |
| | `StrangersAreSafe` | `Spec => StrangersSafe` |
| `FarmOutputProofs` | `MountedStaysLive` | `Spec => []MountedIsLive` |
| | `OutputIsSafe` | `WriteWindows = {}` gives `Spec => []OutputSafe` |
| | `MaintenanceIsRecorded` | `WriteWindows = {}` gives `Spec => []MaintenanceRecorded` |

These are all the properties of `farm_safety`.

**The original.** `OriginalSafe` is not inductive: a step that removes what stands
at `Data` is safe only because of what an earlier step checked, or what a record
written before a crash says. `OriginalTracked` adds

- `Home`: the backup place holds the original or nothing;
- `RecordsTrue`: no record on disk names the original as a directory that may
  go, and each names it where it must come back from;
- `DataIsDisposable`: from the check to the step that removes, replaces or
  renames `Data`, the original stays at the backup place - although a crash, a
  foreign folder or the game may come in between;
- `ActivationKnows`, `TeardownRecorded`: what a rollback and a teardown take
  from the operation's locals and from the journal.

`IInv` is `TypeOK /\ OriginalTracked`, regrouped into what system calls may
disturb (`WorldOK`) and what hand-overs may disturb (`Steered`). There is a
lemma for each kind of system call and of hand-over, and one for each group of
actions.

**Recovery.** `CleanRecovery` speaks of the step that reports: the original is
back and nothing of a removal is left. `RInv` carries what was checked to that
step: recovery reconciles, rolls back or takes a farm down only where no restore,
no retired farm and no teardown is left over (`ChecksPassed`), an activation is
over and a restore takes its records away only when `Data` is the original
(`OriginalInUse`), and a restore takes things away in its order
(`FinishedSoFar`).

**Folders of others.** `GInv` says which folders are the daemon's: no sibling and
no record ever names a foreign folder (`OursNotForeign`, `IntentTold`), a foreign
folder has neither sentinel nor manifest (`ForeignBare`), one that another program
filled stays full (`StrangersFull`), and what stands at `Data` at a step that
removes it was recognised (`DataIsOurs`) or confirmed by the user (`Confirmed`). The
roll-back of an activation that a version with schema 1 began is the exception in
the property: its record names no farm.

**Output.** `OInv` says where output can be: in one place each (`Apart`), in
complete farms only (`Bare`), in no sibling (`SiblingsEmpty`), hence in the folder
at `Data` if it is not saved (`OutputAtData`). A folder that is about to be removed,
retired or exchanged was captured (`DataCaptured`). For the maintenance marker,
`SteamRecorded` says which of baseline, journal and locals still knows that Steam
changed the game, and `MarkedUnlessLive` that the marker is there before the farm
is no longer live. The hypothesis says that the game writes only while no
operation runs. The daemon refuses operations while a game or tool runs, so this
is what it means to ensure. For a program it cannot see, the second capture of the
retired farm saves what was written after the first: `OutputKept` checks that with
crashes and one failing call. With two failing calls there is a loss, and so the
hypothesis is needed. TLC finds it with `WriteWindows = {"deactivate"}` and
`MaxFaults = 2`: a teardown crashes, a confirmed restore puts its record in place but
reports it as failed, the teardown is resumed, the game writes after the first
capture, the second is refused because the preserved batch exists, and the clean-up of
the next confirmed restore removes the retired farm.

**What is mounted.** `MountedIsLive` is about a manager at rest. `MInv` says in
every state without a teardown on record what a mounted manager can count on
(`LiveFarm`), which operations a mounted manager can be in (`MountedWhen`), what an
activation has built (`Activates`), and which of the two farms an apply exchanges
is at `Data` and which is kept (`Exchanging`, `KeptFarm`): the last one is why a switch
that fails and is taken back may report its old layers again.

TLC checked each of these invariants on `farm_safety`'s instance before it was
proved.

### Session

| Module | Theorem | Statement |
|---|---|---|
| `SessionProofs` | `ReservationsExclude` | `Spec => []FenceExclusion` |
| | `SessionTypeCorrect` | `Spec => []TypeOK` |
| | `StartsAreRecorded` | `Spec => []LaunchIsRecorded` |
| | `RecoveryIsAlone` | `Spec => []NoReaderUnderRecovery` |
| | `LoaderIsAlone` | `Spec => []LoaderAlone` |
| | `GamesKeepMods` | `Spec => ReadersKeepMods` |
| | `MountsAreReal` | one game gives `Spec => []MountedIsReal` |

These are all the properties of `session_safety`, and what `GamesApart` says of
linked games, for any number of them.

**Reservations.** `FenceExclusion` says that the reservations `fence.go` records are
those of the work in progress. Alone it is not inductive: a daemon that starts does
so with no reservation, which is right only because no work outlived the last one.
Its strengthening `FInv` adds `JobsFit`: there are no jobs while the daemon is
down, and a launch and a restore know their game. The proof has a single idea.
Every step of a worker is one of five moves - it keeps what it holds, takes or
gives back the exclusive reservation, joins or leaves the shared ones - and
`MovesPreserve` shows once that a move preserves `FInv`; each action is then shown
to be a move. An early return that forgets its reservation, or gives back one it
does not hold, is no move. Landings, start, end and the steps that touch no
reservation have lemmas of their own.

**Types** rest on `JobsFit`, since what a launch deploys belongs to its job's game.
Boolean variables (`Truths`) and the rest (`Typed`) have separate lemmas: the first
need Zenon, the second SMT.

**Games and mods.** Five promises have one invariant, `SInv`: `IInv` (types and
reservations) and `LInv`, because each check in the code relies on what the others
keep. Its centre is `Watched`: a program that starts is known to somebody - the
daemon is down, it has deferred its recovery, it has a fresh flag, or the request
that started it still runs - and its ticket is fresh (`Recorded`). So a check that
finds no process, no flag and no fresh ticket has found that nobody reads
(`Unread`, `IdleUnread`), exclusive work past that check is alone (`Emptied`),
nothing is mounted before recovery is done (`Recovering`), a launch deploys what is
mounted (`Held`), the root files are of the one mounted profile (`RootFits`), and
nothing is deployed while the loader changes (`LoaderClear`). Every lemma shows
`Safe`: the invariant is kept, and so are the mods of games that start or run.

`MountsAreReal` has the hypothesis that the install has one game; the run
`session_sibling` shows that linked games break it (section 6).

### Game root

| Module | Theorem | Statement |
|---|---|---|
| `RootProofs` | `RootTypeCorrect` | `Spec => []TypeOK` |
| | `RecordsAreTrue` | `Spec => []AtRest` |
| | `RecoveryGoesOn` | `Spec => []OnlyTheFolderBlocks` |
| | `GameFilesAreKept` | `Spec => [][KeepsGameFiles]_vars` |
| | `ChangesAreAtomic` | `Spec => Atomic!Spec` |

They are what `MCFiles` checks of this module, for any number of paths, mods,
lists, faults and changes.

`RootInv` has three parts. *Types*, with what each step leaves to do (`OpFits`).
*Paths* (`Whole`): under an intent a path is as the old manifest has it, as the
new one does, or, where a link comes or goes, empty with the original in the
backup tree (`Between`); the paths the operation has dealt with are as desired
(`Passed`), so the manifest is written only when all are (`Attained`); and both
manifests of an intent name the game's own file under each link (`Honest`), which
is why a recovery may move a backup back without looking at what it was. Without
an intent the disk is what the manifest says (`AtPeace`). *The folder*
(`FolderFits`): an intent with nested paths makes their folder or found it there,
and it is lost only where none is desired; so the one recovery that stops is that
of section 6.

The refinement maps what the intent's two manifests link to `settled` and
`intended`. Ending an intent is then the step at which the change takes effect,
and it needs `Attained`: `Settled` reads the links from the disk as soon as no
intent is left. No step maps to `RollBack`. `MaxOf` shows that the highest
position of a mod list exists, which the plan of a list chooses.

### SMAPI

| Module | Theorem | Statement |
|---|---|---|
| `SmapiProofs` | `SmapiTypeCorrect` | `Spec => []TypeOK` |
| | `RollbackGoesOn` | `Spec => []CrashIsRecoverable` |
| | `InstallsAreAtomic` | `Spec => Atomic!Spec` |

`SmapiInv` ties each step to its side of the commit point (`StepsFit`) and to what the
intent names (`TodoFits`), and the intent to what it found (`IntentFits`): its targets
as they were, by identities that are all older than its own (`PastOnly`). While an
intent is on disk and nobody interferes, a target is as the operation found it
(`Unmoved`), moved to the backup (`Emptied`) or placed (`Placed`); `TargetsFit` says
which ones are where at each step, and that past the commit point all are `Final`.
The identities tell the three apart, so a roll-back never has to give up
(`RestoreKeeps`), and when the last target is dealt with, files and record are those
intended or those of before. Here some steps do map to `RollBack`. What is promised
ends with the first change by somebody else (`Unknown`), except that recovery gives up
only if such a change came under an intent: that holds for any number of them.

### Replaced folders

| Module | Theorem | Statement |
|---|---|---|
| `FolderProofs` | `SwapTypeCorrect` | `Spec => []TypeOK` |
| | `FoldersAreWhole` | `Spec => []AtRestWhole` |
| | `OriginalsAreKept` | `Spec => [][OriginalKept]_vars` |
| | `ReportsAreTrue` | `Spec => [][ReportsHold]_vars` |
| | `ReplacementsAreAtomic` | `Spec => Change(n)!Spec`, for every name `n` |

They are what `MCFiles` checks of `FolderSwap`, for any number of names, replacements,
faults and changes by hand.

`SwapInv` says of each replacement, at each step, whether the old folder is still in
place (`Before`), put aside (`Between`), or made way for the new one (`Placed`), and
which of its hidden folders and of its journal exist (`OpFits`); after it, one of the
three holds as long as nobody else changed the name. Replacements meet only at a name,
and one that runs has claimed its name (`OneClaim`): so a lemma (`OpStep`) shows that a
step which touches nothing but its own folders keeps the others' part, and each action
is then checked for its own replacement alone. A missing folder was taken by the user
or is one that a replacement put aside (`NameFits`). Recovery has an obligation for
every replacement that it has yet to look at (`BootFits`): a journal it has not dealt
with, or folders that one without a journal left. The exception in `AtRestWhole` is a
torn folder: one whose copy or removal was cut short and that lost the metadata by
which recovery tells it from the user's.

The refinement maps a name to its own folder, and to the one it is to have. A step of
another name stutters, and what is promised of a name ends with the first change by
hand.

### Data migration

| Module | Theorem | Statement |
|---|---|---|
| `FolderProofs` | `MigrateTyped` | `Spec => []TypeOK` |
| | `NothingIsLost` | `Spec => []NothingLost` |
| | `ChangesAreKept` | `Spec => [][ChangesKept]_vars` |
| | `MovesTogether` | `Files # {}` gives `Spec => []MovesAsOne` |

`NothingLost` and `ChangesKept` need no more than the types: each step that deletes or
renames a folder checks it first, and lemmas say what each kind of step leaves in the
three places a file may be (`HasMoved` and those after it). `MovesAsOne` relates the
settings to folders of all games. `MigrateInv` says that a folder which the journal, or
the process in memory, calls removed is gone, with the new one in place
(`RemovedIsGone`); that the process patches the settings only when every folder has
moved (`AllMoved`); that what a daemon has read of the settings is as good as what is on
disk (`NamedAreThere`); and that without a journal all have moved or none (`Together`).
The hypothesis is there because the code plans an empty folder too, and of one it
cannot be said that the new one holds something.

### Archive rows

| Module | Theorem | Statement |
|---|---|---|
| `FolderProofs` | `RowsTypeCorrect` | `Spec => []TypeOK` |
| | `MapsAreTrue` | `Spec => []CacheIsTrue` |

They are `CacheIsTrue` of the run `library`, for any number of mods, archives and
goroutines. The map in memory is built without a lock over the folders it is built
from. `MapFits` says that a map no change overtook is that of the folders, or some
operation that changed one has yet to forget it (`RowsDue`). A scan may store what it
found only if no change overtook it, so `ScanFits` needs of such a scan that it has,
for each archive, the last of the mods it has read. That a change is a change, and is
forgotten by who made it, rests on the locks: the operations that run hold those of
different mods (`Locked`), so the folder a merge or an uninstall is about is there
until it changes it (`ModStays`).

### Releases

| Module | Theorem | Statement |
|---|---|---|
| `ReleaseProofs` | `ReleaseTypeCorrect` | `Spec => []TypeOK` |
| | `LinksAreWhole` | `Spec => []LinksWhole` |
| | `RunningIsKept` | `Spec => []RunningKept` |
| | `RollbackIsPossible` | `Spec => []Undoable` |
| | `VersionsAreWhole` | `Spec => []VersionsWhole`, these three together |
| | `UpdatesGoForward` | `Spec => [][NeverOlder]_vars` |

They are `VersionsWhole` of the run `processes`, for any number of commands, sessions
and versions.

`ReleaseInv` rests on the lock of the store: the commands past it are one
(`Alone`), so the version one is about to link stays complete while it works
(`LinksHold`), an update's stays the newer one (`StillNewer`), and the two links are
alike only half-way through an exchange, or after one that was cut short (`Turns`).
A session takes no such lock. `Spares` says why its version is safe all the same: a
session whose marker the collection read is spared by name, and one that writes
its marker later is to be kept only if a link names its version then, and the links
do not change under the collection's lock.

### Processes

| Module | Theorem | Statement |
|---|---|---|
| `ProcessProofs` | `TtwIsWhole`, `ExitsAreTrue` | `Spec => []TtwWhole`, `Spec => []ExitIsTrue` (`TtwInstall`) |
| | `ToldIsTrue` | `Spec => [](FailedIsNotAdded /\ StoppedIsGone)` (`Supervisor`) |
| | `OwnChildIsStopped` | `Spec => [][StopsOwnChild]_vars` (`Supervisor`) |
| | `NothingDeletedEarly` | `Spec => [][DeletedWhenBack /\ MissingKeepsMods]_vars` (`Offline`) |
| | `LaunchedGamesAreLeft` | `Spec => [][LaunchedIsLeft]_vars` (`Offline`) |
| | `RecordedFilesPlay` | `Spec => []PlaysAsRecorded` (`ScriptExtender`) |
| | `LaunchesAreUndisturbed` | `Spec => [][NotUnderLaunch]_vars` (`ScriptExtender`) |
| | `InstallsReadWhole`, `NothingIsLeaked` | `Spec => []ReadsWhole`, `Spec => []NothingLeaks` (`Installs`) |
| | `OutcomesAreTrue` | `Spec => []OutcomeIsTrue` (`Installs`) |
| | `ModsChangeAtOnce` | `Spec => [][ChangesAtOnce]_vars` (`Installs`) |
| | `WorkIsNeverLost` | `Spec => []ToolWorkKept` (`ToolOutput`) |
| | `SourcesAreKept` | `Spec => [][ToolsKeepSources]_vars` (`ToolOutput`) |
| | `ImportsAreWhole` | `Spec => []ImportWhole` (`ToolOutput`) |
| | `EditsAreUnmounted` | `Spec => []SourceEditsUnmounted` (`ToolOutput`) |

They are all that the runs check of these six modules but for liveness and some of the
types, for any number of processes, requests, tool runs, files and kills. The first four
have their `...TypeCorrect` as well; of `Installs` all types are in the invariant but
those of the order of the previews, which is a sequence that filters change, and of
`ToolOutput` those that the proof needs. The theorems of `ToolOutput` assume
`PathsAssumption`: inodes are numbers, among them one for each file the source mod and
the output mod have at the start.

*TTW* (`TtwInv`). How far an install is says whether its process has ended (`Ordered`),
hence where its exit code is (`Answered`) and who holds the prefix (`Held`). That what is
played was finished by one run does not follow from the integrity check alone: a folder
that is not in doubt has at most one install that writes it, and what the marker says
of it is so (`Undoubted`).

*Supervisor* (`SupervisorInv`). One service holds the instance lock (`OneHolds`), and a
supervisor that is about to ask has seen its own child answer (`OwnAnswered`), so the
one that is asked is that child, unless the child is gone by then: that exception is
part of `StopsOwnChild`, and the code has it (section 6). A link that was added is told so
(`AddedIsTold`); the stop command keeps the process that it found (`StopKnows`).

*Offline* (`OfflineInv`). The command holds the lock from its look at the games on
(`Locked`), has only games that were there (`Looking`), and those it took and has
finished with are back (`Restoring`); so nothing changes under a command what it
checked, and what it deletes is no longer needed.

*Script extender* (`ExtenderInv`). While an install copies and records, nothing is mounted
(`Reserved`), and from the mount to the end of the game nothing is copied (`Launching`);
so what an install has copied (`Copied`) and what a launch has checked (`Checked`) still
holds at the next step. The theorem is about the files the manifest has; that it has
them all is not so (section 6).

*Installs* (`InstallsInv`). An extraction is on its way, kept, to be removed or gone, and
belongs to one of those (`Owners`). An installation takes its lease after the lock of the
mod and returns it before, so a preview has at most one lease, that of the installation
which works (`Turns`, `Leases`): what is evicted has none, and the last lease of a marked
preview is the one that removes it. How far an installation is says whether it has
published (`StageFits`), and what is remembered of its request agrees with it (`Told`).

*Tools* (`ToolsInv`, `WorkInv`). A hard link makes a write through one name a write
through all, so the first invariant is about names: an inode has names at one path only
(`OnePath`), and what is created or copied gets an inode without any. Hence the input that
a tool writes in place is not the source's file (`InputCopied`), a named tool's farm
shares no file with its mod (`LayerPrivate`), and how far an import is says what the
folder, the stage and the parked folder hold (`Importing`). `ImportsAreWhole` holds
for every failure and any number of them: where the roll-back fails as well, it says that
what the mod held is in the folder parked beside it, not that the mod is there. That work is kept needs a
second one, which says where the last version of a path may be *while a farm is
deployed* (`LastIsThere`): what is output of the farm will be moved over Overwrite or
the mod, so the last version has to be in the farm itself, in scratch, or in a mod of a
farm that is marked to be rebuilt; what is not output is in a mod, or in Overwrite only
if the farm has no other file there. `ToolWorkKept` alone is not inductive: it holds of
a state with an old file in the farm whose capture is due, and fails in the next one.
The attempt to prove it failed on just that step, and the state turned out to be one the
code reaches in three runs; two had hidden it.

### Model-checked only

Liveness (`OperationsEnd`, `MoveFinishes`, `CancelEnds`, `DeferredEnds`,
`HeldIsReplayed`), with fairness and ENABLED, is out of the prover's reach. `OutputKept`
is about writes that the hypothesis of `OutputIsSafe` excludes. So is
`FarmTree`, whose definitions follow paths and links recursively: what such a
definition computes for every input needs an induction the provers cannot do.

Of SMAPI, `OriginalsKept`, `RecordIsTrue` and `ConfigKept` are checked with one change
by the player or Steam and not proved: they compare the disk with what the player last
wrote, and with two changes that history is ambiguous - a player who deletes a file of
the loader's and puts one of his own at its path has it taken for the loader's, as if
he had overwritten it.

The properties of `Downloads`, `ModLibrary`, `ModDeps` and `Manifests` are model-checked only, on the instances section 3 names.

A property of `files` or `processes` that joins several modules is proved of these
parts:

| Property | Proved | Model-checked only |
|---|---|---|
| `ChangesAtomically` | root deployment, SMAPI, replaced folders: all of it | |
| `RestIsWhole` | root deployment, SMAPI's `CrashIsRecoverable`, folders, migration | SMAPI's `RecordIsTrue`, the types of tools |
| `WorkKept` | migration, tools | SMAPI's files and configuration |
| `FilesKept` | root deployment, folders, migration, tools, script extender: all of it | |
| `ReportsHold` | folders | |
| `RunsWhole` | script extender, tools: all of it | |
| `GamesApart`, `VersionsWhole`, `TtwWhole`, `OthersSpared`, `CacheIsTrue`, `InstallsTrue` | all of it | |
| `AnswersTrue` | supervisor, TTW | the types of `Downloads` |
| `DownloadsKept` and the other ones of `library` | | all of it |

## 6. Where the code and its documents disagree

The first five are runs that find the property violated.

- `farm_wedge` / `PendingCanBeConfirmed`: an apply writes its record, whose
  directory sync is reported as failed, so the staging folder is removed and the record
  stays (`mount.go:495`); the user unmounts, which leaves it too. After a restart
  `Data` is the original, none of the record's farms, and recovery asks
  (`recover.go:341`, `:492`), but `RestoreFromBackup` refuses ("no backup", `:603`). An
  apply that fails after its swap and is unmounted ends alike. As long as the record is
  there every start ends like this: it has to be deleted by hand, with a farm left at
  the staging place.
- `farm_steam` / `SteamOutputPreserved`: a teardown resumed from a journal
  written before Steam changed the game saves into Overwrite.
- `session_landing` / `PendingKeepsLandings`: a download that lands while a
  recovery has been pending since startup is dropped; only landings during a
  *deferred* recovery are held.
- `session_unmount` / `RootFollowsMount`: unmounting a linked game that is not
  mounted first removes the game-root deployment the games share, then reports
  that nothing is mounted; the sibling goes on without its game-root files.
- `session_sibling` / `MountedIsReal`: when a linked game confirms a restore, the
  manager of the sibling that was mounted goes on reporting its profile over the
  restored original.

The following were met while modelling; the modules have what the code does, and
a property, where there is one, states it with the exception. Of the first five the
stronger property stands beside the one that is checked, and TLC has refuted it.

- Downloads (`downloader.go:175`; `README.md:53` "Gorganizer adds it to the
  **Downloads** tab", `nxm.go:122` "Download added to Gorganizer."): the error of saving
  the ledger entry is discarded and the download queued all the same, as at `:257`,
  `:296`, `:569`, `:585` and `:896`. One that was never saved is gone after a kill:
  `AddedIsKept` fails, `NothingForgotten` excepts it (`unsaved`).
- Script extender (`script_extender.go:371`; its comment, `:342`, "records the SHA-256
  of every file"): a file that cannot be hashed is skipped, so a later change of it
  passes the check of a launch and the game plays two builds. A manifest that cannot be
  read is only warned about (`launch.go:142`). `PlaysWholeBuild` fails,
  `PlaysAsRecorded` is about recorded files and checked launches.
- Imports (`tool_output.go:187`; `:123` "atomically commits"): the error of the rename
  that puts the old capture mod back is ignored. If it fails after publishing failed,
  the mod is gone without a kill, its files in a hidden folder that nothing looks for,
  and the caller is told of the first failure only. `ImportAtomic` fails, `ImportWhole`
  says where the files are.
- Supervisor (`session.go:330`; its comment, `:318`, "requests shutdown only from the
  supervisor's child"): the process number is compared in the answer to Health, and
  Shutdown is a call of its own. A child that ends in between and is replaced on the
  socket gets the other service shut down. `AsksOnlyChild` fails, `StopsOwnChild`
  excepts a child that is gone.
- Farm (`recover.go:455`; `README.md:126`): beside `Data.orig`, a `Data` folder without
  a sentinel that cannot be listed is left alone with a warning, and recovery ends with
  neither an error nor a question while the originals stay parked. `RepairsOrAsks`
  fails, `CleanRecovery` is about recoveries that report.

- Game root (`root_deployment.go:547`, `:676`; `README.md:126` "asks you only when
  it cannot decide safely"): a kill after a removal deleted the folder it had made
  leaves a recovery that stays pending for good (`OnlyTheFolderBlocks`).
- SMAPI (`installer.go:303`, `:334`): a configuration the player writes for the
  first time while the installer runs is not carried over (`ConfigKept`).
- Migration (`instancelock/lock.go:14`; `cmd/gorganizerd/main.go:61`, `:77`): the
  daemon reads its settings before it takes the lock that keeps migrations away,
  so it may go on with the paths before the move.
- Installs (`gorganizer.proto:897` "Stopped before anything was published; nothing
  changed"): a merge clears the archive's uninstalled flag
  (`download/install.go:270`) before it publishes.
- Archive rows (`mods.go:341`): an uninstall builds the row it pushes before it
  invalidates the map the row is built from (`:349`; `gorganizer.proto:850`).
- Releases (`release.go:514`): the collection probes `session.lock`, and a session
  that starts at that moment says it is already open (`session.go:54`).
- Supervisor (`session.go:26` "It will exit on its own"): not the service that a
  killed supervisor left while its own child waits for the lock.
- Dependencies (`moddeps.go:896` "so the profile can enable it and its enable
  never counts as outside the modlist"): an install that ends, or is adopted,
  between this listing and the registration of the request leaves a pending enable
  whose mod the profile does not list, and the next summary withdraws it
  (`EnablesKept`, `across`).
- Tools (`tool_output.go:123` "atomically commits"): a kill between the two
  renames (`:178`) leaves no folder of the mod; its files are in the hidden one.
- Tools (`executables.go:683`): a `named_output_mod` run that fails leaves the private
  copy it was given in the farm. If a `scratch_import` run then imports a newer file into
  that mod and the farm is not marked dirty - no profile is deployed, or its lists do
  not load - the next successful run captures the old copy over the newer file.
- Manifests (`analyze.go`, "keeping only the highest required version"): with
  tags of mixed kinds the order is cyclic, so there may be no highest.

## 7. Not modelled

The status stream (best effort; nothing relies on it), INI files and game
settings, plugins.txt, LOOT and load order (formats and external programs), the
gRPC server (marshalling), the Qt client, packaging; network lookups at Nexus and
GitHub; archive formats; `ForceDeactivate` (no caller); the capture before an
executable runs, which moves output as `PCapture` does. `LaunchExecutable` has
its tool runs in `ToolOutput` but is no job of `Session`. Two components acting on
one file at once are modelled only where the code has them meet: `Session` for
the install, `ModLibrary` for mods and lists, `ModDeps` and `ArchiveRows` for
downloads and installs.

## 8. What is left

1. Proofs of the other components: `Downloads`, then `ModLibrary` and `ModDeps`.
2. `LaunchExecutable` as a job of `Session`, so that a tool's admission meets
   recoveries and the other games.
3. The status stream; an abstract `DataFolder` (original in use, mods in use,
   under repair) that `Farm` implements.
