# A verification project for bbrs

`bbrs` mirrors a local source directory into the game Bitburner. It listens for
a websocket connection from the game, fetches the metadata of the files on one
game host (`--target`), uploads what changed, and deletes what has no source any
more. A watcher turns edits into incremental syncs, and an upload cache on disk
spares uploads that would change nothing. This directory holds TLA+ models of
that program, TLC configurations that check them on small instances, and TLAPS
proofs for every instance.

## The system

| Component | Source | State | Operations | Talks to |
|---|---|---|---|---|
| Sync pass | `internal/syncer/syncer.go`, `walk.go` | the locals of one pass: metadata, desired files, deletes, counters | `Mirror` (full), `SyncChanges` (incremental) | the source tree, the client, the cache |
| Upload cache | `internal/syncer/state.go` | `State.UploadCache`, `<source>/.bbrs/cache.json` | `LoadState`, `Save`, `RememberUpload`, `ForgetRemote`, `ShouldUpload` | the file system |
| Scheduler | `cmd/bbrs/main.go` | `running`, `pending` under `workerMu` | `queueSync`, `mergeJobs`, `syncLoop`, `runOneSync` | watcher and handlers call it, it runs passes |
| Connections | `cmd/bbrs/main.go` | `app.client` under `mu` | `handleWebSocket`, `setClient`, `clearClient`, `handleClientDisconnected` | the game, the scheduler |
| Watcher | `internal/watch` | previous snapshot, `seeded`, pending changes, debounce timer | the `select` of `Poll` | fsnotify, the source tree, `queueSync` |
| Remote API client | `internal/bitburner` | `nextID` under `mu`; `connected`, `disconnected` under `stateMu` | `requestRaw`, `MarkDisconnected`, the calls built on them | the websocket, the disconnect handler |
| Process | `run` in `main.go` | the context | start, signal, shutdown | everything |
| Paths, patterns, metadata | `internal/syncer/{paths,patterns,ignored,metadata}.go` | none | pure functions on one name or one value | the pass and the watcher |
| Configuration | `cmd/bbrs/config.go`, `internal/config` | none after start | defaults, env files, `config.toml`, environment, flags | `run` |
| Logging, version | `internal/logging`, `internal/version` | the log file | output | - |

What runs concurrently: the watcher goroutine, one handler goroutine for each
connection, at most one sync loop, and `run` itself. They share `app.client`,
`Client.connected`, `running` and `pending`, under three mutexes. The upload
cache is a plain map without a lock: it is safe only while one loop runs.

What is hard to test is listed in `PROJECT.json` under `hazards`, each at its
line. In short: files change between every two steps of a pass; a remote call
may fail after it took effect; the process may be killed inside a cache save;
jobs arrive from several goroutines while the loop ends; a connection dies
while its successor arrives; events and snapshots tell the same edit in
different orders.

What makes each component correct:

- pass and cache: an entry of the cache never claims more than what was
  uploaded, so that skipping is safe; a clean full pass leaves the game equal to
  the source; only owned files are touched, live files are not deleted; it ends.
- scheduler: one loop at a time; `running` tells the truth; no change is dropped
  on its way into a pass; no job waits for a loop that does not exist.
- connections: one client at a time, a dead one makes room, a late disconnect
  does not clear a successor.
- watcher: what it tells adds up to what happened; every change is told in the
  end.
- all of them together: with nothing left to do, the game holds the source, but for
  files whose change was lost in a known way.
- configuration and paths: the highest layer wins, the `config.toml` read is the
  one of the source that is synced; a file and its remote name lead to each other,
  under every destination that is accepted.

## The modules

### Syncer: one pass, the cache, crash and restart

`Syncer.tla` has `Mirror` and `SyncChanges` at the grain of system calls and
remote calls. `pc` says where the pass is:

| `pc` | Code | Actions |
|---|---|---|
| `stat` | the stat loop of `SyncChanges` | `Stat`, `StatFails`, `StatDone` |
| `fetch` | `api.GetAllFileMetadata`, `remotePresentSet` | `GetAllFileMetadata`, `MetadataFails` |
| `list`, `walk` | `WalkSource` under `BuildDesired`, then `BuildDeletes` | `ListSource`, `Walk`, `WalkFails`, `BuildDeletes` |
| `upload`, `push` | `applyUploads` | `Skip`, `ReadFile`, `ReadFileFails`, `PushFile`, `PushFileFails` |
| `delete` | `applyDeletes` | `DeleteFile`, `DeleteFileFails` |
| `save`, `write` | `saveCache`, `os.WriteFile`: truncate, then write | `LoopDone`, `Truncate`, `Write`, `SaveFails` |
| `idle`, `down` | between passes; process not running | `Mirror`, `SyncChanges`, `LoadState`, `RemoveCacheFile` |

Between any two of these steps a file is saved or removed (`LocalSave`,
`LocalRemove`), the player edits a file in the game (`GameEdit`), a signal
cancels the context (`Signal`), or the process ends (`Crash`). A restart may use
another `--target`.

Abstractions. A name stands for a relative path and for the remote path it is
joined to: `JoinDestinationFile` is injective on names that it accepts. The
content of a file and its `FileStamp` are one version number, a new one for each
save: two saves with the same size and mtime are outside the model. The game
answers a call with what it did at one moment; a failing push or delete may have
taken effect or not. Uploads and deletes are visited in any order (the code
sorts them). `WalkDir` reads directories one by one and the model reads them all
at once: what appears later is a file the pass does not see, as in the code. An
ignored file is listed and stat'ed like others, and fails the walk if it is gone,
unless an ignored directory hides it (`ListSource`). The history variables (`disturbed`, `seenAbsent`, `settled`) are read by properties
only.

### SyncWorker: who runs a pass, and for which changes

`SyncWorker.tla` has the watcher, one handler for each connection and the loops
as goroutines with a program counter. Each read of shared state is a step of its
own: `hasConnectedClient` reads `app.client` under `mu` and then `connected`
under `stateMu`, and a connection may be lost or cleared in between. `workerMu`
is held over several such steps and is therefore a variable; the other two
mutexes are held for one access only. `markConnected`, `markSyncPendingDisconnected`
and the end of `runOneSync` take `workerMu` to set a log flag and release it at once;
they are left out, so `MutexReleased` is about `queueSync` and `syncLoop`.

A job is the union of the lists of its `ChangeSet`; the empty one stands for a
full pass, as in `defaultSyncFn`. `mergeJobs` appends lists, which is union
here. A pass is one interval from `RunSync` to `SyncDone`, `SyncFails` or
`CallFails`; its inside is Syncer. `everConnected` and the two `...Logged` flags
choose a log line and are left out. A websocket that goes away is noticed by the
next call only: nothing reads an idle connection. A request context that is done
(`link = "gone"`) happens when the game is gone before the upgrade is over.

The history variables `owed`, `covering` and `lost` say which saved names no pass
has covered yet, which the running pass will, and which were given up with a
failed or dropped job. `ChangeLife.tla` is the abstract specification of a change:
it waits, is synced by the one pass under way, or is given up; `Life(n)` maps the
history variables to it, and `ImplementsChangeLife` is the refinement.

### Watch: from events and snapshots to ChangeSets

`Watch.tla` has `Poll`: fsnotify events in a bounded queue, the snapshot scan
file by file, the first snapshot that only seeds, `record`, the debounce timer
and `flush`. What is flushed is applied to `game` the way `SyncChanges` does it,
so that what the watcher tells can be held against what the game ends up with.
`Inner` holds the names that are in a directory of the source. That directory is
made (`MakeDir`) and moved away with all its files (`MoveDirAway`), and `watches`
says which directories have a watch. `TakeEvent` of a new directory is
`addWatchTree` (`WatchMade`): it may fail, which is ignored, and it does not look
for what was put into the directory before. A `Poll` without fsnotify (no watch
could be added at the start) is the initial state with `watches = {}`.

Two history variables name the ways the watcher is wrong; they are exceptions in
`QuietIsMirrored` and `ChangeIsTold`, and each stays until the file is told of again
or is right.

- `contested`: a report deleted the file while it was there. It named the file
  modified and deleted at once, or a remove event was received and believed after the
  file had been made again (`watch.go:168`).
- `missed`: the file changed before the first snapshot, which took the change for the
  base; or it was moved away with its directory, or removed from a directory without a
  watch, before a snapshot had seen it.

`ChangeIsTold` asks nothing more once `Poll` has returned either: because its context
is done, because a scan or a stat failed (`watch_scan`), or because the queue
overflowed. So neither property says that these things do not happen; they say that
nothing else goes wrong.

### Bbrs: the whole

`Bbrs.tla` composes watcher, scheduler, connection and passes, each at the grain
its own module justifies, and lets them start as `run` starts them: the game may
connect, and a full pass end, before the watcher's first snapshot.

- Watcher. Each name has its own queue of `events` and its own snapshots, as `Poll`
  treats names one by one; `Watch` has the queue and the scan they share. An edit puts
  an event into the queue or not (`Notify`): its directory may have no watch. `TakeEvent`
  comes at any time later, so an event may be late, and is dropped before the first
  snapshot (`seeded`); a remove is believed, a write is looked up. `Snapshot(n)` seeds
  first and compares later; snapshots of single names over-approximate a scan.
  `WatchEnds` is every way `Poll` returns while the program goes on.
- Scheduler. `stage` says where the loop is: `idle` (`running` is false), `check` (the
  unlocked look at the client) and `stop` (it found none, and resets `running` a step
  later), `plan`, `apply`. `queueSync` and `Connect` are one step each; what can happen
  inside them is SyncWorker. A client that comes between `check` and `Stop` leaves its
  job in `pending`, as in the run `stranded_job`.
- Connection. `client` is what `app` believes, `link` the truth: `up`, `down` (the game
  went without a word, and only a call finds out) or `gone` (before the upgrade was
  over, and the handler finds out).
- Pass. It plans, uploads and deletes; each file, the plan and the connection may fail.

`missed` records the names whose last change nobody will bring to the game. The comment
of `QuietIsMirrored` lists the ways: no full pass since the start; a change before the
first snapshot, or between two without an event; `Poll` has returned; a delete of what
is there again; a dropped job, a failed pass or a failed call. The property says that
there is no other way, and `ChangeIsMirrored` that, while the game stays connected,
nothing else waits for ever.

### Paths, Config and Startup: from the command line to the first plan

`Paths.tla` has the functions of `paths.go`, `patterns.go`, `ignored.go`, `walk.go`
and the plan of a full pass. A path is the sequence of what is between its
slashes, so `"/a"` is `<<"", "a">>`; a glob is the set of the paths it matches.
`Parts` is the loop of `NormalizeRemotePath`: the parts that are kept, in their
order. `Normal` paths are what `filepath.Rel` yields for a file of the source;
`Clean` is `path.Clean`.
`Config.tla` is `parseConfig`: each layer is read by an action that may also fail,
`LoadProject` finds `config.toml` through the source that the other layers name
and applies what is left, `Check` normalizes source and destination.
`Startup.tla` adds `BuildPlan`: with the configuration that results, any tree and
any remote names are planned. A tree has files and directories without a file, which
only the walk comes by.

### RemoteCalls and Client: what a remote call promises

`RemoteCalls.tla` is the abstract specification of one call of
`syncer.RemoteAPI`: success means that the game did what was asked, once; failure
means that it may have, or still may. Syncer is written against it: `PushFile`
and `DeleteFile` take effect, `PushFileFails` and `DeleteFileFails` may. The late
effect of a call that failed is not repeated there: the call has closed the
connection, so the rest of the pass fails without reaching the game.

`Client.tla` is `requestRaw`: lock, check, take an id, write, read one message,
validate it, and on a failed write or read mark the client disconnected and run
the disconnect handler before the lock is released. The handler of the connection
(`ContextDone`, `HandleContextDone`, `Disconnected`, `Close`) does the same from
its goroutine. The websocket is two queues and a `link` that this side closes when
a context expires (as `coder/websocket` does) or the game leaves. The game answers
requests in order, with "OK" only for what it did; up to `MaxRepeats` times it
repeats an answer. An answer that is refused, malformed, of the wrong type or
undecodable is one body, `refused`: the code returns an error for each and keeps
the connection. `Abstract == INSTANCE RemoteCalls` maps the place of a call to its
stage: the refinement is `ImplementsRemoteCalls`.

### MC modules and proofs

The `MC` modules extend the modules for TLC; `MCSyncer`, `MCWatch` and `MCBbrs`
also state what the documentation says and the code does not keep. `SyncerProofs`,
`SyncWorkerProofs`, `WatchProofs`, `ClientProofs`, `BbrsProofs` and `StartupProofs`
hold the theorems, `PathsProofs` the lemmas on paths that `StartupProofs` uses.

## The runs

| Run | Instance | Shows |
|---|---|---|
| `sync_pass` | one matched and one unmatched name, two saves each, one host | type, cache trust, convergence, ownership (that no other host is touched says nothing here; the theorem is for any hosts), live files |
| `sync_pass_ends` | an ignored name and a link, both matched; fairness | convergence with patterns and links; every pass ends |
| `sync_worker_reconnect` | two connections, two names, two loop identities, all interchangeable | one loop, `running`, one client, no change forgotten, implements `ChangeLife` |
| `sync_worker_progress` | one connection, one name; fairness | no stranded job, progress, mutex released, dead client leaves |
| `watch` | one name in a directory that comes and goes, three versions, queue of three; fairness | quiet means mirrored, and every change is told, but for contested and missed files |
| `remote_calls` | three calls, ids up to three, one repeated answer; fairness | own answers, handler once, implements `RemoteCalls`, every call returns |
| `bbrs` | one name, there or not on each side, one save, any number of removals and connections; fairness | a difference has one of the listed reasons once nothing is left to do; every difference is mirrored or given up; a vanished game is noticed |
| `startup` | five layers that speak or say nothing for five sources, four trees, two games | precedence, own `config.toml`, accepted destinations serve, remote names lead back, walk and events agree |

The bounds. Two names give every relation between two files that the pass makes
a difference of (the pass treats names one by one, and only `todo`, `dirty` and
`failed` connect them). Two versions are enough for a stamp that is older than
the bytes, one that equals them and a stale entry after a restart. Two loop
identities are what a second loop needs to show itself; two connections are one
and its successor or rival. `Poll` treats names one by one, and only the queue and
the timer connect them; one name with three versions and a queue of three lets a
remove event be received after the file was made again in a new directory. In `bbrs`
one name is enough for what a name goes through: its save and its removals come before,
during and after the first snapshot, the connections, the passes and the merges. Names
meet in the lists of a job only; that a job merged with one for other names loses
neither is `LossesAreKnown`, for any names (`reconnect_mirrors` has two). The
layers of `startup` speak of every setting, disagree pairwise, name two sources and
one that is not there, and destinations of every kind. `Spawn` needs a free
loop identity: as at most one loop is active, which `OnlyOneLoop` proves, it
always finds one. Three calls let the id wrap and leave a call that fails, one that waits for
the lock and one that comes later; as there are no more calls than ids
(`DistinctIDs`), a repeated answer never has the id of another call, which 2^64
ids justify. `MaxVersion`, `MaxEdits`, `MaxEvents` and `MaxRepeats` are the only bounds on
counters. `MCWatch.cfg` turns deadlock checking off because `Poll` may return,
`MCClient.cfg` because the calls come to an end, the configurations of `MCBbrs`
because edits do,
`MCStartup.cfg` because the program is started once.

Fairness. `Syncer!PassStep` is weakly fair: every system call returns, every
remote call has a 30 s timeout (`RequestTimeout`). `SyncWorker` has weak fairness
for each goroutine: the Go scheduler runs what can run, no step waits for
anything but `workerMu`, a pass ends by `PassEnds`, and a set timer fires. `Watch`
has weak fairness for the scan and strong fairness for receiving events, for
errors and for the flush: a `select` picks among its ready cases at random, so a
case that is ready again and again is taken. `Client` has weak fairness for each call: a write or read ends within the
timeout, and each call is made once, so the lock is free in the end. `Bbrs` has
weak fairness for the events and snapshots of each name, for the debounce timer and
for the loop and its pass, whose calls end within the timeout; connecting, vanishing,
refusing and the end of `Poll` are never fair. Edits are never fair. The debounce
timer is rearmed by every change, so edits without a pause put the flush off for
as long as they last; the bound on edits excludes that.

### Where the code and the documents part

Each of these runs checks one property that TLC finds violated; the finding in
`PROJECT.json` quotes the line.

| Run | Property | What happens |
|---|---|---|
| `reconnect_mirrors` | `ConnectionMirrors` | a change is reported while nobody is connected; the connection's full job is merged with it and becomes incremental: whatever else differs stays so (`main.go:273`) |
| `stranded_job` | `NoStrandedJob` | the loop finds its client gone, a new connection queues its full job while `running` is still set, the loop resets `running` and ends; the game is connected and the job waits (`main.go:306`) |
| `watch_scan` | `ScanKeepsWatching` | a file vanishes between the listing and its stat; `Poll` returns, the process stays without a watcher (`walk.go:43`, `watch.go:111`) |
| `second_target` | `EveryTargetServed` | the cache does not know for which host an entry holds (`syncer.go:268`) |

Others were met while modelling and have no run of their own.

- Watcher. Events before the first tick, 750 ms after the start, are dropped, and the
  first snapshot takes what it finds for the base (`watch.go:67`, `watch.go:114`): an
  edit in between, after the full pass of an early connection, stays untold. A file
  renamed away and written again within one debounce is in both lists of its ChangeSet,
  is uploaded and then deleted, and stays missing (`syncer.go:250`).
  A directory moved away is one event; a file in it that no snapshot has seen
  was uploaded and stays in the game, and so does one removed from a directory that has
  no watch yet. A remove event that is received after the file was made again in a
  directory without a watch deletes it for good (`watch.go:168`). An overflow of the
  kernel's queue ends the watcher (`watch.go:107`). `NewWatcher` failing leaves `watcher`
  nil and `Poll` reads its fields, so the announced fallback to polling cannot run
  (`watch.go:88`). `addWatchTree` of a new directory matches ignore patterns against
  paths relative to that directory, not to the source (`watch.go:139`).
- Cache. A crash between truncation and write leaves a file that `LoadState`
  refuses, and `bbrs` does not start until it is removed (`state.go:90`;
  `RemoveCacheFile`); `README.md:106` says the cache survives restarts.
- Passes. `SyncChanges` follows symbolic links which `WalkSource` skips
  (`syncer.go:209`, `walk.go:20`; `Stat` against `Listed`). The comment
  of `SyncChanges` announces a full mirror on early failure; it returns an error, and
  the changes are dropped (`syncer.go:190`, `syncer.go:214`). Files that failed are not
  tried again until they change or the game reconnects (`main.go:314`). The README
  lists the metadata fetch after the uploads and the code fetches first.
  `uniqueSorted` trims the spaces of a name, so an incremental pass does not find a
  file whose name ends in one (`syncer.go:345`).
- Configuration and paths. `config.toml` cannot set an empty text or list, so it
  cannot undo what an env file says, though it ranks higher (`config.go:412`,
  `Told`). The help says the default destination is `/bbrs/`, a form that
  `NormalizeRemotePath` refuses (`config.go:525`, `paths.go:15`). `./C:` is accepted
  at startup as `C:`, which every later use refuses; a file or directory of that
  name at the top of the source fails the whole walk (`Drivelike` in
  `AcceptedDestinationServes`). A remote file `./C:/x` would be deleted as `C:/x`, and
  that leads back to no file (`UploadsAreRecognised`; the proof found it). A backslash in
  a name is taken for a slash, so on Unix two files may share a remote name.

## The proofs

| Theorem | Says |
|---|---|
| `SyncerProofs!TypeCorrect` | `Spec => []TypeOK` |
| `SyncerProofs!CacheIsSound` | `Spec => []CacheSound`, if there is one host |
| `SyncerProofs!MirrorConverges` | `Spec => []CleanMirrorConverges`, if there is one host |
| `SyncerProofs!OnlyOwnedFilesTouched` | `Spec => OnlyOwnedFiles` |
| `SyncerProofs!LiveFilesAreKept` | `Spec => MirrorNeverDeletesLive` |
| `SyncWorkerProofs!WorkerTypeCorrect` | `Spec => []TypeOK` |
| `SyncWorkerProofs!OnlyOneLoop` | `Spec => []SingleLoop` |
| `SyncWorkerProofs!RunningIsTrue` | `Spec => []RunningHasLoop` |
| `SyncWorkerProofs!OneConnectionServed` | `Spec => []OneClient` |
| `SyncWorkerProofs!ChangesAreKept` | `Spec => []NoChangeForgotten` |
| `SyncWorkerProofs!NoJobIsStranded` | `Spec => []NoStrandedJob`, if there is one connection |
| `WatchProofs!WatchTypeCorrect` | `Spec => []TypeOK` |
| `WatchProofs!WatcherTellsAll` | `Spec => []QuietIsMirrored` |
| `ClientProofs!ClientTypeCorrect` | `Spec => []TypeOK` |
| `ClientProofs!HandlerRunsOnce` | `Spec => []HandledOnce` |
| `ClientProofs!AnswersAreOwn` | `Spec => []OwnAnswer` |
| `ClientProofs!ClientRefines` | `Spec => ImplementsRemoteCalls`, if the game repeats nothing |
| `SyncWorkerProofs!WorkerRefines` | `Spec => ImplementsChangeLife` |
| `BbrsProofs!BbrsTypeCorrect` | `Spec => []TypeOK` |
| `BbrsProofs!LossesAreKnown` | `Spec => []QuietIsMirrored` |
| `StartupProofs!PrecedenceHolds` | `StartupSpec => []HighestLayerWins` |
| `StartupProofs!ProjectFileIsOwn` | `StartupSpec => []OwnProjectFile` |
| `StartupProofs!SettingsHaveValues` | `StartupSpec => []TypeOK` |
| `StartupProofs!EventsFollowWalk` | `StartupSpec => []EventsAgreeWithWalk` |
| `StartupProofs!DestinationServes` | `StartupSpec => []AcceptedDestinationServes` |
| `StartupProofs!UploadsLeadBack` | `StartupSpec => []UploadsAreRecognised` |
| `ClientProofs!SuccessIsTrue` | a call that succeeded was performed, under the same assumption |

They hold for all names, patterns, links, connections, loops, numbers of saves,
settings, layers, trees and remote names that satisfy the assumptions of the
modules, which TLC evaluates on the instances. `ValuesAssumption` says that a layer
has a value or nothing for each setting, `TreesAssumption` that the paths of a tree
are `Normal` (on Unix that excludes a backslash in a name), `InvalidAssumption` that
the error is not a path. Three further assumptions appear in theorems: `OneHost`, as
with two hosts `CacheSound` is false (`second_target` shows it); `OneConnection`, as
with two `NoStrandedJob` is false (`stranded_job`); and `MaxRepeats = 0` for the
refinement of the client, as a repeated answer whose id has come round again would
be believed; with distinct ids TLC checks it with repeats.

The arguments. `CacheSound` is not inductive: that a pushed stamp is at most the
pushed version needs to know that every planned stamp and every content read is
at most the newest version, and that the content in flight is at least the stamp
planned for it, because the stamp was taken first (`StampInv`).
`CleanMirrorConverges` speaks of the last moment of a pass; `CourseInv` says for
each stage what an undisturbed, so far clean full pass has achieved: metadata
equals the game, the plan equals the source, each visited name is in the game as
planned, each stale name is gone or still to be deleted. The two action properties
of a pass need `OwnInv`, which keeps everything a pass has still to do within the
matched names, and `LiveInv`, which follows a file that is taken for stale back to
the moment its source was missing, or to its being ignored or a link. `OnlyOneLoop` and
`RunningIsTrue` come from one invariant, `LoopInv`: a loop is active exactly while
`running` is set, and a caller that is to decide still holds `workerMu` since it
read `running` as false, so nobody can have started a loop in between.
`OneConnectionServed` needs `ClientInv`: whoever clears `app.client` has marked
its own client disconnected before, and what a goroutine has read from
`app.client` is never a connection that is still to come. `ChangesAreKept` follows a saved name from hand to hand (`ChangeInv`).
`NoJobIsStranded` needs `StrandInv`: whoever leaves a job behind has found no
client, or one that is marked, and a connection that is still to be served calls
`queueSync` itself. `WatcherTellsAll` rests on `SnapInv`, how snapshots, source and
edits relate, and `TellInv`: while no event was lost and `Poll` goes on, a name that
differs is in the pending ChangeSet (and right there), in the queue, differs
between the last snapshot and the source, or overtakes the scan that is under way.
`AnswersAreOwn` and `ClientRefines` rest on `WireInv`: while nothing is repeated,
the wire holds at most one request or one answer, and it belongs to the call that
holds the lock and reads, or the connection is closed. Every way out of
`requestRaw` keeps that because a call that leaves without its answer closes the
connection.

`WorkerRefines` maps each step of a goroutine to one of `ChangeLife`: most stutter,
`RunSync` begins the changes of its job, because `ChangeInv` says that they wait
with it and `OnlyOneLoop` that no other pass is under way. `LossesAreKnown` follows a
name through the composition (`Known`): a name that differs is in `missed`, or somebody
knows what is right of it: its events, the next snapshot, the pending ChangeSet, a job
or the plan. Its events count only if one of them will be looked up, as a remove alone
would be believed (`EventTells`), and a full job that waits does not count, as a merge
may take it away. `PlanInv` says that what a plan deletes by mistake is told again later
or in `missed`.
The configuration's invariant says after each step what the layers read so far
amount to (`EnvSays`, `AllSay`), layers that are still to be read being silent.
`ValuesInv` says what an accepted destination is (`Normal`), `PlanInv` what was
planned from it; the rest is lemmas of `PathsProofs` about the functions themselves:
a normalized path is its own normal form (`NormalStays`), cleaning changes nothing
(`CleanStays`), the name of a file leads back to it (`JoinLeadsBack`), a remote name
leads to a file that leads back (`RemoteLeadsBack`), and the walk finds exactly the
files that no pattern ignores (`WalkFinds`). They need induction on the length of a
path, which is done by the least counterexample (`Least`); that is why the parts
of a path are given in closed form and `Clean` is a recursive function.

Only model-checked is liveness, which is beyond the prover: `PassEnds`,
`ChangeIsSynced`, `MutexReleased`, `DeadClientLeaves`, `ChangeIsTold`,
`HandledInTheEnd`, `CallReturns`, `ChangeIsMirrored` and `VanishedGameNoticed`.

## What is not modelled

Metadata decoding (`metadata.go`) yields values that nobody reads afterwards; only
its failure matters, and that is `MetadataFails`. The text of env files and flags,
`path.Match` and the split of lists at commas are text, and what they yield is a
constant of `Config` and `Paths`; a pattern or a value that does not parse ends the
program before anything starts. Logging keeps no state that matters here. The JSON
of the cache is either whole or torn. The wait of `server.Shutdown` is not modelled:
`Crash` may happen at any step, and the end of `run` is one such. In `Bbrs`, `queueSync`
and the acceptance of a connection are single steps, and the cache and a restart are
left to `Syncer`; that its scheduler is what `SyncWorker` does at that grain is argued
above and not proved.

## Plan

1. Done: Syncer, SyncWorker, Watch with its directories, RemoteCalls and Client,
   ChangeLife, Bbrs, Paths, Config and Startup, their runs, the invariants of
   Syncer, SyncWorker, Client, Bbrs and Startup, the refinements of RemoteCalls and
   ChangeLife.
2. Done: proofs of every invariant and action property that a passing run checks.
3. A refinement between SyncWorker and the scheduler of Bbrs.
