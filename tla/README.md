# gobin: a verification project

TLA+ models of gobin (a Usenet downloader in Go), the TLC configurations that
check them on small instances, and TLAPS proofs of the results that matter
most. Paths are relative to the repository; line numbers are those of the
source the models were written from.

1. [The system](#1-the-system)
2. [Modules](#2-modules)
3. [Runs, bounds and fairness](#3-runs-bounds-and-fairness)
4. [Where the code and its comments disagree](#4-where-the-code-and-its-comments-disagree)
5. [Proofs](#5-proofs)
6. [What is not modelled](#6-what-is-not-modelled)
7. [Plan](#7-plan)

## 1. The system

One process. `cmd/gobin/main.go` opens the database and starts, in this order,
the engine goroutine, the watch-directory goroutine, the RSS goroutine, the
scheduler, the health checks, the metrics server and the HTTP server. Nothing
waits for anything: the HTTP server answers while the engine still restores
jobs, and at SIGTERM `main` cancels one context and returns without waiting for
the engine or for requests.

| component | state | operations | talks to |
|---|---|---|---|
| `queue.Manager` | the job list, the pause flag, cancel functions by ID, one mutex; each `Job` has its own mutex for its status and atomic counters | Add, Remove, Pause, Resume, Next, RegisterCancel, UnregisterCancel | called by everything |
| `storage.Store` | bbolt buckets `jobs` and `history` | Save, List, Delete of each; Clear of the history | engine, HTTP handlers |
| `engine.Engine`, loop | the job in hand | restoreJobs, Next every 2 s, processJob, moveToHistory, panic recovery | queue, store, pools, assembler, postprocess, notifier |
| `engine.downloadFile` | two channels, worker goroutines, a map of early segments, a write cursor | feed, fetch, collect, write in order, flush | `nntp.Pool`, decoder, assembler |
| `nntp.Pool`, `Client` | a channel of idle connections, a counter of open ones | Get, Put, Close; Dial, Body, Alive | engine |
| `api.Server` | none of its own | add, upload, remove, pause, resume, history, configuration, SABnzbd dialect, event stream | queue, store, configuration |
| `watcher`, `rss` | the directory; the set of seen GUIDs | scan every 10 s; poll | queue only (nothing is saved) |
| `config.Manager` | the current configuration and its file | Get, Update, redaction | all |
| `nzb`, `decoder` | none | parse an NZB; decode an article | engine, sources |
| `assembler`, `postprocess` | working directories; the output directory that jobs share | write, move, repair, unpack, clean up | engine |
| `scheduler`, `notify`, `health`, `metrics`, `logging`, web UI | for display or export | | |

What is hard, and what each component has to get right:

* **Shared jobs.** A `*Job` that `Next` returned is used by the engine without
  the manager's mutex while requests remove it, pause it and resume it. Whatever
  the order, no job may be left in a status nobody will ever move it out of, and
  an active job must be reachable by Remove.
* **Queue order.** The highest priority first, the oldest among equals, and no
  operation may reorder or duplicate what stays.
* **Two copies of the truth.** Queue and database are updated one after the
  other, by the engine and by requests, with crashes in between. No accepted job
  may be lost, and a restart must find every unfinished one.
* **Cancellation.** One context carries deletion and shutdown, across five kinds
  of goroutines connected by bounded channels.
* **Order under concurrency.** Segments are fetched in any order and must be
  written in order, each once, and each counted once.
* **Liveness.** One engine goroutine serves all jobs: a paused, failing or
  panicking job must give it back.
* **Connections.** The pool counts connections by hand; lost ones must not be
  leaked and waiters must be woken, also when a write error has left the workers of
  one file on the pool beside those of the next.
* **A protocol over one stream.** Replies are matched to commands by their order
  alone. An error, a late reply or an article that is cut short must not leave
  anything behind that the next user of the connection takes for its own.
* **Secrets that go out masked and come back.** Clients send back what they were
  shown, later, in another order, next to key rolls, saves that fail and restarts,
  which expand what was saved once more.
* **Files on their way through the disk.** An NZB is written by one goroutine, or
  by a user, and read by another much later; a download is moved between
  directories, and post-processing works on a directory that other jobs use too.

`PROJECT.json` lists these hazards at their lines.

## 2. Modules

| module | models | lines of code |
|---|---|---|
| `QueueManager` | `queue.Manager`; `QueueSpec` is the manager alone with arbitrary clients | `internal/queue/manager.go` 13-304 |
| `Store` | the two buckets, one operator per transaction | `internal/storage/storage.go` |
| `JobLifecycle` | engine loop, requests, process start, stop and crash, around the two above | `internal/engine/engine.go` 47-300, 555-612; `internal/api`; `main.go` |
| `JobLedger` | the abstract specification: what the database promises about a job | |
| `SegmentPipeline` | one `downloadFile` with its goroutines | `engine.go` 302-460 |
| `ConnPool` | the pool of one server and the workers of a job's downloads, one after the other, that use it | `internal/nntp/client.go` 210-315, `engine.go` 192-251, 462-551 |
| `YEnc` | `DecodeYEnc` as operators on sequences of lines | `internal/decoder/yenc.go` |
| `NntpClient` | one connection, from Dial to Close and again, with an external server and what becomes of each segment | `internal/nntp/client.go` 36-228, `engine.go` 410-453 |
| `JobFiles` | the files of the jobs: file loop, assembler, post-processing | `engine.go` 166-300, `internal/assembler`, `internal/postprocess` |
| `Intake` | watch directory, feeds and uploads, up to ParseFile in the engine | `internal/watcher`, `internal/rss`, `internal/nzb`, `internal/api/server.go` 383-439, 652-685, `sabnzbd.go` 231-347 |
| `ConfigManager` | the configuration, its file, and the requests about it | `internal/config`, `server.go` 441-510 |
| `MCQueueManager`, `MCJobLifecycle`, `MCConfigManager`, `MCJobFiles`, `MCNntpClient`, `MCIntake` | TLC instances: inputs, symmetry, constraints, the smaller next-state relation of the liveness run | |
| `QueueManagerProofs`, `JobLifecycleProofs`, `SegmentPipelineProofs`, `ConnPoolProofs`, `JobFilesProofs`, `NntpClientProofs`, `ConfigManagerProofs`, `IntakeProofs` | the theorems about each | |

`JobLifecycle` EXTENDS `QueueManager` and takes `Store` with INSTANCE, giving it
its record types. `JobLedger` is instantiated in `JobLifecycle` as `Ledger`, with
its one variable replaced by a function of the database. `NntpClient` EXTENDS
`YEnc`. The others stand beside `JobLifecycle` and are tied to it by what they
share: `SegmentPipeline` is its action FileReturns in detail, `ConnPool` and
`NntpClient` are the FetchReturns of `SegmentPipeline`, `JobFiles` follows its `pc`
from "files" to "finish", and `Intake` ends where SetupFails and SetupSucceeds begin.

### QueueManager

`jobs` is the slice, as a sequence of IDs; `job[id]` is the object, which lives
on after its removal because the engine has a pointer to it. `cancelFns` is the
map of cancel functions and `cancelled` the contexts they cancelled. Methods run
under one mutex, so each is one step. Of a job the model keeps status, priority,
whether `Error` is set, and `DoneSegments`.

### JobLifecycle

One step is one critical section or one database transaction. `pc` is the place
of the engine goroutine; its values follow `processJob` from top to bottom:

    list -> restore -> idle -> picked -> registered -> downloading -> parsing
      -> files -> fetching -> fetched -> files ... -> [postprocess -> unpacking]
      -> finish -> archive -> forget -> [remove] -> unregister -> idle
    (a panic) -> recovering -> archive -> forget -> remove -> unregister -> idle

| action | code |
|---|---|
| `ListStoredJobs`, `RestoreJob`, `EnterLoop` | `restoreJobs` 73-97: a snapshot, then one Add per record, in any order (bbolt lists by key, and keys are random) |
| `PickJob`, `StopEngine` | the select of `Run` 58-69 |
| `Register`, `MarkDownloading`, `PersistStart` | 151-161 |
| `SetupFails`, `SetupSucceeds` | the early returns 170-211 and the way past them |
| `SeeCancelled`, `SeePaused`, `StartFile` | the top of the file loop 217-236 |
| `FileReturns`, `FileFails`, `PersistProgress` | `downloadFile` and 236-248 |
| `StartPostProcessing` ... `Finish` | 253-293 |
| `Archive`, `ForgetRecord` | the two transactions of `moveToHistory` 107-131 |
| `RemoveFinished`, `Unregister` | 299, and the deferred 154 |
| `Panic`, `Recover` | the deferred `UnregisterCancel` 154, then the recovery of `safeProcessJob` 133-147, which fails the job under another lock |
| `ApiAdd`, `ApiBuildRecord`, `ApiSaveRecord` | `addAndPersistJob`: Add, read the status, save |
| `ApiRemove`, `ApiDeleteRecord` | Remove, then DeleteJob |
| `ApiPause`, `ApiResume`, `ApiPauseQueue`, `ApiDeleteHistory`, `ApiClearHistory` | one call each |
| `SourceAdd` | watcher and RSS poller: Add, nothing saved |
| `Boot`, `Terminate`, `Die` | start; SIGTERM; exit or crash at any step |

Reading a job and saving what was read is one step in `persistJob` and
`moveToHistory`, because the engine is the only goroutine that changes both the
job's counters and its record, and a pause or resume between reading and saving
gives the same result as one after both. It is two steps in `addAndPersistJob`,
which races with the engine.

Three abstractions: a file has one segment (the inside of a download is in
`SegmentPipeline`); `postprocess.Run` never sets `Result.Error` (its only source
is `extract`, which returns nil on all paths, `postprocess.go` 136-189), so
post-processing has no failing branch (what it does to files is in `JobFiles`); a panic is possible in the three places
that run foreign input through parsers, decoders and tools. `issued` and
`dropped` are history variables. After a panic the function is unregistered already
when "unregister" comes, where the model removes it once more, without effect.

### SegmentPipeline

`segCh` is the interval from `taken` to `fed`, because indices are fed in order;
`results` is `resultCh`; `at[w]` and `holds[w]` are the worker goroutines;
`pending` and `writeIdx` belong to the consumer. `consumer = "failed"` is the
return after a write error, with feeder and workers left behind, and
`lost` remembers the indices that workers dropped when they saw the context done.

### ConnPool

`idle` and `closed` are the channel `Pool.conns`, `active` the counter; `at[w]`,
`client[w]` and `attempt[w]` are a worker inside `fetchSegment`, and the actions
follow it through Get, Body and Put:

    rest -> attempt -> [check | check -> close -> count -> dial | count -> dial
         | count -> wait] -> use -> done | retry -> attempt

A connection in `broken` has been dropped by the server: Alive and Body fail on
it, and a worker that was handed it while waiting is not told (Get asks Alive only
of a connection it finds at once). "close", "dial" and "use" are the exchanges that
wait for the server without a deadline.

`job` and `file` are what processJob does with the pool: it downloads one file after
the other, each with workers of its own (`Workers` are the files times the slots), and
the deferred closePools closes the channel, then what is in it. downloadFile returns
nil when the workers of its file are gone, or a write error while they are anywhere:
the file is then in `abandoned`, its workers go on with what its feeder still sends,
and the next file is downloaded over the same pool beside them, up to the close and
past it. A panic in the consumer has the effect of a write error in the last file. A
connection identity is used again when its connection is closed.

The branch of Put for a full channel is in the model and is never taken: as many
connections as the channel has room for exist (`CountIsOpen` and the bound in `TypeOK`), and the one in
hand is not in it (`OneUser`).

downloadFile starts as many workers as the first server allows connections
(`engine.go:330`), for all servers. So a limit of as many connections as there are
slots is the first server, and a lower one is a backup server. `maxConns` is a variable
that never changes, so that one run has both.

### YEnc and NntpClient

A line of an article is one of a few kinds: header, part header, footer with or
without a CRC, and data lines that are plain, begin with a dot, are a dot, are
damaged, or are empty. The CRC of some data is the data itself, so that it matches
exactly when the data does (no collisions).

`NntpClient` follows one place of the pool: `pc` is where the goroutine is that has
the connection, `wire` the lines it has not read yet, each with the command it
answers, `sent` what the server has not answered.

    gone -> greeting -> [user -> [pass]] -> ready -> body -> [article] -> idle
         -> alive | ready ...      alive -> ready | quit -> gone

The server is external. It answers one command after the other with any status
that fits the command, or with a line no status can be read from; it refuses what
it wants a login for; it may be silent for ever; and the connection may end
anywhere, with an end of file or with an error, with part of what was sent lost.
`link` says which, because readMultiLine makes a difference: an end of file is the
end of an article, anything else is an error. `Process` is processSegment, which
decodes what Body returned and counts the segment.

### JobFiles

`work` and `out` say of each file what is in the job's working directory and in
the output directory. CreateFile truncates, Finalize renames, post-processing goes
through the whole output directory. 7z may fail on any archive and succeeds only
on a set that is complete and undamaged; par2 repairs the set it is given or does
not. The mapping of names to kinds ("main", "part", "odd") is that of the globs and
substrings in `extract` and `cleanup`, which are not the same. `Die` stops the
process between any two of these steps, and which jobs come back is the choice
restoreJobs makes by the status of the record.

### Intake

A job is the way it came in, the key of its NZB path (a name in the watch directory,
a name under `<download>/nzb`, an item of a feed), the content found when it was
added, and the content the engine finds. Users write to the watch directory at any
time, also between two steps of `processFile`; a copy takes time, and a file that
is being copied does not parse. Two uploads of the same name write the same file.
`seen` and everything that is not in the database is gone after a `Restart`.

### ConfigManager

The servers' passwords, the webhooks' URLs and the feeds' URLs are masked and
restored by the same loop; `servers` stands for each of the three lists. An entry has
a host, which Validate looks at, and a secret. Every text of the file goes through
`os.ExpandEnv` before it is parsed: one in `Dollar` becomes whatever the environment
of that start makes of it, the empty text included, and a file with one may not parse
at all (`Parsed`). Directories, commands and names are texts without a rule of their
own; what is shown of a host holds of them.

The first file is absent, or any that a user can have written: with or without a key,
with references in any place, valid or not. Clients hold a `view`, the masked
configuration they were given, and send back an edited one at any later time: with
entries removed or added, a host or a secret typed again, any key that was ever in
use or any text in its place. Nobody types the placeholder itself. `Update` is one step,
because it runs under the manager's lock; `handleRollAPIKey` is two, because it does
not. Saving may fail at any time. `id`, of which the code knows nothing, says which
entry a client means; `given` and `keyGiven` remember what was last given for each.

## 3. Runs, bounds and fairness

| run | instance | checks |
|---|---|---|
| `queue` | 3 IDs, 2 priorities, symmetry | `NextIsHighestPriorityThenOldest`, `NoDuplicateJobs`, `QueueOrderKept` |
| `lifecycle` | 2 jobs of 2 files, `MaxDone` 3, symmetry, `TwoJobBounds` | `TypeOK`, `ActiveIsCurrent`, `DownloadingIsCancellable`, `UnfinishedRecordIsQueued`, `HistoryErrorMatchesStatus`, `ImplementsLedger` |
| `lifecycle_live` | 2 jobs, `CalmSpec` | `QueuedIsTakenUp` |
| `pipeline` | 5 segments, 2 connections | `TypeOK`, `NothingLeftToFlush`, `ReturnCountsEverySegment`, `NoSendAfterClose`, `SegmentInOnePlace`, `DownloadReturns` |
| `pool` | 2 files of 2 segments with 2 workers each, 1 or 2 connections, 2 attempts | `TypeOK`, `OneUser`, `CountIsOpen`, `NobodyWaits`, `PanicOnlyAfterWriteError`, `PrimaryFetchesEnd` |
| `nntp` | 2 message-IDs, 6 articles | `TypeOK`, `InStep`, `BodyHasOwnArticle`, `DoneIsWhole`, `CallsEnd` |
| `jobfiles` | 2 jobs of 2 files, `OneInWork` | `TypeOK`, `OutputIsWhole`, `AttemptDeliversAll`, `ArchiveOrContent` |
| `intake` | 1 watched name, 1 upload name, 2 contents, 2 clients, 3 items, 2 jobs, symmetry, `OneWayIn` | `TypeOK`, `NZBIsReadAsAdded`, `ItemIsQueuedOnce`, `OnlyUnreadableIsSetAside` |
| `config` | 2 clients, 2 entries, 2 keys, 1 text with and 1 without a dollar sign, lists of 2, symmetry, `Bounded` | `TypeOK`, `PlaceholdersGetTheirSecret`, `RestartKeepsConfig`, `SavedConfigLoads`, `KeyIsLastGiven` |

The other three runs are in section 4.

What they show:

* **`NextIsHighestPriorityThenOldest`**: the single pass of Next with its strict
  comparison is first-in-first-out within a priority. **`QueueOrderKept`**: no
  method reorders the jobs that stay.
* **`ActiveIsCurrent`**: a job shown as downloading, post-processing or completed
  is in the engine's hands. Next skips such a job and users can only remove or
  pause it, so one left behind would stay for ever. Early return, cancellation,
  pause, panic, and Remove by a user at any step all keep it.
* **`DownloadingIsCancellable`**: as long as a queued job is shown as downloading,
  Remove finds a function to cancel it, but for the moment between the two halves of a
  panic's recovery (section 4); no function outlives its job.
* **`UnfinishedRecordIsQueued`**: once the records have been listed, every record
  that says queued, downloading or paused belongs to a job that is queued, about
  to be restored, finished, or deleted by a user. The statuses are those of the
  code's own filter; what it leaves out is in section 4.
* **`HistoryErrorMatchesStatus`**: error and status are separate fields, written
  and read at different times; the history never shows a completed job with an
  error nor a failed one without.
* **`ImplementsLedger`**: for each job the database only goes from absent to
  pending to finished, or to released when a user deletes it. A crash anywhere,
  a record saved late, a removal in flight: nothing accepted vanishes.
* **`QueuedIsTakenUp`**: a waiting job is taken up or leaves the queue, if every
  download returns and users do not resume jobs for ever.
* **`SegmentInOnePlace`, `NothingLeftToFlush`, `ReturnCountsEverySegment`**: no
  segment is fetched or written twice; the flush loop, whose comment says
  "shouldn't happen if all segments arrived", is idle unless the job was
  cancelled; and a nil return has counted every segment, done or failed.
* **`NoSendAfterClose`**: `resultCh` is closed only after the last worker left.
* **`DownloadReturns`**: the two bounded channels and the ordered consumer do not
  deadlock as long as nobody cancels.
* **`OneUser`**: a connection is in the channel once, with one worker, or nowhere.
* **`CountIsOpen`**: the counter, corrected by hand wherever a connection is lost or
  not opened, is the number of connections open or being opened while the pool is in
  use. With the bound of the counter in `TypeOK`, workers that race for the last place
  do not pass the limit.
* **`NobodyWaits`**: with as many places as a download has workers, a worker that
  found the channel empty always finds a place to dial, although it looked at the
  channel and at the counter in two steps. The reason is that the workers on their way
  to the counter and the connections never outnumber the workers of one download.
  It ends with the first write error of the job (section 4).
* **`PanicOnlyAfterWriteError`**: `wg.Wait` keeps the workers of the downloads that
  returned nil, cancelled or not, away from the closed pool. Only those that a write
  error or a panic has left behind, however many files ago, can touch it.
* **`PrimaryFetchesEnd`**: on the first server, if every dial, command and QUIT ends,
  the downloads of a job come to their end one after the other, whatever is lost or
  fails to open, until a write error or the cancellation.
* **`InStep`**: on a connection that is used, what is unread answers the command
  sent last, and a free one has nothing unread. It is why Alive gives a connection
  up when its deadline passes, why Body must read to the final dot, and why a missing
  deadline in Body, bad as it is for liveness, keeps the stream in step.
* **`BodyHasOwnArticle`**: what Body collects is a beginning of the article asked for.
* **`DoneIsWhole`**: a segment that counts as done with no alarm is what was
  posted, unless its connection ended inside it or its article has no CRC.
  Dot-stuffing, damaged lines and lines after the footer are all covered.
* **`CallsEnd`**: the check itself ends whatever the server does, since Alive has a
  deadline. Body, Dial and what Get does with a connection that is not alive (QUIT, and
  its answer) end if the server answers every command or the connection ends, at any
  point of an article. Without that premise they need not (section 4).
* **`OutputIsWhole`**: through errors, pauses, crashes and second attempts, the
  output directory never shows a file that was not gone through to its end.
* **`AttemptDeliversAll`**: a job that comes to post-processing without an error has
  all its files there, even if another job's cleanup removed some of them while
  it was paused: each attempt starts from the first file.
* **`ArchiveOrContent`**: without a working 7z nothing is removed; a main archive that
  is gone was extracted once, or 7z failed on it (section 4).
* **`NZBIsReadAsAdded`**: the engine reads the NZB the job was made of, at once or
  after restarts, unless another hand has written to the path since: the program's
  own steps are in the right order and none of them takes a file away that is still
  needed.
* **`ItemIsQueuedOnce`**: once per process, in however many feeds, polls and links.
* **`OnlyUnreadableIsSetAside`**: a file that parses is never renamed to `.failed`,
  except one that took the place of another within the same scan.
* **`PlaceholdersGetTheirSecret`**: whatever old pages are sent, in whatever order
  with new hosts, key rolls and restarts, each entry has the secret last given for it,
  as long as no placeholder changed its position; and no placeholder becomes a secret.
* **`RestartKeepsConfig`**: what a start would load is the live configuration, host by
  host and secret by secret, unless the save failed, and but for the texts that have a
  dollar sign in the file.
* **`SavedConfigLoads`**: a running process has a file on disk that the next start
  accepts, whatever edits were refused and whatever saves failed, unless a text in it
  has a dollar sign.
* **`KeyIsLastGiven`**: the live key is the last one that a file, a roll or a request
  carried; an edit from a page older than a roll, whose key is a placeholder, does not
  bring the old one back.

**Bounds.** `MaxDone` stops the segment counter, in the guard of `FileReturns`;
3 with two files is a complete attempt and the start of another. While there has
been one job, `lifecycle` has no other bound. With the second one `TwoJobBounds`
asks that nothing is deleted, that there is no SIGTERM and no pause of the whole queue
(neither tells jobs apart), that no segment is counted, and that at most one job at
a time has a request in flight or is in trouble; the other is the bystander this
part is about. The engine has one job in hand, so a third would be one more
bystander. Symmetry is used with safety properties only, and IDs are only compared.

In the pipeline, 5 segments exceed the capacity 4 of each channel, so that both
fill, and two workers give every reordering of adjacent segments; five segments
also pass the first wrap-around of both workers.

In `pool`, two files with two workers each are the smallest instance in which workers
that a write error left behind meet those of the next download, and again the close of
the pool behind it. One connection for two workers is a backup server, on which one waits
while the other dials or loses its connection; two is the first server, which four
workers share after a write error. Two segments per file let a worker come back for
a second one. The second attempt is needed: it is the one that comes after a lost
connection of the same worker, and a third would find nothing else.

In `nntp` nothing grows: a connection has at most two commands unanswered. Two
message-IDs are needed for one article to be taken for another; the six articles
have stuffed lines, a damaged line, a footer without a CRC, no yEnc at all, too few
lines, and one is not there. `OneInWork` keeps at most one file in the working
directories, which loses nothing: what is left there is truncated before it is
written again and never read. `OneWayIn` has one of the three ways in used at a
time, beside the jobs of the others: they share no state but the list of jobs.
`MaxJobs` 2 is two jobs of the same path, item or name.

In `config`, two entries are enough for one to take the place of the other, and two
keys for a roll to be overtaken by another; a third client would have nothing to add
to one with an old page and one who rolls. `Bounded` is three bounds. At most one of
the hosts, the secrets and a key given by reference is special, that is, has a dollar
sign or is empty: the functions go through the texts one by one, none looks at
two of them, and a file is refused because of one. At most two of these are the case
at a time: an open page, a roll under way, a failed save (the pairs are all there). And
nothing follows an edit in which a placeholder has changed its position: what comes
then is section 4. The proofs have none of these bounds.

Deadlock checking is off in the runs of `SegmentPipeline` and `ConnPool`, because a
download that has returned has nothing left to do, in those of `JobFiles`, because
all jobs may be done, and in those of `ConfigManager`, because a process whose
configuration is refused does not start and the keys of the instance run out; it
is on in the others.

**Fairness.** In the lifecycle `WF(EngineStep)` and no more: the engine is one
goroutine, and the Go scheduler runs a goroutine that can run; its ticker never stops.
Downloads, requests, sources, panics, SIGTERM and crashes are never fair. That a
download returns is a premise of `QueuedIsTakenUp`, `DownloadsReturn`, and not a
property of the code: section 4 lists what can keep one for ever (a cancelled download,
a silent server, a wait in Get), `DownloadReturns`, `PrimaryFetchesEnd` and `CallsEnd`
what cannot. The other premise is `ResumesEnd`: a resumed job keeps its place, so a user
who pauses and resumes the head of the queue again and again can starve the others, as
the priorities mean it. A paused queue and a process going down are excused.
`CalmSpec` is the relation of the liveness run: it leaves out restarts, SIGTERM,
history edits and records, none of which the engine waits for.

In `SegmentPipeline` every goroutine is weakly fair; `Cancel` is not. In `ConnPool`
each worker is, outside its exchanges with the server, and so are taking the next segment
as long as the consumer still takes results, and processJob's going on to the next file.
That the exchanges end is the premise `ExchangesEnd` of `PrimaryFetchesEnd`. Broken
connections, failing dials, cancellation and write errors are never fair. In
`NntpClient` only the client is fair, which includes that the deadline of Alive passes;
that the server answers or the connection ends is a premise of the second half of
`CallsEnd`.

Every property has a mutant in `PROJECT.json`: a definition changed the way a slip
in the code would change it (a dropped duplicate check, a strict comparison made
lax, a missing `UnregisterCancel`, `close` before `wg.Wait`), under which TLC finds
the property violated. The mutated forms stand next to the originals.

## 4. Where the code and its comments disagree

Three runs expect a violation; each checks one sentence of the repository.

| run | sentence | what happens |
|---|---|---|
| `pipeline_cancel` | `engine.go:150`, the context is cancellable "so it can be stopped on delete" | workers return on a done context, the feeder blocks on `segCh`, `resultCh` is never closed, `downloadFile` and the engine loop hang |
| `config_owner` | `config.go:238`, MergeRedacted "restores real secret values from the original where placeholders appear" | an entry is removed and the next one, whose placeholder moved up, gets the secret of the removed one |
| `jobfiles_cleanup` | `postprocess.go:191`, "cleanup removes archive and parity files after successful extraction" | one archive of the directory was extracted, and one on which 7z failed, or that belongs to another job, is removed with it |

The models show more of the same kind, which have no run of their own. In the
lifecycle:

* The restore filter of `engine.go:83` leaves out post-processing, and Add sets
  every restored job to queued (`manager.go:176`), so a crash while unpacking leaves
  a record that no restart takes up, of a job in no queue and no history, and a paused
  job starts by itself, although the store is there so that queue state and history
  "survive restarts" (`storage.go:2`).
* `Job.Error` is never cleared: a job that failed before its download (its NZB was not
  there yet), and that a user pauses and resumes, ends as failed although the second
  attempt has all its files (`engine.go:272`).
* "Only restore jobs that weren't completed/failed" (`engine.go:82`); a crash
  between SaveHistory and DeleteJob, or a late save of `addAndPersistJob`, makes a
  completed job download again.
* Remove "cancels if active" (`manager.go:191`); a job removed between Next and
  RegisterCancel is downloaded all the same. One removed while `restoreJobs` goes
  through its snapshot comes back. And between the two halves of the recovery from a
  panic (`engine.go:154`, then 140) a job is shown as downloading that has no function.
* `HistoryEntry.Status` is "completed" or "failed" (`storage.go:49`); a pause
  between SetStatus and `moveToHistory` archives "paused" (`engine.go:113`).
* `Progress` is a percentage 0-100 (`manager.go:83`); a second attempt counts on
  from the first (`engine.go:159`, `445`).
* Pause is lost between Next and SetStatus(Downloading) (`engine.go:159`).
* SIGTERM archives the active download as failed, "cancelled", instead of leaving
  its record for the restart (`engine.go:218`).

In the download:

* "Only buffers a small window of segments" (`engine.go:310`); one slow segment
  makes `pending` grow to all later ones.
* Get retrieves a connection, "creating one if needed" (`client.go:255`); where
  workers outnumber connections, a worker may wait in Get although those with
  connections have lost them: nobody tells it that there is a place, and it waits
  until the job is cancelled. This is so on a backup server with a lower limit than the
  first, and on the first server too once a write error has left the workers of a file
  behind, because the next download starts as many again over the same pool
  (`engine.go:237-240`, `330`). The job, and the queue with it, then stand still though
  every server answers. `NobodyWaits` and `PrimaryFetchesEnd` have their premises and
  their exception for this: without `abandoned # {}` TLC finds the second violated.
* Only Alive has a deadline (`client.go:223`). Body, Dial once it has a
  connection, and Close, which sends QUIT and waits for the reply, have none
  (`client.go:127`, 67, 214):
  a silent server keeps the worker for ever, in Get as well, when it closes a connection
  that has just failed to answer in time (`client.go:263`).
* Recovery is there "so a single bad job doesn't crash the engine loop"
  (`engine.go:133`); after a write error a worker that is left behind uses the
  closed pool and panics in a goroutine of its own, which ends the process. This is
  why `PanicOnlyAfterWriteError` says no more than it does.
* An article that ends with its connection counts as whole when what was lost
  includes the footer (`client.go:189`); a segment whose CRC does not match is
  written and counts as done (`engine.go:436`).

At the edges:

* A file in the watch directory is added again at every scan (`watcher.go:111`),
  and one that is still being copied is set aside as `.failed` (`watcher.go:82`).
* A feed item that a filter rejected is never looked at again, though the filter
  be edited, or another feed have it without one (`rss.go:121`).
* Jobs from feeds and from addurl have no file to open and always fail
  (`rss.go:142`, `sabnzbd.go:246`).
* A request whose SaveJob failed is answered like any other (`server.go:683`).
* handleRollAPIKey makes a "deep copy" (`server.go:488`) that is a copy of the struct
  and shares its lists; an edit that is applied between its Get and its Update is lost,
  and in the model the copy then counts as what was given.
* A request may carry any key in place of the placeholder (`config.go:248`), one that
  was rolled away, or an empty one; the next start generates one for the latter.
* Load expands the whole file, also what the program has saved itself (`config.go:156`).
  A host, a password or a directory that was entered with a dollar sign is live as it
  was typed and another one after the restart; it may be empty, and then a host is refused
  and the process does not start, or break the YAML. `createDefault` and the README
  of the repository recommend `${USENET_HOST}` (`config.go:317`), which the program does
  expand in a file written by hand, and, typed on the settings page, only after a restart.
  A key that is a reference to nothing is replaced by
  a generated one, and the file saved with everything expanded: its references are gone.

## 5. Proofs

Checked by TLAPS for every value of the constants. What is assumed of them is in
the ASSUMEs, and no more:

| module | assumptions |
|---|---|
| `QueueManager` | `None` is no ID; priorities are naturals and there is one; `MaxDone` is a natural |
| `JobLifecycle` | `NumFiles` is a natural; `None` is no record and no entry |
| `SegmentPipeline` | `NumSegments` is a natural, `MaxConns` an integer |
| `ConnPool` | slots and connections are finite sets; each limit is between 1 and the number of connections; `None` is no connection; `NumFiles`, `MaxRetries` and `NumFetches` are naturals |
| `JobFiles` | `None` is no job; the NZB of a job is a sequence of kinds of file |
| `NntpClient` | articles are sequences of lines, of any length; `None` is no message-ID |
| `ConfigManager` | texts with a dollar sign, the empty one, the placeholder, and the rest, generated keys among them, are different; `None` is no configuration; `MaxServers` is a natural |
| `Intake` | missing, cut off and unreadable are no contents; a feed is a sequence of items; `None` is no record; `MaxJobs` is a natural |

That there are as many connections as the largest limit is no restriction of the
pool: a connection is only a name, and it is used again when it is closed.

| module | theorem | states |
|---|---|---|
| `QueueManagerProofs` | `QueueHasNoDuplicates` | `QueueSpec => []NoDuplicateJobs` |
| | `NextIsRight` | `QueueSpec => []NextIsHighestPriorityThenOldest` |
| | `OrderIsKept` | `QueueSpec => QueueOrderKept` |
| `JobLifecycleProofs` | `TypeCorrect` | `Spec => []TypeOK` |
| | `NoDuplicates` | `Spec => []NoDuplicateJobs` |
| | `ActiveJobIsCurrent` | `Spec => []ActiveIsCurrent` |
| | `HistoryIsConsistent` | `Spec => []HistoryErrorMatchesStatus` |
| | `DownloadsCanBeCancelled` | `Spec => []DownloadingIsCancellable` |
| | `LifecycleImplementsLedger` | `Spec => ImplementsLedger` |
| | `RecordsAreQueued` | `Spec => []UnfinishedRecordIsQueued` |
| `SegmentPipelineProofs` | `PipelineTypeCorrect` | `Spec => []TypeOK` |
| | `OnePlace` | `Spec => []SegmentInOnePlace` |
| | `FlushIsIdle` | `Spec => []NothingLeftToFlush` |
| | `AllCounted` | `Spec => []ReturnCountsEverySegment` |
| | `CloseIsSafe` | `Spec => []NoSendAfterClose` |
| `ConnPoolProofs` | `PoolTypeCorrect` | `Spec => []TypeOK` |
| | `ConnectionHasOneUser` | `Spec => []OneUser` |
| | `CountIsExact` | `Spec => []CountIsOpen` |
| | `PrimaryNeverWaits` | `Spec => []NobodyWaits` |
| | `PanicNeedsWriteError` | `Spec => []PanicOnlyAfterWriteError` |
| `JobFilesProofs` | `FilesTypeCorrect` | `Spec => []TypeOK` |
| | `OutputStaysWhole` | `Spec => []OutputIsWhole` |
| | `ErrorFreeAttemptDelivers` | `Spec => []AttemptDeliversAll` |
| | `ArchivesAreTriedFirst` | `Spec => []ArchiveOrContent` |
| `NntpClientProofs` | `ClientTypeCorrect` | `Spec => []TypeOK` |
| | `ClientStaysInStep` | `Spec => []InStep` |
| | `BodyReadsOwnArticle` | `Spec => []BodyHasOwnArticle` |
| | `DoneSegmentsAreWhole` | `Spec => []DoneIsWhole` |
| `ConfigManagerProofs` | `ConfigTypeCorrect` | `Spec => []TypeOK` |
| | `PlaceholdersAreResolved` | `Spec => []PlaceholdersGetTheirSecret` |
| | `RestartFindsLive` | `Spec => []RestartKeepsConfig` |
| | `SavedConfigIsLoadable` | `Spec => []SavedConfigLoads` |
| | `KeyIsAsGiven` | `Spec => []KeyIsLastGiven` |
| `IntakeProofs` | `IntakeTypeCorrect` | `Spec => []TypeOK` |
| | `JobsGetTheirNZB` | `Spec => []NZBIsReadAsAdded` |
| | `ItemsAreQueuedOnce` | `Spec => []ItemIsQueuedOnce` |
| | `SetAsideIsUnreadable` | `Spec => OnlyUnreadableIsSetAside` |

These are all the safety properties that the passing runs check, and the
refinement of the ledger. Each module has an invariant `IndInv` (or several, one
resting on the other) that holds initially and is kept by every step, with one
step of the proof per action; the theorems follow from it. What it has to say
beyond the properties is the reason why they hold:

**Queue.** Add and Remove are described once, by what they do to the sequence
(`QueueAdd` puts an ID behind the others and only if it is not there, `QueueRemove`
takes one out and keeps the order), and the lifecycle uses the same lemmas.
`NextIsRight` is an induction on the number of jobs that the loop of Next has passed:
`FoundAfter(n)` says what it holds then, the first of the best among the first n. The
induction is on the set of the n for which this is true, from the well-ordering of
the naturals; `LeastElement` is that fact. `Best`, the loop, is a recursive function,
which the prover can reason about where it could not about a recursive operator.

**Lifecycle.** `TypeOK` is not inductive: the file loop needs `file < NumFiles` while a
file is in hand, and a job in hand whenever `pc` is inside `processJob`. `IndInv`
adds these, and for the ledger that a request about to delete a record is about a
dropped job, that the record is on disk from the first save to `moveToHistory`
unless a user has deleted it (`RecordKept`), and that the engine deletes it only
after the history entry is written (`ArchivedFirst`). `ActiveIsCurrent` needs that
no ID is twice in the queue (else RemoveFinished would leave the second copy of a
completed job behind), that there is no job in hand between two jobs, and what the
status can be at each place where the engine lets go of a job; `QueueInv` adds these.
`DownloadingIsCancellable` needs in addition that a job once removed does not come
back under its ID while the engine still has it, so that the function it registered
before the removal cannot be missing (`IsIssued`, `CancelInv`), and that a panic is the
only way past `UnregisterCancel` with the status left as it is.
`HistoryErrorMatchesStatus` holds because it holds of every job at every moment and
not only when it is archived (`ErrorInv`): "failed" is set with an error, "completed"
without one, and a pause or resume at any time only replaces the status by one that
goes with both.
`UnfinishedRecordIsQueued` needs that a request saves a record only of a job it has
added before, that the engine has its job in the queue until it lets go of it or a
user removes it, and that what `restoreJobs` still has to add is what is on disk
(`RecordInv`). `LifecycleImplementsLedger` shows that the initial database maps to
the ledger's initial state, and that each action maps to Accept, Finish, Release or a
stutter.

**Pipeline.** Every index below `taken` is written, with a worker, in the channel, in
the map, or lost (`NoneForgotten`), and what is on its way is in front of the write
cursor and in one place (`SegmentInOnePlace`, `AllInFlight`). So when the channel is
closed behind the last worker (`ClosedAtEnd`) and nobody has cancelled, the feeder
has fed all indices, the workers have taken all, none is lost, and an index the
cursor waits for could only be in the map, where the in-order loop does not stop
(`CursorWaits`).

**Pool.** `OpenIsCounted` is the half of `CountIsOpen` that holds after the close as
well. `NobodyWaits` comes from `OnePlacePerWorker`: until the first write error, the
counter together with the workers about to ask it (they found no idle connection) does
not exceed the workers of one download, since a worker that becomes one of those leaves
no connection in the channel. It needs that no worker of an earlier file is anywhere:
`AtWork` and `LeftToDo` say that one is between the two ends of a fetch, or can begin
one, only in the file that is being downloaded or in one that was abandoned.
`PanicOnlyAfterWriteError` follows from the same facts, since the pool is closed when no
file is being downloaded (`ClosedAfterUse`). The rest are facts on the
cardinality of sets from which one element moves to another, with the workers of a file
as a set of the size of `Slots` (`CrewSize`).

**Files.** Finalize moves what the working directory holds, so in front of the rename
the file in hand must have been gone through (`Gone`), and for that there must be one
in hand (`Writing`). par2 and cleanup keep `OutputIsWhole` because they turn a file
into a good one or into none. `AttemptDeliversAll` is `LoopDelivers` at the end of
the loop, of which no other job's post-processing can take anything away, since there
is one engine; `ArchiveOrContent` needs that every main archive present is on the list
or was tried (`MainsTried`) and that cleanup follows an extraction (`ExtractedSome`).

**Client.** `InStep` alone is not inductive: that nothing is left over when Body ends
needs that an answer is one line or a whole article, and where in it the client is.
`Talk` says so place by place: unread is a command without an answer, or its answer
(`Awaiting`), in Body perhaps the line that announces the article and a front part of
it (`BodyAnswer`), and inside the article exactly the lines that follow those already
read (`Rest`), up to the final dot. So an article that ends with the dot was read
line by line and to its end, and `DoneIsWhole` follows from what DecodeYEnc makes of
the whole article; one that ends otherwise is cut. `Data`, the decoder's loop over the
lines, is a recursive function like `Best`, and its type is proved in the same way.

**Configuration.** MergeRedacted, applyDefaults and ExpandEnv change entries one by one
and keep their order; the first two keep hosts, and Validate sees only hosts. `IndInv` says
that the live configuration and every copy a key roll holds are valid, defaulted and
without a placeholder (`Live`, `SecretInv`), that the file says what is live in each text
that has no dollar sign (`Written`), unless a save failed, and that a file without a
dollar sign is one that Load accepts. No two entries of a list are for the same thing
(`OwnIds`), so `given` is about one entry each. `PlaceholdersGetTheirSecret` needs that no
placeholder is anywhere but in a view: one in the file or in the copy of a key
roll would come back later, with a restart or the end of the roll. `KeyIsLastGiven` is
inductive with the same facts, as MergeRedacted resolves a placeholder by the live key.

**Intake.** The file at a job's path is the one it was made of unless somebody has
written to it since (`JobFits`); the watcher's parse result is what is there, unless
it was touched (`WatchOK`); a request that has its name to itself finds what it wrote,
two at a time are spoilt, and so is every job whose name is uploaded again
(`UploadsOK`); every job of this process that came from a feed has its key in
`seen`, and no other has the same key (`FeedsOK`).

Only model-checked: the liveness properties `QueuedIsTakenUp`, `DownloadReturns`,
`PrimaryFetchesEnd` and `CallsEnd`, since fairness and ENABLED are out of the
prover's reach, and the three violations of section 4, which TLC shows by a behaviour.
What is proved is proved of the models; that they are the code is the reading that
sections 2 and 3 and the map in `PROJECT.json` explain.

## 6. What is not modelled

* Database errors: the store never fails. So a failed SaveHistory followed by DeleteJob
  (`engine.go:127-130`) and a save on the database that `main` has closed
  (`main.go:81`) are hazards without a property, and the order of ListHistory
  (`storage.go:166`), which only the display depends on, is left out.
* Several servers in one `fetchSegment`: `ConnPool` has the pool of one. The next
  server is tried when this one is given up, and their pools share nothing but the
  workers.
* The arithmetic inside a yEnc line, CRC collisions, and the fields of an NZB and of
  a yEnc header that decide nothing.
* The speed scheduler: nothing reads the limit it sets (`main.go:123`).
* Left out for good: the speed tracker, metrics, health checks, logging and webhooks
  (nothing depends on what they compute), authentication (a decision on one request,
  without state), the event stream and all read-only handlers, the server test, the
  web UI (a client), par2 and 7z themselves.

## 7. Plan

1. Done: `QueueManager`, `Store`, `JobLifecycle`, `JobLedger`, `SegmentPipeline`,
   `ConnPool`, `YEnc`, `NntpClient`, `JobFiles`, `Intake`, `ConfigManager`, and the
   proofs of all their safety properties (section 5).
2. An abstract specification of the pool (at most `maxConns` connections, each idle
   or with one user) that `ConnPool` is shown to implement; one of a download, in
   which segments are written in order, for `SegmentPipeline`.
3. Several servers in `fetchSegment`.
4. `Store` with failing transactions, and what the ledger becomes then.
