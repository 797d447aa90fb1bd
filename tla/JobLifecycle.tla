---------------------------- MODULE JobLifecycle ----------------------------
(***************************************************************************)
(* The life of a download job: the engine loop (internal/engine/engine.go),*)
(* the HTTP handlers that add, remove, pause and resume jobs and edit the  *)
(* history (internal/api), the watcher and the RSS poller that add jobs,   *)
(* and process start, SIGTERM and crash (cmd/gobin/main.go), all around    *)
(* the queue (QueueManager) and the database (Store).                      *)
(*                                                                         *)
(* A step is one critical section of Manager.mu or Job.mu, or one bbolt    *)
(* transaction: what runs between two of them is local to one goroutine.   *)
(* Reading a job and saving what was read is one step where it commutes    *)
(* (persistJob, moveToHistory: the engine is the only goroutine that       *)
(* changes both the job and its record), and two where it does not         *)
(* (addAndPersistJob, which races with the engine).                        *)
(***************************************************************************)
EXTENDS QueueManager

CONSTANT NumFiles  \* files in an NZB, one segment each

ASSUME NumFilesIsNat == NumFiles \in Nat

VARIABLES
    storeJobs, history,  \* the database, see Store
    pc,            \* where the engine goroutine is
    cur,           \* the job passed to processJob, or None
    file,          \* files of cur already gone through
    onQueueExit,   \* whether processJob ends with queue.Remove
    toRestore,     \* the records restoreJobs has read and not gone through
    adding,        \* addAndPersistJob: queue.Add done, record not built
    built,         \* addAndPersistJob: the record built and not yet saved
    removing,      \* handleRemoveFromQueue: queue.Remove done, DeleteJob not
    shuttingDown,  \* main called cancel() on the context of every goroutine
    issued,        \* history variable: IDs that GenerateID has returned
    dropped        \* history variable: IDs a user deleted from queue or history

JobRecord == Job
HistoryEntry == [status : Status, err : BOOLEAN]

ASSUME NoneIsNoRecord == None \notin JobRecord /\ None \notin HistoryEntry

INSTANCE Store WITH Record <- JobRecord, Entry <- HistoryEntry

engineVars == <<pc, cur, file, onQueueExit, toRestore>>
dbVars == <<storeJobs, history>>
apiVars == <<adding, built, removing>>
ghostVars == <<issued, dropped>>
vars == <<queueVars, dbVars, engineVars, apiVars, shuttingDown, ghostVars>>

\* "off": no process runs.  "list" and "restore": restoreJobs.  "idle": the
\* select of Run.  The others are the places of safeProcessJob between two
\* steps, in program order; "remove" and "unregister" come after
\* moveToHistory ("archive", "forget"), and so does the recovery of a panic,
\* which begins at "recovering".
PC == {"off", "list", "restore", "idle", "picked", "registered",
       "downloading", "parsing", "files", "fetching", "fetched", "pausing",
       "postprocess", "unpacking", "finish", "archive", "forget", "remove",
       "unregister", "recovering", "stopped"}

\* The file index stays within the NZB and the counters within their bounds,
\* whatever order the returns, panics and restarts of processJob come in.
TypeOK ==
    /\ QueueTypeOK
    /\ StoreTypeOK
    /\ pc \in PC
    /\ cur \in Ids \cup {None}
    /\ file \in 0..NumFiles
    /\ onQueueExit \in BOOLEAN
    /\ toRestore \in [Ids -> JobRecord \cup {None}]
    /\ adding \subseteq Ids
    /\ built \in [Ids -> JobRecord \cup {None}]
    /\ removing \subseteq Ids
    /\ shuttingDown \in BOOLEAN
    /\ issued \subseteq Ids
    /\ dropped \subseteq Ids

NoRecords == [id \in Ids |-> None]

Init ==
    /\ QueueInit
    /\ StoreInit
    /\ pc = "off"
    /\ cur = None
    /\ file = 0
    /\ onQueueExit = FALSE
    /\ toRestore = NoRecords
    /\ adding = {}
    /\ built = NoRecords
    /\ removing = {}
    /\ shuttingDown = FALSE
    /\ issued = {}
    /\ dropped = {}

-----------------------------------------------------------------------------
(* The engine.                                                             *)

Goto(from, to) == pc = from /\ pc' = to

\* jobCtx is done when Remove cancelled it or its parent context is done.
CtxDone == cur \in cancelled \/ shuttingDown

\* The status the job is given before a return or a move to history.
SetCur(s, err) == job' = [job EXCEPT ![cur].status = s, ![cur].err = err]

OnlyJob == UNCHANGED <<jobs, queuePaused, cancelFns, cancelled>>

\* ListJobs: a snapshot of the records.  The HTTP server is already up, so
\* records of new jobs may be among them, and may be deleted meanwhile.
ListStoredJobs ==
    /\ Goto("list", "restore")
    /\ toRestore' = storeJobs
    /\ UNCHANGED <<queueVars, dbVars, cur, file, onQueueExit, apiVars,
                   shuttingDown, ghostVars>>

\* recordToJob, the status filter, and Add.  Add refuses an ID that is
\* already queued, and sets any other job to queued.
Restorable == {"queued", "downloading", "paused"}

\* Mutant of RestoreJob: paused jobs are left out.
RestoreJob_NotPaused(id) ==
    /\ pc = "restore"
    /\ toRestore[id] # None
    /\ toRestore' = [toRestore EXCEPT ![id] = None]
    /\ IF toRestore[id].status \in {"queued", "downloading"} /\ ~InQueue(id)
       THEN QueueAdd(id, toRestore[id])
       ELSE UNCHANGED queueVars
    /\ UNCHANGED <<dbVars, pc, cur, file, onQueueExit, apiVars,
                   shuttingDown, ghostVars>>

\* Mutant of RestoreJob: a duplicate ends the loop instead of the iteration.
RestoreJob_Break(id) ==
    /\ pc = "restore"
    /\ toRestore[id] # None
    /\ toRestore' = IF InQueue(id) THEN NoRecords
                                   ELSE [toRestore EXCEPT ![id] = None]
    /\ IF toRestore[id].status \in Restorable /\ ~InQueue(id)
       THEN QueueAdd(id, toRestore[id])
       ELSE UNCHANGED queueVars
    /\ UNCHANGED <<dbVars, pc, cur, file, onQueueExit, apiVars,
                   shuttingDown, ghostVars>>

RestoreJob(id) ==
    /\ pc = "restore"
    /\ toRestore[id] # None
    /\ toRestore' = [toRestore EXCEPT ![id] = None]
    /\ IF toRestore[id].status \in Restorable /\ ~InQueue(id)
       THEN QueueAdd(id, toRestore[id])
       ELSE UNCHANGED queueVars
    /\ UNCHANGED <<dbVars, pc, cur, file, onQueueExit, apiVars,
                   shuttingDown, ghostVars>>

EnterLoop ==
    /\ Goto("restore", "idle")
    /\ toRestore = NoRecords
    /\ UNCHANGED <<queueVars, dbVars, cur, file, onQueueExit, toRestore,
                   apiVars, shuttingDown, ghostVars>>

\* A tick of Run.  After SIGTERM both cases of the select are ready and Go
\* takes either, so a job may still be started.
PickJob ==
    /\ Goto("idle", "picked")
    /\ NextJob \in Ids
    /\ cur' = NextJob
    /\ UNCHANGED <<queueVars, dbVars, file, onQueueExit, toRestore,
                   apiVars, shuttingDown, ghostVars>>

StopEngine ==
    /\ Goto("idle", "stopped")
    /\ shuttingDown
    /\ UNCHANGED <<queueVars, dbVars, cur, file, onQueueExit, toRestore,
                   apiVars, shuttingDown, ghostVars>>

\* context.WithCancel and RegisterCancel.
Register ==
    /\ Goto("picked", "registered")
    /\ RegisterCancel(cur)
    /\ UNCHANGED <<dbVars, cur, file, onQueueExit, toRestore, apiVars,
                   shuttingDown, ghostVars>>

MarkDownloading ==
    /\ Goto("registered", "downloading")
    /\ SetStatus(cur, "downloading")
    /\ OnlyJob
    /\ UNCHANGED <<dbVars, cur, file, onQueueExit, toRestore, apiVars,
                   shuttingDown, ghostVars>>

\* persistJob: the record is the job as it is now.
Persist(from, to) ==
    /\ Goto(from, to)
    /\ SaveJob(cur, job[cur])
    /\ UNCHANGED <<queueVars, cur, file, onQueueExit, toRestore, apiVars,
                   shuttingDown, ghostVars>>

PersistStart == Persist("downloading", "parsing")
PersistProgress == Persist("fetched", "files")
PersistPaused == Persist("pausing", "unregister")
PersistPostProcessing == Persist("postprocess", "unpacking")

\* Mutant of SetupFails: the record is deleted and no history entry written.
SetupFails_NoHistory ==
    /\ Goto("parsing", "forget")
    /\ SetCur("failed", TRUE)
    /\ onQueueExit' = FALSE
    /\ OnlyJob
    /\ UNCHANGED <<dbVars, cur, file, toRestore, apiVars, shuttingDown,
                   ghostVars>>

\* The NZB cannot be parsed, the directories cannot be made, or no usable
\* server is configured.  These returns leave the job in the queue.
SetupFails ==
    /\ Goto("parsing", "archive")
    /\ SetCur("failed", TRUE)
    /\ onQueueExit' = FALSE
    /\ OnlyJob
    /\ UNCHANGED <<dbVars, cur, file, toRestore, apiVars, shuttingDown,
                   ghostVars>>

SetupSucceeds ==
    /\ Goto("parsing", "files")
    /\ file' = 0
    /\ UNCHANGED <<queueVars, dbVars, cur, onQueueExit, toRestore, apiVars,
                   shuttingDown, ghostVars>>

\* Mutant of SeeCancelled: the status is left as it was.
SeeCancelled_StatusKept ==
    /\ Goto("files", "archive")
    /\ file < NumFiles
    /\ CtxDone
    /\ onQueueExit' = FALSE
    /\ UNCHANGED <<queueVars, dbVars, cur, file, toRestore, apiVars,
                   shuttingDown, ghostVars>>

\* The top of the file loop: the context first, then the status.
SeeCancelled ==
    /\ Goto("files", "archive")
    /\ file < NumFiles
    /\ CtxDone
    /\ SetCur("failed", TRUE)
    /\ onQueueExit' = FALSE
    /\ OnlyJob
    /\ UNCHANGED <<dbVars, cur, file, toRestore, apiVars, shuttingDown,
                   ghostVars>>

\* Mutant of SeePaused: wait for the resume instead of returning.
SeePaused_Waits ==
    /\ Goto("files", "files")
    /\ file < NumFiles
    /\ ~CtxDone
    /\ job[cur].status = "paused"
    /\ UNCHANGED <<queueVars, dbVars, cur, file, onQueueExit, toRestore,
                   apiVars, shuttingDown, ghostVars>>

SeePaused ==
    /\ Goto("files", "pausing")
    /\ file < NumFiles
    /\ ~CtxDone
    /\ job[cur].status = "paused"
    /\ UNCHANGED <<queueVars, dbVars, cur, file, onQueueExit, toRestore,
                   apiVars, shuttingDown, ghostVars>>

\* Mutant of StartFile: one iteration too many.
StartFile_OneMore ==
    /\ Goto("files", "fetching")
    /\ file <= NumFiles
    /\ ~CtxDone
    /\ job[cur].status # "paused"
    /\ UNCHANGED <<queueVars, dbVars, cur, file, onQueueExit, toRestore,
                   apiVars, shuttingDown, ghostVars>>

StartFile ==
    /\ Goto("files", "fetching")
    /\ file < NumFiles
    /\ ~CtxDone
    /\ job[cur].status # "paused"
    /\ UNCHANGED <<queueVars, dbVars, cur, file, onQueueExit, toRestore,
                   apiVars, shuttingDown, ghostVars>>

\* downloadFile (SegmentPipeline has the inside) returns nil, its segment
\* written or counted as failed; Finalize's error is only logged.
FileReturns(written) ==
    /\ Goto("fetching", "fetched")
    /\ job[cur].done + written <= MaxDone  \* bound
    /\ job' = [job EXCEPT ![cur].done = @ + written]
    /\ OnlyJob
    /\ file' = file + 1
    /\ UNCHANGED <<dbVars, cur, onQueueExit, toRestore, apiVars,
                   shuttingDown, ghostVars>>

\* downloadFile returns an error: on to the next file, nothing persisted.
FileFails ==
    /\ Goto("fetching", "files")
    /\ file' = file + 1
    /\ UNCHANGED <<queueVars, dbVars, cur, onQueueExit, toRestore, apiVars,
                   shuttingDown, ghostVars>>

\* After the loop.  postprocess runs when par2 or unpack is configured; its
\* Run never returns an error, see the README.
StartPostProcessing ==
    /\ Goto("files", "postprocess")
    /\ file = NumFiles
    /\ SetStatus(cur, "post-processing")
    /\ OnlyJob
    /\ UNCHANGED <<dbVars, cur, file, onQueueExit, toRestore, apiVars,
                   shuttingDown, ghostVars>>

SkipPostProcessing ==
    /\ Goto("files", "finish")
    /\ file = NumFiles
    /\ UNCHANGED <<queueVars, dbVars, cur, file, onQueueExit, toRestore,
                   apiVars, shuttingDown, ghostVars>>

FinishPostProcessing ==
    /\ Goto("unpacking", "finish")
    /\ UNCHANGED <<queueVars, dbVars, cur, file, onQueueExit, toRestore,
                   apiVars, shuttingDown, ghostVars>>

\* Mutant of Finish: the error of an earlier attempt is not looked at.
Finish_Completed ==
    /\ Goto("finish", "archive")
    /\ SetStatus(cur, "completed")
    /\ onQueueExit' = TRUE
    /\ OnlyJob
    /\ UNCHANGED <<dbVars, cur, file, toRestore, apiVars, shuttingDown,
                   ghostVars>>

\* The outcome depends on Job.Error, which an earlier attempt may have set.
\* The notification is sent while the engine is in "archive".
Finish ==
    /\ Goto("finish", "archive")
    /\ SetStatus(cur, IF job[cur].err THEN "failed" ELSE "completed")
    /\ onQueueExit' = TRUE
    /\ OnlyJob
    /\ UNCHANGED <<dbVars, cur, file, toRestore, apiVars, shuttingDown,
                   ghostVars>>

\* moveToHistory: the entry takes the status the job has now; then the
\* record is deleted.
Archive ==
    /\ Goto("archive", "forget")
    /\ SaveHistory(cur, [status |-> job[cur].status, err |-> job[cur].err])
    /\ UNCHANGED <<queueVars, cur, file, onQueueExit, toRestore, apiVars,
                   shuttingDown, ghostVars>>

ForgetRecord ==
    /\ Goto("forget", IF onQueueExit THEN "remove" ELSE "unregister")
    /\ DeleteJob(cur)
    /\ UNCHANGED <<queueVars, cur, file, onQueueExit, toRestore, apiVars,
                   shuttingDown, ghostVars>>

\* Mutant of RemoveFinished: the job at the head of the queue.
RemoveFinished_Head ==
    /\ Goto("remove", "unregister")
    /\ IF jobs # <<>> THEN QueueRemove(jobs[1]) ELSE UNCHANGED queueVars
    /\ UNCHANGED <<dbVars, cur, file, onQueueExit, toRestore, apiVars,
                   shuttingDown, ghostVars>>

\* The error of Remove, when a user has removed the job already, is ignored.
RemoveFinished ==
    /\ Goto("remove", "unregister")
    /\ IF InQueue(cur) THEN QueueRemove(cur) ELSE UNCHANGED queueVars
    /\ UNCHANGED <<dbVars, cur, file, onQueueExit, toRestore, apiVars,
                   shuttingDown, ghostVars>>

\* Mutant of Unregister: the cancel function stays registered.
Unregister_Forgotten ==
    /\ Goto("unregister", "idle")
    /\ cur' = None
    /\ file' = 0
    /\ onQueueExit' = FALSE
    /\ UNCHANGED <<queueVars, dbVars, toRestore, apiVars, shuttingDown,
                   ghostVars>>

\* The deferred UnregisterCancel, and back to the select of Run.
Unregister ==
    /\ Goto("unregister", "idle")
    /\ UnregisterCancel(cur)
    /\ cur' = None
    /\ file' = 0
    /\ onQueueExit' = FALSE
    /\ UNCHANGED <<dbVars, toRestore, apiVars, shuttingDown, ghostVars>>

\* A panic in processJob: its deferred calls run first, UnregisterCancel among
\* them, and leave the status as it is.
Panic ==
    /\ pc \in {"parsing", "fetching", "unpacking"}
    /\ pc' = "recovering"
    /\ UnregisterCancel(cur)
    /\ onQueueExit' = TRUE
    /\ UNCHANGED <<dbVars, cur, file, toRestore, apiVars, shuttingDown,
                   ghostVars>>

\* Then the recovery of safeProcessJob fails the job; moveToHistory and
\* queue.Remove follow.
Recover ==
    /\ Goto("recovering", "archive")
    /\ SetCur("failed", TRUE)
    /\ OnlyJob
    /\ UNCHANGED <<dbVars, cur, file, onQueueExit, toRestore, apiVars,
                   shuttingDown, ghostVars>>

EngineStep ==
    \/ ListStoredJobs
    \/ \E id \in Ids : RestoreJob(id)
    \/ EnterLoop \/ PickJob \/ StopEngine
    \/ Register \/ MarkDownloading \/ PersistStart
    \/ SetupFails \/ SetupSucceeds
    \/ SeeCancelled \/ SeePaused \/ PersistPaused \/ StartFile
    \/ PersistProgress
    \/ StartPostProcessing \/ SkipPostProcessing \/ PersistPostProcessing
    \/ FinishPostProcessing \/ Finish
    \/ Recover
    \/ Archive \/ ForgetRecord \/ RemoveFinished \/ Unregister

FetchStep == FileFails \/ \E written \in 0..1 : FileReturns(written)

-----------------------------------------------------------------------------
(* The HTTP handlers and the other sources of jobs.                        *)

Up == pc # "off"

\* addAndPersistJob (JSON add, NZB upload, SABnzbd addurl and addfile).
\* The new job is in the queue, and the engine may start it, before its
\* record is built and saved.
ApiAdd(id) ==
    /\ Up
    /\ id \notin issued
    /\ issued' = issued \cup {id}
    /\ \E p \in Priorities : QueueAdd(id, NewJob(p))
    /\ adding' = adding \cup {id}
    /\ UNCHANGED <<dbVars, engineVars, built, removing, shuttingDown,
                   dropped>>

\* The record takes the status of the moment; it has no error and no count.
ApiBuildRecord(id) ==
    /\ id \in adding
    /\ adding' = adding \ {id}
    /\ built' = [built EXCEPT ![id] =
                    [NewJob(job[id].prio) EXCEPT !.status = job[id].status]]
    /\ UNCHANGED <<queueVars, dbVars, engineVars, removing, shuttingDown,
                   ghostVars>>

ApiSaveRecord(id) ==
    /\ built[id] # None
    /\ SaveJob(id, built[id])
    /\ built' = [built EXCEPT ![id] = None]
    /\ UNCHANGED <<queueVars, engineVars, adding, removing, shuttingDown,
                   ghostVars>>

\* Watcher.scan and Poller.checkFeed add to the queue and save nothing.
SourceAdd(id) ==
    /\ Up
    /\ id \notin issued
    /\ issued' = issued \cup {id}
    /\ \E p \in Priorities : QueueAdd(id, NewJob(p))
    /\ UNCHANGED <<dbVars, engineVars, apiVars, shuttingDown, dropped>>

\* handleRemoveFromQueue and sabDeleteJob: Remove, then DeleteJob.
ApiRemove(id) ==
    /\ Up
    /\ QueueRemove(id)
    /\ removing' = removing \cup {id}
    /\ dropped' = dropped \cup {id}
    /\ UNCHANGED <<dbVars, engineVars, adding, built, shuttingDown, issued>>

ApiDeleteRecord(id) ==
    /\ id \in removing
    /\ DeleteJob(id)
    /\ removing' = removing \ {id}
    /\ UNCHANGED <<queueVars, engineVars, adding, built, shuttingDown,
                   ghostVars>>

OnlyQueue == UNCHANGED <<dbVars, engineVars, apiVars, shuttingDown, ghostVars>>

ApiPause(id) == Up /\ PauseJob(id) /\ OnlyQueue
ApiResume(id) == Up /\ ResumeJob(id) /\ OnlyQueue
ApiPauseQueue(paused) == Up /\ PauseQueue(paused) /\ OnlyQueue

ApiDeleteHistory(id) ==
    /\ Up
    /\ DeleteHistory(id)
    /\ dropped' = IF id \in InHistory THEN dropped \cup {id} ELSE dropped
    /\ UNCHANGED <<queueVars, engineVars, apiVars, shuttingDown, issued>>

ApiClearHistory ==
    /\ Up
    /\ ClearHistory
    /\ dropped' = dropped \cup InHistory
    /\ UNCHANGED <<queueVars, engineVars, apiVars, shuttingDown, issued>>

ApiStep ==
    \/ \E id \in Ids :
          \/ ApiAdd(id) \/ ApiBuildRecord(id) \/ ApiSaveRecord(id)
          \/ SourceAdd(id)
          \/ ApiRemove(id) \/ ApiDeleteRecord(id)
          \/ ApiPause(id) \/ ApiResume(id)
          \/ ApiDeleteHistory(id)
    \/ \E paused \in BOOLEAN : ApiPauseQueue(paused)
    \/ ApiClearHistory

-----------------------------------------------------------------------------
(* The process.                                                            *)

Boot ==
    /\ Goto("off", "list")
    /\ UNCHANGED <<queueVars, dbVars, cur, file, onQueueExit, toRestore,
                   apiVars, shuttingDown, ghostVars>>

\* SIGTERM or SIGINT: main cancels the context and does not wait for the
\* engine or for the requests in flight.
Terminate ==
    /\ Up
    /\ ~shuttingDown
    /\ shuttingDown' = TRUE
    /\ UNCHANGED <<queueVars, dbVars, engineVars, apiVars, ghostVars>>

\* The process ends, by main returning or by a crash at any moment: what is
\* in memory is lost and what is in the database stays.
Die ==
    /\ Up
    /\ QueueLost
    /\ pc' = "off"
    /\ cur' = None
    /\ file' = 0
    /\ onQueueExit' = FALSE
    /\ toRestore' = NoRecords
    /\ adding' = {}
    /\ built' = NoRecords
    /\ removing' = {}
    /\ shuttingDown' = FALSE
    /\ UNCHANGED <<dbVars, ghostVars>>

Next == EngineStep \/ FetchStep \/ Panic \/ ApiStep \/ Boot \/ Terminate \/ Die

Spec == Init /\ [][Next]_vars

\* The engine goroutine is scheduled.  Nothing obliges a download to return,
\* a user to do anything, or the process to end.
Fairness == WF_vars(EngineStep)

FairSpec == Spec /\ Fairness

-----------------------------------------------------------------------------
(* Safety.                                                                 *)

\* Only the engine moves a job out of downloading, post-processing or
\* completed, and Next never hands such a job out.  So a job the queue shows
\* in one of them is the one in the engine's hands: no return, panic, pause,
\* or failure of processJob leaves a job behind that nobody will ever touch.
ActiveIsCurrent ==
    \A id \in Ids :
        InQueue(id) /\ job[id].status \in {"downloading", "post-processing",
                                           "completed"}
        => id = cur

\* Remove cancels a job through Manager.cancel.  Every job that is shown as
\* downloading has its function there, except the one whose panic the engine
\* is recovering from: it is shown as downloading, and has no function, until
\* the recovery fails it.  No function outlives its job.
DownloadingIsCancellable ==
    /\ cancelFns \subseteq {cur}
    /\ \A id \in Ids :
          InQueue(id) /\ job[id].status = "downloading"
          => id \in cancelFns \/ (pc = "recovering" /\ id = cur)

\* Once restoreJobs has listed the records, every record of a status it
\* restores belongs to a job that is queued or about to be, or is finished,
\* or was deleted by a user: no unfinished download is on disk only.
UnfinishedRecordIsQueued ==
    \A id \in Ids :
        /\ pc \notin {"off", "list"}
        /\ storeJobs[id] # None
        /\ storeJobs[id].status \in Restorable
        => InQueue(id) \/ toRestore[id] # None \/ history[id] # None
              \/ id \in dropped

\* The history never shows an error beside "completed", nor "failed" without
\* an error, although status and error are written and read one by one while
\* users pause and resume.
HistoryErrorMatchesStatus ==
    \A id \in InHistory :
        /\ history[id].status = "completed" => ~history[id].err
        /\ history[id].status = "failed" => history[id].err

\* What the database promises, see JobLedger.
DurablePlace == [id \in Ids |->
    IF id \in dropped THEN "released"
    ELSE IF history[id] # None THEN "finished"
    ELSE IF storeJobs[id] # None THEN "pending"
    ELSE "absent"]

Ledger == INSTANCE JobLedger WITH place <- DurablePlace

\* Jobs are never lost between the two buckets, in a crash or in a race of a
\* request with the engine: every step is one the ledger allows.
ImplementsLedger == Ledger!LedgerSpec

-----------------------------------------------------------------------------
(* Liveness.                                                               *)

\* If every download returns, which neither the servers nor the engine promise
\* (README, section 4), a queued job is taken up by the engine, or leaves the
\* queue, unless the queue is paused or the process is going down.  Users who
\* resume jobs for ever may starve it, because a resumed job keeps its place
\* ahead of it.
Waiting(id) == InQueue(id) /\ job[id].status = "queued"

Excused == queuePaused \/ shuttingDown \/ pc = "off"

DownloadsReturn == []<>(pc # "fetching")

ResumesEnd == <>[][\A id \in Ids : ~ApiResume(id)]_vars

QueuedIsTakenUp ==
    DownloadsReturn /\ ResumesEnd
        => \A id \in Ids : Waiting(id) ~> (~Waiting(id) \/ Excused)

=============================================================================
