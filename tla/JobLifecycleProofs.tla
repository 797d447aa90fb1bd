------------------------- MODULE JobLifecycleProofs -------------------------
(***************************************************************************)
(* Proofs about JobLifecycle, for every set of IDs and priorities, every   *)
(* number of files and every bound on the counter.                         *)
(*                                                                         *)
(* IndInv is the inductive invariant: TypeOK and what the places of the    *)
(* engine say about the job in its hands.                                  *)
(***************************************************************************)
EXTENDS JobLifecycle, QueueManagerProofs

\* The places where the engine has a job.
Busy == PC \ {"off", "list", "restore", "idle", "stopped"}

EngineHasJob == (pc \in Busy) => (cur \in Ids)

FileLeft == pc = "fetching" => file < NumFiles

\* From the first persistJob to moveToHistory the record is on disk, unless
\* a user removed the job.
RecordKept ==
    pc \in {"parsing", "files", "fetching", "fetched", "postprocess",
            "unpacking", "recovering", "finish", "archive"}
    => storeJobs[cur] # None \/ cur \in dropped

\* The record is deleted after the history entry is written, unless a user
\* has cleared the history in between.
ArchivedFirst ==
    pc \in {"forget", "remove"} => history[cur] # None \/ cur \in dropped

IndInv ==
    /\ TypeOK
    /\ EngineHasJob
    /\ FileLeft
    /\ removing \subseteq dropped
    /\ RecordKept
    /\ ArchivedFirst

-----------------------------------------------------------------------------
(* Types.                                                                  *)

\* So does the failure of the job in the engine's hands.
LEMMA SetCurType ==
    ASSUME job \in [Ids -> Job], cur \in Ids, SetCur("failed", TRUE)
    PROVE  job' \in [Ids -> Job]
<1>1. [job[cur] EXCEPT !.status = "failed", !.err = TRUE] \in Job
  BY DEF Job, Status
<1>2. job' = [job EXCEPT ![cur] = [job[cur] EXCEPT !.status = "failed", !.err = TRUE]]
  BY DEF SetCur
<1>. QED
  BY <1>1, <1>2

\* The record that addAndPersistJob builds is one.
LEMMA BuiltRecordType ==
    ASSUME NEW j \in Job
    PROVE  [NewJob(j.prio) EXCEPT !.status = j.status] \in JobRecord
<1>1. j.prio \in Priorities /\ j.status \in Status
  BY DEF Job
<1>2. NewJob(j.prio) \in Job
  BY <1>1, NewJobType
<1>. QED
  BY <1>1, <1>2 DEF Job, JobRecord

\* The initial state satisfies the inductive invariant.
LEMMA InitIndInv == Init => IndInv
<1>. SUFFICES ASSUME Init PROVE IndInv
  OBVIOUS
<1>1. QueueTypeOK
  <2>1. jobs \in Seq(Ids)
    BY DEF Init, QueueInit
  <2>. QED
    BY <2>1, FreshJobsType DEF Init, QueueInit, QueueTypeOK
<1>2. StoreTypeOK
  BY DEF Init, StoreInit, StoreTypeOK
<1>3. TypeOK
  <2>1. file \in 0..NumFiles
    BY NumFilesIsNat DEF Init
  <2>. QED
    BY <1>1, <1>2, <2>1 DEF Init, TypeOK, PC, NoRecords
<1>. QED
  BY <1>3 DEF Init, IndInv, EngineHasJob, FileLeft, RecordKept, ArchivedFirst, Busy

\* Every step keeps the inductive invariant.
LEMMA StepIndInv == IndInv /\ [Next]_vars => IndInv'
<1>. SUFFICES ASSUME IndInv, [Next]_vars PROVE IndInv'
  OBVIOUS
<1>. USE DEF IndInv, EngineHasJob, FileLeft, RecordKept, ArchivedFirst, Busy,
             TypeOK, QueueTypeOK, StoreTypeOK, PC, Goto, JobRecord,
             queueVars, dbVars, apiVars, engineVars, ghostVars
<1>1. CASE ListStoredJobs
  BY <1>1 DEF ListStoredJobs
<1>2. CASE EnterLoop
  BY <1>2 DEF EnterLoop
<1>3. CASE PickJob
  BY <1>3 DEF PickJob
<1>4. CASE StopEngine
  BY <1>4 DEF StopEngine
<1>5. CASE Register
  BY <1>5 DEF Register, RegisterCancel
<1>6. CASE MarkDownloading
  <2>1. job' \in [Ids -> Job]
    BY <1>6, SetStatusType DEF MarkDownloading, Status
  <2>. QED
    BY <1>6, <2>1 DEF MarkDownloading, OnlyJob
<1>7. CASE PersistStart
  BY <1>7, NoneIsNoRecord DEF PersistStart, Persist, SaveJob
<1>8. CASE SetupFails
  <2>1. job' \in [Ids -> Job]
    BY <1>8, SetCurType DEF SetupFails
  <2>. QED
    BY <1>8, <2>1 DEF SetupFails, OnlyJob
<1>9. CASE SetupSucceeds
  BY <1>9, NumFilesIsNat DEF SetupSucceeds
<1>10. CASE SeeCancelled
  <2>1. job' \in [Ids -> Job]
    BY <1>10, SetCurType DEF SeeCancelled
  <2>. QED
    BY <1>10, <2>1 DEF SeeCancelled, OnlyJob
<1>11. CASE SeePaused
  BY <1>11 DEF SeePaused
<1>12. CASE PersistPaused
  BY <1>12, NoneIsNoRecord DEF PersistPaused, Persist, SaveJob
<1>13. CASE StartFile
  BY <1>13 DEF StartFile
<1>14. CASE PersistProgress
  BY <1>14, NoneIsNoRecord DEF PersistProgress, Persist, SaveJob
<1>15. CASE StartPostProcessing
  <2>1. job' \in [Ids -> Job]
    BY <1>15, SetStatusType DEF StartPostProcessing, Status
  <2>. QED
    BY <1>15, <2>1 DEF StartPostProcessing, OnlyJob
<1>16. CASE SkipPostProcessing
  BY <1>16 DEF SkipPostProcessing
<1>17. CASE PersistPostProcessing
  BY <1>17, NoneIsNoRecord DEF PersistPostProcessing, Persist, SaveJob
<1>18. CASE FinishPostProcessing
  BY <1>18 DEF FinishPostProcessing
<1>19. CASE Finish
  <2>1. job' \in [Ids -> Job]
    BY <1>19, SetStatusType DEF Finish, Status
  <2>. QED
    BY <1>19, <2>1 DEF Finish, OnlyJob
<1>20. CASE Archive
  BY <1>20, NoneIsNoRecord DEF Archive, SaveHistory, HistoryEntry, Job
<1>21. CASE ForgetRecord
  BY <1>21 DEF ForgetRecord, DeleteJob
<1>22. CASE RemoveFinished
  <2>1. QueueTypeOK'
    BY <1>22, QueueRemoveType DEF RemoveFinished
  <2>. QED
    BY <1>22, <2>1 DEF RemoveFinished
<1>23. CASE Unregister
  <2>1. file' \in 0..NumFiles
    BY <1>23, NumFilesIsNat DEF Unregister
  <2>. QED
    BY <1>23, <2>1 DEF Unregister, UnregisterCancel
<1>24. CASE FileFails
  BY <1>24, NumFilesIsNat DEF FileFails
<1>25. CASE Panic
  BY <1>25 DEF Panic, UnregisterCancel
<1>43. CASE Recover
  <2>1. job' \in [Ids -> Job]
    BY <1>43, SetCurType DEF Recover
  <2>. QED
    BY <1>43, <2>1 DEF Recover, OnlyJob
<1>26. CASE Boot
  BY <1>26 DEF Boot
<1>27. CASE Terminate
  BY <1>27 DEF Terminate
<1>28. CASE Die
  <2>1. jobs' \in Seq(Ids) /\ job' \in [Ids -> Job]
    BY <1>28, FreshJobsType DEF Die, QueueLost
  <2>2. file' \in 0..NumFiles
    BY <1>28, NumFilesIsNat DEF Die
  <2>. QED
    BY <1>28, <2>1, <2>2 DEF Die, QueueLost, NoRecords
<1>29. CASE ApiClearHistory
  BY <1>29 DEF ApiClearHistory, ClearHistory, InHistory
<1>30. ASSUME NEW id \in Ids, RestoreJob(id) PROVE IndInv'
  <2>1. QueueTypeOK'
    BY <1>30, QueueAddType DEF RestoreJob
  <2>. QED
    BY <1>30, <2>1 DEF RestoreJob
<1>31. ASSUME NEW id \in Ids, ApiAdd(id) PROVE IndInv'
  <2>1. QueueTypeOK'
    BY <1>31, QueueAddType, NewJobType DEF ApiAdd
  <2>. QED
    BY <1>31, <2>1 DEF ApiAdd
<1>32. ASSUME NEW id \in Ids, ApiBuildRecord(id) PROVE IndInv'
  <2>1. built' \in [Ids -> Job \cup {None}]
    BY <1>32, BuiltRecordType DEF ApiBuildRecord
  <2>. QED
    BY <1>32, <2>1 DEF ApiBuildRecord
<1>33. ASSUME NEW id \in Ids, ApiSaveRecord(id) PROVE IndInv'
  BY <1>33 DEF ApiSaveRecord, SaveJob
<1>34. ASSUME NEW id \in Ids, SourceAdd(id) PROVE IndInv'
  <2>1. QueueTypeOK'
    BY <1>34, QueueAddType, NewJobType DEF SourceAdd
  <2>. QED
    BY <1>34, <2>1 DEF SourceAdd
<1>35. ASSUME NEW id \in Ids, ApiRemove(id) PROVE IndInv'
  <2>1. QueueTypeOK'
    BY <1>35, QueueRemoveType DEF ApiRemove
  <2>. QED
    BY <1>35, <2>1 DEF ApiRemove
<1>36. ASSUME NEW id \in Ids, ApiDeleteRecord(id) PROVE IndInv'
  BY <1>36 DEF ApiDeleteRecord, DeleteJob
<1>37. ASSUME NEW id \in Ids, ApiPause(id) PROVE IndInv'
  <2>1. job' \in [Ids -> Job]
    BY <1>37, SetStatusType DEF ApiPause, OnlyQueue, PauseJob, Status
  <2>. QED
    BY <1>37, <2>1 DEF ApiPause, OnlyQueue, PauseJob
<1>38. ASSUME NEW id \in Ids, ApiResume(id) PROVE IndInv'
  <2>1. job' \in [Ids -> Job]
    BY <1>38, SetStatusType DEF ApiResume, OnlyQueue, ResumeJob, Status
  <2>. QED
    BY <1>38, <2>1 DEF ApiResume, OnlyQueue, ResumeJob
<1>39. ASSUME NEW id \in Ids, ApiDeleteHistory(id) PROVE IndInv'
  BY <1>39 DEF ApiDeleteHistory, DeleteHistory, InHistory
<1>40. ASSUME NEW written \in 0..1, FileReturns(written) PROVE IndInv'
  <2>1. job' \in [Ids -> Job]
    <3>1. [job[cur] EXCEPT !.done = @ + written] \in Job
      <4>1. job[cur] \in Job /\ job[cur].done \in 0..MaxDone
        BY <1>40 DEF FileReturns, Job
      <4>2. job[cur].done + written \in 0..MaxDone
        BY <1>40, <4>1, MaxDoneIsNat DEF FileReturns
      <4>. QED
        BY <4>1, <4>2 DEF Job
    <3>2. job' = [job EXCEPT ![cur] = [job[cur] EXCEPT !.done = @ + written]]
      BY <1>40 DEF FileReturns
    <3>. QED
      BY <3>1, <3>2
  <2>2. file' \in 0..NumFiles
    BY <1>40, NumFilesIsNat DEF FileReturns
  <2>. QED
    BY <1>40, <2>1, <2>2 DEF FileReturns, OnlyJob
<1>41. ASSUME NEW paused \in BOOLEAN, ApiPauseQueue(paused) PROVE IndInv'
  BY <1>41 DEF ApiPauseQueue, PauseQueue, OnlyQueue
<1>42. CASE UNCHANGED vars
  BY <1>42 DEF vars
<1>. QED
  BY <1>1, <1>2, <1>3, <1>4, <1>5, <1>6, <1>7, <1>8, <1>9, <1>10, <1>11,
     <1>12, <1>13, <1>14, <1>15, <1>16, <1>17, <1>18, <1>19, <1>20, <1>21,
     <1>22, <1>23, <1>24, <1>25, <1>26, <1>27, <1>28, <1>29, <1>30, <1>31,
     <1>32, <1>33, <1>34, <1>35, <1>36, <1>37, <1>38, <1>39, <1>40, <1>41,
     <1>42, <1>43 DEF Next, EngineStep, FetchStep, ApiStep

\* Type correctness of the specification.
THEOREM TypeCorrect == Spec => []TypeOK
<1>1. IndInv => TypeOK
  BY DEF IndInv
<1>. QED
  BY <1>1, InitIndInv, StepIndInv, PTL DEF Spec

-----------------------------------------------------------------------------
(* The queue and the engine.                                               *)

\* The statuses a job may have while the engine is not working on it.
AtRest == {"queued", "paused", "failed"}

NoJobWhenIdle == pc \notin Busy => cur = None

OthersRest ==
    \A id \in Ids : InQueue(id) /\ id # cur => job[id].status \in AtRest

\* Where processJob is about to return and leave the job in the queue.
Leaving ==
    \/ pc \in {"pausing", "unregister"}
    \/ pc \in {"archive", "forget"} /\ ~onQueueExit

LeftAtRest == Leaving /\ InQueue(cur) => job[cur].status \in AtRest

QueueInv ==
    /\ IndInv
    /\ NoDuplicateJobs
    /\ NoJobWhenIdle
    /\ OthersRest
    /\ LeftAtRest

-----------------------------------------------------------------------------

\* The engine fails the job in its hands only.
LEMMA SetCurEffect ==
    ASSUME job \in [Ids -> Job], cur \in Ids, SetCur("failed", TRUE)
    PROVE  /\ job'[cur].status = "failed"
           /\ job'[cur].err
           /\ \A x \in Ids : x # cur => job'[x] = job[x]
<1>1. /\ [job[cur] EXCEPT !.status = "failed", !.err = TRUE].status = "failed"
      /\ [job[cur] EXCEPT !.status = "failed", !.err = TRUE].err = TRUE
  BY DEF Job
<1>2. job' = [job EXCEPT ![cur] = [job[cur] EXCEPT !.status = "failed", !.err = TRUE]]
  BY DEF SetCur
<1>. QED
  BY <1>1, <1>2

\* Counting a segment changes neither status nor error.
LEMMA FileReturnsEffect ==
    ASSUME job \in [Ids -> Job], cur \in Ids, NEW written \in 0..1,
           FileReturns(written)
    PROVE  \A x \in Ids : /\ job'[x].status = job[x].status
                          /\ job'[x].err = job[x].err
<1>1. /\ [job[cur] EXCEPT !.done = @ + written].status = job[cur].status
      /\ [job[cur] EXCEPT !.done = @ + written].err = job[cur].err
  BY DEF Job
<1>2. job' = [job EXCEPT ![cur] = [job[cur] EXCEPT !.done = @ + written]]
  BY DEF FileReturns
<1>. QED
  BY <1>1, <1>2

-----------------------------------------------------------------------------

LEMMA InitQueueInv == Init => QueueInv
<1>. SUFFICES ASSUME Init PROVE QueueInv
  OBVIOUS
<1>1. Len(jobs) = 0
  BY DEF Init, QueueInit
<1>2. ~(pc \in Busy) /\ ~Leaving
  BY DEF Init, Busy, Leaving
<1>. QED
  BY <1>1, <1>2, InitIndInv
  DEF QueueInv, Init, NoDuplicateJobs, NoJobWhenIdle, OthersRest, LeftAtRest, InQueue

\* Every step keeps the invariant.
LEMMA StepQueueInv == QueueInv /\ [Next]_vars => QueueInv'
<1>. SUFFICES ASSUME QueueInv, [Next]_vars PROVE QueueInv'
  OBVIOUS
<1>a. /\ job \in [Ids -> Job]
      /\ pc \in PC
      /\ pc \in Busy => cur \in Ids
      /\ cur \in Ids \cup {None}
  BY DEF QueueInv, IndInv, TypeOK, QueueTypeOK, EngineHasJob
<1>b. IndInv'
  BY StepIndInv DEF QueueInv
<1>. SUFFICES NoDuplicateJobs' /\ NoJobWhenIdle' /\ OthersRest' /\ LeftAtRest'
  BY <1>b DEF QueueInv
<1>. USE NoneIsNoId
     DEF QueueInv, NoJobWhenIdle, OthersRest, LeftAtRest, Leaving, AtRest,
         Busy, PC, Goto
<1>1. CASE ListStoredJobs
  BY <1>1, <1>a, SameQueue DEF ListStoredJobs, queueVars
<1>2. CASE EnterLoop
  BY <1>2, <1>a, SameQueue DEF EnterLoop, queueVars
<1>3. CASE PickJob
  BY <1>3, <1>a, SameQueue DEF PickJob, queueVars
<1>4. CASE StopEngine
  BY <1>4, <1>a, SameQueue DEF StopEngine, queueVars
<1>5. CASE Register
  BY <1>5, <1>a, SameQueue DEF Register, RegisterCancel, queueVars
<1>6. CASE PersistStart
  BY <1>6, <1>a, SameQueue DEF PersistStart, Persist, queueVars
<1>7. CASE SetupSucceeds
  BY <1>7, <1>a, SameQueue DEF SetupSucceeds, queueVars
<1>8. CASE SeePaused
  BY <1>8, <1>a, SameQueue DEF SeePaused, queueVars
<1>9. CASE PersistPaused
  BY <1>9, <1>a, SameQueue DEF PersistPaused, Persist, queueVars
<1>10. CASE StartFile
  BY <1>10, <1>a, SameQueue DEF StartFile, queueVars
<1>11. CASE PersistProgress
  BY <1>11, <1>a, SameQueue DEF PersistProgress, Persist, queueVars
<1>12. CASE SkipPostProcessing
  BY <1>12, <1>a, SameQueue DEF SkipPostProcessing, queueVars
<1>13. CASE PersistPostProcessing
  BY <1>13, <1>a, SameQueue DEF PersistPostProcessing, Persist, queueVars
<1>14. CASE FinishPostProcessing
  BY <1>14, <1>a, SameQueue DEF FinishPostProcessing, queueVars
<1>15. CASE Archive
  BY <1>15, <1>a, SameQueue DEF Archive, queueVars
<1>16. CASE ForgetRecord
  BY <1>16, <1>a, SameQueue DEF ForgetRecord, queueVars
<1>17. CASE Unregister
  BY <1>17, <1>a, SameQueue DEF Unregister, UnregisterCancel, queueVars
<1>18. CASE FileFails
  BY <1>18, <1>a, SameQueue DEF FileFails, queueVars
<1>19. CASE Boot
  BY <1>19, <1>a, SameQueue DEF Boot, queueVars
<1>20. CASE Terminate
  BY <1>20, <1>a, SameQueue DEF Terminate, engineVars, queueVars
<1>21. CASE ApiClearHistory
  BY <1>21, <1>a, SameQueue DEF ApiClearHistory, engineVars, queueVars
<1>22. CASE MarkDownloading
  <2>1. \A x \in Ids : x # cur => job'[x] = job[x]
    BY <1>22, <1>a, SetStatusEffect DEF MarkDownloading, Status
  <2>. QED
    BY <1>22, <1>a, <2>1, SameQueue DEF MarkDownloading, OnlyJob
<1>23. CASE StartPostProcessing
  <2>1. \A x \in Ids : x # cur => job'[x] = job[x]
    BY <1>23, <1>a, SetStatusEffect DEF StartPostProcessing, Status
  <2>. QED
    BY <1>23, <1>a, <2>1, SameQueue DEF StartPostProcessing, OnlyJob
<1>24. CASE Finish
  <2>1. \A x \in Ids : x # cur => job'[x] = job[x]
    BY <1>24, <1>a, SetStatusEffect DEF Finish, Status
  <2>. QED
    BY <1>24, <1>a, <2>1, SameQueue DEF Finish, OnlyJob
<1>25. CASE SetupFails
  <2>1. job'[cur].status = "failed" /\ \A x \in Ids : x # cur => job'[x] = job[x]
    BY <1>25, <1>a, SetCurEffect DEF SetupFails
  <2>. QED
    BY <1>25, <1>a, <2>1, SameQueue DEF SetupFails, OnlyJob
<1>26. CASE SeeCancelled
  <2>1. job'[cur].status = "failed" /\ \A x \in Ids : x # cur => job'[x] = job[x]
    BY <1>26, <1>a, SetCurEffect DEF SeeCancelled
  <2>. QED
    BY <1>26, <1>a, <2>1, SameQueue DEF SeeCancelled, OnlyJob
<1>27. CASE Panic
  BY <1>27, <1>a, SameQueue DEF Panic, UnregisterCancel
<1>43. CASE Recover
  <2>1. job'[cur].status = "failed" /\ \A x \in Ids : x # cur => job'[x] = job[x]
    BY <1>43, <1>a, SetCurEffect DEF Recover
  <2>. QED
    BY <1>43, <1>a, <2>1, SameQueue DEF Recover, OnlyJob
<1>28. CASE RemoveFinished
  <2>1. QueueTypeOK /\ cur \in Ids
    BY <1>28, <1>a DEF RemoveFinished, IndInv, TypeOK
  <2>2. CASE InQueue(cur)
    <3>1. NoDuplicateJobs' /\ \A x \in Ids : InQueue(x)' => InQueue(x) /\ x # cur
      BY <1>28, <2>1, <2>2, QueueRemoveMembers DEF RemoveFinished
    <3>2. job' = job /\ cur' = cur /\ pc' = "unregister"
      BY <1>28, <2>2 DEF RemoveFinished, QueueRemove
    <3>. QED
      BY <1>a, <2>1, <3>1, <3>2
  <2>3. CASE ~InQueue(cur)
    BY <1>28, <1>a, <2>3, SameQueue DEF RemoveFinished, queueVars
  <2>. QED
    BY <2>2, <2>3
<1>29. CASE Die
  <2>1. Len(jobs') = 0
    BY <1>29 DEF Die, QueueLost
  <2>2. NoDuplicateJobs' /\ \A x : ~InQueue(x)'
    BY <2>1 DEF NoDuplicateJobs, InQueue
  <2>. QED
    BY <1>29, <2>2 DEF Die
<1>30. ASSUME NEW id \in Ids, RestoreJob(id)
      PROVE  NoDuplicateJobs' /\ NoJobWhenIdle' /\ OthersRest' /\ LeftAtRest'
  <2>1. QueueTypeOK /\ toRestore[id] \in Job
    BY <1>30 DEF RestoreJob, IndInv, TypeOK, JobRecord
  <2>2. CASE QueueAdd(id, toRestore[id])
    <3>1. /\ NoDuplicateJobs'
          /\ \A x \in Ids : InQueue(x)' <=> InQueue(x) \/ x = id
          /\ job'[id].status = "queued"
          /\ \A x \in Ids : x # id => job'[x] = job[x]
      BY <2>1, <2>2, QueueAddMembers
    <3>. QED
      BY <1>30, <1>a, <3>1 DEF RestoreJob
  <2>3. CASE UNCHANGED queueVars
    BY <1>30, <1>a, <2>3, SameQueue DEF RestoreJob, queueVars
  <2>. QED
    BY <1>30, <2>2, <2>3 DEF RestoreJob
<1>31. ASSUME NEW id \in Ids, ApiAdd(id)
      PROVE  NoDuplicateJobs' /\ NoJobWhenIdle' /\ OthersRest' /\ LeftAtRest'
  <2>1. PICK p \in Priorities : QueueAdd(id, NewJob(p))
    BY <1>31 DEF ApiAdd
  <2>2. QueueTypeOK /\ NewJob(p) \in Job
    BY NewJobType DEF IndInv, TypeOK
  <2>3. /\ NoDuplicateJobs'
        /\ \A x \in Ids : InQueue(x)' <=> InQueue(x) \/ x = id
        /\ job'[id].status = "queued"
        /\ \A x \in Ids : x # id => job'[x] = job[x]
    BY <2>1, <2>2, QueueAddMembers
  <2>. QED
    BY <1>31, <1>a, <2>3 DEF ApiAdd, engineVars
<1>32. ASSUME NEW id \in Ids, SourceAdd(id)
      PROVE  NoDuplicateJobs' /\ NoJobWhenIdle' /\ OthersRest' /\ LeftAtRest'
  <2>1. PICK p \in Priorities : QueueAdd(id, NewJob(p))
    BY <1>32 DEF SourceAdd
  <2>2. QueueTypeOK /\ NewJob(p) \in Job
    BY NewJobType DEF IndInv, TypeOK
  <2>3. /\ NoDuplicateJobs'
        /\ \A x \in Ids : InQueue(x)' <=> InQueue(x) \/ x = id
        /\ job'[id].status = "queued"
        /\ \A x \in Ids : x # id => job'[x] = job[x]
    BY <2>1, <2>2, QueueAddMembers
  <2>. QED
    BY <1>32, <1>a, <2>3 DEF SourceAdd, engineVars
<1>33. ASSUME NEW id \in Ids, ApiRemove(id)
      PROVE  NoDuplicateJobs' /\ NoJobWhenIdle' /\ OthersRest' /\ LeftAtRest'
  <2>1. NoDuplicateJobs' /\ \A x \in Ids : InQueue(x)' => InQueue(x) /\ x # id
    BY <1>33, QueueRemoveMembers DEF ApiRemove, IndInv, TypeOK
  <2>. QED
    BY <1>33, <1>a, <2>1 DEF ApiRemove, QueueRemove, engineVars
<1>34. ASSUME NEW id \in Ids, ApiPause(id)
      PROVE  NoDuplicateJobs' /\ NoJobWhenIdle' /\ OthersRest' /\ LeftAtRest'
  <2>1. job'[id].status = "paused" /\ \A x \in Ids : x # id => job'[x] = job[x]
    BY <1>34, <1>a, SetStatusEffect DEF ApiPause, PauseJob, Status
  <2>. QED
    BY <1>34, <1>a, <2>1, SameQueue DEF ApiPause, PauseJob, OnlyQueue, engineVars
<1>35. ASSUME NEW id \in Ids, ApiResume(id)
      PROVE  NoDuplicateJobs' /\ NoJobWhenIdle' /\ OthersRest' /\ LeftAtRest'
  <2>1. job'[id].status = "queued" /\ \A x \in Ids : x # id => job'[x] = job[x]
    BY <1>35, <1>a, SetStatusEffect DEF ApiResume, ResumeJob, Status
  <2>. QED
    BY <1>35, <1>a, <2>1, SameQueue DEF ApiResume, ResumeJob, OnlyQueue, engineVars
<1>36. ASSUME NEW id \in Ids, ApiBuildRecord(id)
      PROVE  NoDuplicateJobs' /\ NoJobWhenIdle' /\ OthersRest' /\ LeftAtRest'
  BY <1>36, <1>a, SameQueue DEF ApiBuildRecord, queueVars, engineVars
<1>37. ASSUME NEW id \in Ids, ApiSaveRecord(id)
      PROVE  NoDuplicateJobs' /\ NoJobWhenIdle' /\ OthersRest' /\ LeftAtRest'
  BY <1>37, <1>a, SameQueue DEF ApiSaveRecord, queueVars, engineVars
<1>38. ASSUME NEW id \in Ids, ApiDeleteRecord(id)
      PROVE  NoDuplicateJobs' /\ NoJobWhenIdle' /\ OthersRest' /\ LeftAtRest'
  BY <1>38, <1>a, SameQueue DEF ApiDeleteRecord, queueVars, engineVars
<1>39. ASSUME NEW id \in Ids, ApiDeleteHistory(id)
      PROVE  NoDuplicateJobs' /\ NoJobWhenIdle' /\ OthersRest' /\ LeftAtRest'
  BY <1>39, <1>a, SameQueue DEF ApiDeleteHistory, queueVars, engineVars
<1>40. ASSUME NEW paused \in BOOLEAN, ApiPauseQueue(paused)
      PROVE  NoDuplicateJobs' /\ NoJobWhenIdle' /\ OthersRest' /\ LeftAtRest'
  BY <1>40, <1>a, SameQueue DEF ApiPauseQueue, PauseQueue, OnlyQueue, engineVars
<1>41. ASSUME NEW written \in 0..1, FileReturns(written)
      PROVE  NoDuplicateJobs' /\ NoJobWhenIdle' /\ OthersRest' /\ LeftAtRest'
  <2>1. cur \in Ids
    BY <1>41, <1>a DEF FileReturns
  <2>2. \A x \in Ids : job'[x].status = job[x].status
    BY <1>41, <1>a, <2>1, FileReturnsEffect
  <2>. QED
    BY <1>41, <1>a, <2>2, SameQueue DEF FileReturns, OnlyJob
<1>42. CASE UNCHANGED vars
  BY <1>42, <1>a, SameQueue DEF vars, queueVars, engineVars
<1>. QED
  BY <1>1, <1>2, <1>3, <1>4, <1>5, <1>6, <1>7, <1>8, <1>9, <1>10, <1>11,
     <1>12, <1>13, <1>14, <1>15, <1>16, <1>17, <1>18, <1>19, <1>20, <1>21,
     <1>22, <1>23, <1>24, <1>25, <1>26, <1>27, <1>28, <1>29, <1>30, <1>31,
     <1>32, <1>33, <1>34, <1>35, <1>36, <1>37, <1>38, <1>39, <1>40, <1>41,
     <1>42, <1>43 DEF Next, EngineStep, FetchStep, ApiStep

\* No ID is ever twice in the queue, restored, added or both.
THEOREM NoDuplicates == Spec => []NoDuplicateJobs
<1>1. QueueInv => NoDuplicateJobs
  BY DEF QueueInv
<1>. QED
  BY <1>1, InitQueueInv, StepQueueInv, PTL DEF Spec

\* A queued job that is shown as downloading, post-processing or completed
\* is the one the engine has in its hands: none is ever left behind.
THEOREM ActiveJobIsCurrent == Spec => []ActiveIsCurrent
<1>1. QueueInv => ActiveIsCurrent
  BY DEF QueueInv, OthersRest, AtRest, ActiveIsCurrent
<1>. QED
  BY <1>1, InitQueueInv, StepQueueInv, PTL DEF Spec

-----------------------------------------------------------------------------
(* Errors and outcomes.                                                    *)

ErrorMatches(r) ==
    /\ r.status = "completed" => ~r.err
    /\ r.status = "failed" => r.err

\* What moveToHistory copies is right for every job at every moment.
ErrorInv ==
    /\ \A id \in Ids : ErrorMatches(job[id])
    /\ HistoryErrorMatchesStatus

LEMMA InitErrorInv == Init => ErrorInv
BY PrioritiesAreNumbers
DEF Init, QueueInit, StoreInit, FreshJobs, NewJob, ErrorInv, ErrorMatches,
    HistoryErrorMatchesStatus, InHistory

\* A status other than completed and failed goes with any error.
LEMMA MildStatus ==
    ASSUME job \in [Ids -> Job], \A x \in Ids : ErrorMatches(job[x]),
           NEW id \in Ids, NEW s \in Status \ {"completed", "failed"},
           SetStatus(id, s)
    PROVE  \A x \in Ids : ErrorMatches(job'[x])
BY SetStatusEffect DEF ErrorMatches

LEMMA StepErrorInv == QueueInv /\ ErrorInv /\ [Next]_vars => ErrorInv'
<1>. SUFFICES ASSUME QueueInv, ErrorInv, [Next]_vars PROVE ErrorInv'
  OBVIOUS
<1>a. /\ QueueTypeOK /\ StoreTypeOK
      /\ job \in [Ids -> Job]
      /\ pc \in Busy => cur \in Ids
      /\ NoDuplicateJobs
  BY DEF QueueInv, IndInv, TypeOK, QueueTypeOK, EngineHasJob
<1>b. \A id \in Ids : ErrorMatches(job[id])
  BY DEF ErrorInv
<1>c. history' = history =>
         (HistoryErrorMatchesStatus' <=> HistoryErrorMatchesStatus)
  BY DEF HistoryErrorMatchesStatus, InHistory
<1>d. ASSUME \A id \in Ids : ErrorMatches(job'[id]), history' = history
      PROVE  ErrorInv'
  BY <1>c, <1>d DEF ErrorInv, ErrorMatches
\* An added job is queued, with whatever error its record has.
<1>e. ASSUME NEW id \in Ids, NEW j \in Job, QueueAdd(id, j), history' = history
      PROVE  ErrorInv'
  <2>1. /\ job'[id].status = "queued"
        /\ \A x \in Ids : x # id => job'[x] = job[x]
    BY <1>a, <1>e, QueueAddMembers
  <2>. QED
    BY <1>b, <1>d, <1>e, <2>1 DEF ErrorMatches
<1>1. CASE UNCHANGED <<job, history>>
  BY <1>1, <1>b, <1>d
<1>2. CASE MarkDownloading \/ StartPostProcessing
  <2>1. cur \in Ids /\ history' = history
    BY <1>2, <1>a DEF MarkDownloading, StartPostProcessing, Goto, Busy, PC, dbVars
  <2>. QED
    BY <1>2, <1>a, <1>b, <1>d, <2>1, MildStatus
    DEF MarkDownloading, StartPostProcessing, Status
<1>3. CASE Finish
  <2>1. cur \in Ids /\ history' = history
    BY <1>3, <1>a DEF Finish, Goto, Busy, PC, dbVars
  <2>2. /\ job'[cur].status = IF job[cur].err THEN "failed" ELSE "completed"
        /\ job'[cur].err = job[cur].err
        /\ \A x \in Ids : x # cur => job'[x] = job[x]
    BY <1>3, <1>a, <2>1, SetStatusEffect DEF Finish, Status
  <2>. QED
    BY <1>b, <1>d, <2>1, <2>2 DEF ErrorMatches
<1>4. CASE SetupFails \/ SeeCancelled \/ Recover
  <2>1. cur \in Ids /\ history' = history
    BY <1>4, <1>a DEF SetupFails, SeeCancelled, Recover, Goto, Busy, PC, dbVars
  <2>2. /\ job'[cur].status = "failed"
        /\ job'[cur].err
        /\ \A x \in Ids : x # cur => job'[x] = job[x]
    BY <1>4, <1>a, <2>1, SetCurEffect DEF SetupFails, SeeCancelled, Recover
  <2>. QED
    BY <1>b, <1>d, <2>1, <2>2 DEF ErrorMatches
<1>5. ASSUME NEW written \in 0..1, FileReturns(written) PROVE ErrorInv'
  <2>1. cur \in Ids /\ history' = history
    BY <1>5, <1>a DEF FileReturns, Goto, Busy, PC, dbVars
  <2>. QED
    BY <1>5, <1>a, <1>b, <1>d, <2>1, FileReturnsEffect DEF ErrorMatches
<1>6. CASE Die
  <2>1. \A id \in Ids : job'[id].status = "queued"
    BY <1>6 DEF Die, QueueLost, FreshJobs, NewJob
  <2>2. history' = history
    BY <1>6 DEF Die, dbVars
  <2>. QED
    BY <1>d, <2>1, <2>2 DEF ErrorMatches
<1>7. CASE Archive
  <2>1. cur \in Ids /\ job' = job
    BY <1>7, <1>a DEF Archive, Goto, Busy, PC, queueVars
  <2>. DEFINE entry == [status |-> job[cur].status, err |-> job[cur].err]
  <2>2. history' = [history EXCEPT ![cur] = entry]
    BY <1>7 DEF Archive, SaveHistory
  <2>3. entry.status = job[cur].status /\ entry.err = job[cur].err
    OBVIOUS
  <2>. HIDE DEF entry
  <2>4. HistoryErrorMatchesStatus'
    BY <1>a, <1>b, <2>1, <2>2, <2>3
    DEF ErrorInv, ErrorMatches, HistoryErrorMatchesStatus, InHistory, StoreTypeOK
  <2>. QED
    BY <1>b, <2>1, <2>4 DEF ErrorInv, ErrorMatches
<1>8. ASSUME NEW id \in Ids, RestoreJob(id) PROVE ErrorInv'
  <2>1. toRestore[id] \in Job /\ history' = history
    BY <1>8 DEF RestoreJob, QueueInv, IndInv, TypeOK, JobRecord, dbVars
  <2>2. CASE QueueAdd(id, toRestore[id])
    BY <1>e, <2>1, <2>2
  <2>3. CASE UNCHANGED queueVars
    BY <1>1, <2>1, <2>3 DEF queueVars
  <2>. QED
    BY <1>8, <2>2, <2>3 DEF RestoreJob
<1>9. ASSUME NEW id \in Ids, ApiAdd(id) \/ SourceAdd(id) PROVE ErrorInv'
  BY <1>9, <1>e, NewJobType DEF ApiAdd, SourceAdd, dbVars
<1>10. ASSUME NEW id \in Ids, ApiPause(id) \/ ApiResume(id) PROVE ErrorInv'
  BY <1>10, <1>a, <1>b, <1>d, MildStatus
  DEF ApiPause, ApiResume, PauseJob, ResumeJob, OnlyQueue, dbVars, Status
<1>11. ASSUME NEW id \in Ids, ApiDeleteHistory(id) PROVE ErrorInv'
  BY <1>11, <1>a, <1>b
  DEF ApiDeleteHistory, DeleteHistory, queueVars, ErrorInv, ErrorMatches,
      HistoryErrorMatchesStatus, InHistory, StoreTypeOK
<1>12. CASE ApiClearHistory
  BY <1>12, <1>b
  DEF ApiClearHistory, ClearHistory, queueVars, ErrorInv, ErrorMatches,
      HistoryErrorMatchesStatus, InHistory
\* Every other step leaves the jobs and the history alone.
<1>13. \/ UNCHANGED <<job, history>>
       \/ MarkDownloading \/ StartPostProcessing \/ Finish
       \/ SetupFails \/ SeeCancelled \/ Recover \/ Die \/ Archive
       \/ ApiClearHistory
       \/ \E written \in 0..1 : FileReturns(written)
       \/ \E id \in Ids :
             \/ RestoreJob(id) \/ ApiAdd(id) \/ SourceAdd(id)
             \/ ApiPause(id) \/ ApiResume(id) \/ ApiDeleteHistory(id)
  BY DEF Next, EngineStep, FetchStep, ApiStep, vars, queueVars, dbVars,
         ListStoredJobs, EnterLoop, PickJob, StopEngine, Register,
         RegisterCancel, PersistStart, PersistProgress, PersistPaused,
         PersistPostProcessing, Persist, SaveJob, SetupSucceeds, SeePaused,
         StartFile, FileFails, SkipPostProcessing, FinishPostProcessing,
         ForgetRecord, DeleteJob, RemoveFinished, QueueRemove, Unregister,
         UnregisterCancel, ApiBuildRecord, ApiSaveRecord, ApiRemove,
         ApiDeleteRecord, ApiPauseQueue, PauseQueue, OnlyQueue, Panic, Boot,
         Terminate
<1>. QED
  BY <1>1, <1>2, <1>3, <1>4, <1>5, <1>6, <1>7, <1>8, <1>9, <1>10, <1>11,
     <1>12, <1>13

\* The history never shows an error beside "completed", nor "failed" without
\* one, however users pause and resume the job while the engine ends it.
THEOREM HistoryIsConsistent == Spec => []HistoryErrorMatchesStatus
<1>1. ErrorInv => HistoryErrorMatchesStatus
  BY DEF ErrorInv
<1>. QED
  BY <1>1, InitQueueInv, StepQueueInv, InitErrorInv, StepErrorInv, PTL DEF Spec

-----------------------------------------------------------------------------
(* Cancellation.                                                           *)

\* Every ID the process or the database knows was returned by GenerateID,
\* which never returns it again: the queue, the engine, the requests in
\* flight, the records and their snapshot have no other.
IsIssued ==
    /\ adding \subseteq issued
    /\ cur \in Ids => cur \in issued
    /\ \A id \in Ids :
          \/ InQueue(id)
          \/ storeJobs[id] # None
          \/ toRestore[id] # None
          \/ built[id] # None
          => id \in issued

LEMMA InitIsIssued == Init => IsIssued
<1>. SUFFICES ASSUME Init PROVE IsIssued
  OBVIOUS
<1>1. Len(jobs) = 0
  BY DEF Init, QueueInit
<1>. QED
  BY <1>1, NoneIsNoId DEF Init, StoreInit, NoRecords, IsIssued, InQueue

LEMMA StepIsIssued == QueueInv /\ IsIssued /\ [Next]_vars => IsIssued'
<1>. SUFFICES ASSUME QueueInv, IsIssued, [Next]_vars PROVE IsIssued'
  OBVIOUS
<1>a. /\ QueueTypeOK
      /\ NoDuplicateJobs
      /\ storeJobs \in [Ids -> JobRecord \cup {None}]
      /\ toRestore \in [Ids -> JobRecord \cup {None}]
      /\ built \in [Ids -> JobRecord \cup {None}]
      /\ job \in [Ids -> Job]
      /\ pc \in Busy => cur \in Ids
  BY DEF QueueInv, IndInv, TypeOK, QueueTypeOK, StoreTypeOK, EngineHasJob
<1>. USE DEF IsIssued
<1>1. CASE UNCHANGED <<jobs, storeJobs, toRestore, built, adding, cur, issued>>
  BY <1>1, SameQueue
<1>2. CASE PersistStart \/ PersistProgress \/ PersistPaused \/ PersistPostProcessing
  BY <1>2, <1>a, SameQueue
  DEF PersistStart, PersistProgress, PersistPaused, PersistPostProcessing,
      Persist, SaveJob, queueVars, apiVars, ghostVars, Goto, Busy, PC
<1>3. CASE ForgetRecord
  BY <1>3, <1>a, SameQueue
  DEF ForgetRecord, DeleteJob, queueVars, apiVars, ghostVars
<1>4. CASE ListStoredJobs
  BY <1>4, <1>a, SameQueue
  DEF ListStoredJobs, queueVars, dbVars, apiVars, ghostVars
<1>5. CASE PickJob
  <2>1. cur' = NextJob /\ InQueue(NextJob) /\ NextJob \in Ids
    BY <1>5, <1>a, NextIsInQueue DEF PickJob
  <2>. QED
    BY <1>5, <1>a, <2>1, SameQueue
    DEF PickJob, queueVars, dbVars, apiVars, ghostVars
<1>6. CASE Unregister
  BY <1>6, <1>a, SameQueue, NoneIsNoId
  DEF Unregister, UnregisterCancel, dbVars, apiVars, ghostVars
<1>7. CASE RemoveFinished
  <2>1. cur \in Ids
    BY <1>7, <1>a DEF RemoveFinished, Goto, Busy, PC
  <2>2. \A x \in Ids : InQueue(x)' => InQueue(x)
    BY <1>7, <1>a, <2>1, QueueRemoveMembers, SameQueue DEF RemoveFinished, queueVars
  <2>. QED
    BY <1>7, <1>a, <2>2 DEF RemoveFinished, dbVars, apiVars, ghostVars
<1>8. CASE Die
  <2>1. \A x : ~InQueue(x)'
    <3>1. Len(jobs') = 0
      BY <1>8 DEF Die, QueueLost
    <3>. QED
      BY <3>1 DEF InQueue
  <2>. QED
    BY <1>8, <1>a, <2>1, NoneIsNoId DEF Die, NoRecords, dbVars, ghostVars
<1>9. ASSUME NEW id \in Ids, RestoreJob(id) PROVE IsIssued'
  <2>1. \A x \in Ids : InQueue(x)' => InQueue(x) \/ x = id
    BY <1>9, <1>a, QueueAddMembers, SameQueue, NoneIsNoRecord
    DEF RestoreJob, queueVars, JobRecord
  <2>2. /\ id \in issued
        /\ \A x \in Ids : toRestore'[x] # None => toRestore[x] # None
    BY <1>9, <1>a DEF RestoreJob
  <2>. QED
    BY <1>9, <1>a, <2>1, <2>2 DEF RestoreJob, dbVars, apiVars, ghostVars
<1>10. ASSUME NEW id \in Ids, ApiAdd(id) \/ SourceAdd(id) PROVE IsIssued'
  <2>1. \A x \in Ids : InQueue(x)' => InQueue(x) \/ x = id
    BY <1>10, <1>a, QueueAddMembers, NewJobType DEF ApiAdd, SourceAdd
  <2>2. /\ issued' = issued \cup {id}
        /\ adding' \subseteq adding \cup {id}
        /\ UNCHANGED <<storeJobs, toRestore, built, cur>>
    BY <1>10 DEF ApiAdd, SourceAdd, engineVars, dbVars, apiVars
  <2>. QED
    BY <2>1, <2>2
<1>11. ASSUME NEW id \in Ids, ApiBuildRecord(id) PROVE IsIssued'
  <2>1. \A x \in Ids : built'[x] # None => built[x] # None \/ x = id
    BY <1>11, <1>a DEF ApiBuildRecord
  <2>2. /\ id \in adding
        /\ adding' \subseteq adding
        /\ UNCHANGED <<jobs, storeJobs, toRestore, cur, issued>>
    BY <1>11 DEF ApiBuildRecord, queueVars, dbVars, engineVars, ghostVars
  <2>. QED
    BY <2>1, <2>2, SameQueue
<1>12. ASSUME NEW id \in Ids, ApiSaveRecord(id) PROVE IsIssued'
  BY <1>12, <1>a, SameQueue
  DEF ApiSaveRecord, SaveJob, queueVars, engineVars, ghostVars
<1>13. ASSUME NEW id \in Ids, ApiRemove(id) PROVE IsIssued'
  BY <1>13, <1>a, QueueRemoveMembers DEF ApiRemove, dbVars, engineVars
<1>14. ASSUME NEW id \in Ids, ApiDeleteRecord(id) PROVE IsIssued'
  BY <1>14, <1>a, SameQueue
  DEF ApiDeleteRecord, DeleteJob, queueVars, engineVars, ghostVars
<1>15. \/ UNCHANGED <<jobs, storeJobs, toRestore, built, adding, cur, issued>>
       \/ PersistStart \/ PersistProgress \/ PersistPaused
       \/ PersistPostProcessing \/ ForgetRecord \/ ListStoredJobs
       \/ PickJob \/ Unregister \/ RemoveFinished \/ Die
       \/ \E id \in Ids :
             \/ RestoreJob(id) \/ ApiAdd(id) \/ SourceAdd(id)
             \/ ApiBuildRecord(id) \/ ApiSaveRecord(id)
             \/ ApiRemove(id) \/ ApiDeleteRecord(id)
  BY DEF Next, EngineStep, FetchStep, ApiStep, vars, queueVars, dbVars,
         apiVars, engineVars, ghostVars, EnterLoop, StopEngine, Register,
         RegisterCancel, UnregisterCancel, MarkDownloading, OnlyJob, SetupFails, SetupSucceeds,
         SeeCancelled, SeePaused, StartFile, FileReturns, FileFails,
         StartPostProcessing, SkipPostProcessing, FinishPostProcessing,
         Finish, Archive, SaveHistory, Panic, Recover, ApiPause, PauseJob, ApiResume,
         ResumeJob, ApiPauseQueue, PauseQueue, OnlyQueue, ApiDeleteHistory,
         DeleteHistory, ApiClearHistory, ClearHistory, Boot, Terminate
<1>. QED
  BY <1>1, <1>2, <1>3, <1>4, <1>5, <1>6, <1>7, <1>8, <1>9, <1>10, <1>11,
     <1>12, <1>13, <1>14, <1>15

\* The one cancel function that may be registered is that of the job in the
\* engine's hands.  It is there from RegisterCancel on, unless a user removes
\* the job, and a removed job never comes back under the same ID.  A panic
\* takes it away before it fails the job.
CancelInv ==
    /\ cancelFns \subseteq {cur}
    /\ pc \notin Busy \ {"picked"} => cancelFns = {}
    /\ pc = "registered" /\ InQueue(cur) => cur \in cancelFns
    /\ InQueue(cur) /\ job[cur].status = "downloading"
          => cur \in cancelFns \/ pc = "recovering"

LEMMA InitCancelInv == Init => CancelInv
<1>. SUFFICES ASSUME Init PROVE CancelInv
  OBVIOUS
<1>1. Len(jobs) = 0
  BY DEF Init, QueueInit
<1>. QED
  BY <1>1 DEF Init, QueueInit, CancelInv, InQueue

LEMMA StepCancelInv ==
    QueueInv /\ IsIssued /\ CancelInv /\ [Next]_vars => CancelInv'
<1>. SUFFICES ASSUME QueueInv, IsIssued, CancelInv, [Next]_vars PROVE CancelInv'
  OBVIOUS
<1>a. /\ QueueTypeOK
      /\ NoDuplicateJobs
      /\ job \in [Ids -> Job]
      /\ pc \in PC
      /\ pc \in Busy => cur \in Ids
      /\ pc \notin Busy => cur = None
      /\ cur \in Ids \cup {None}
      /\ toRestore \in [Ids -> JobRecord \cup {None}]
  BY DEF QueueInv, IndInv, TypeOK, QueueTypeOK, EngineHasJob, NoJobWhenIdle
<1>. USE DEF CancelInv, Busy, PC, Goto
\* The queue, the jobs and the functions stay, and the engine is where it
\* was, or goes on with its job behind "registered", or is idle before and
\* after.
<1>1. CASE /\ UNCHANGED <<jobs, job, cancelFns, cur>>
           /\ \/ pc' = pc
              \/ /\ pc \in Busy \ {"recovering"}
                 /\ pc' \in Busy \ {"picked", "registered"}
              \/ pc \notin Busy /\ pc' \notin Busy
  BY <1>1, <1>a, SameQueue
<1>2. CASE PickJob
  <2>1. InQueue(NextJob) /\ job[NextJob].status = "queued"
    BY <1>2, <1>a, NextIsInQueue DEF PickJob
  <2>. QED
    BY <1>2, <1>a, <2>1, SameQueue DEF PickJob, queueVars
<1>3. CASE Register
  BY <1>3, <1>a, SameQueue DEF Register, RegisterCancel
<1>4. CASE MarkDownloading
  BY <1>4, <1>a, SameQueue DEF MarkDownloading, OnlyJob
<1>5. CASE StartPostProcessing \/ Finish
  <2>1. cur \in Ids
    BY <1>5, <1>a DEF StartPostProcessing, Finish
  <2>2. job'[cur].status # "downloading"
    BY <1>5, <1>a, <2>1, SetStatusEffect DEF StartPostProcessing, Finish, Status
  <2>. QED
    BY <1>5, <1>a, <2>2, SameQueue DEF StartPostProcessing, Finish, OnlyJob
<1>6. CASE SetupFails \/ SeeCancelled \/ Recover
  <2>1. cur \in Ids
    BY <1>6, <1>a DEF SetupFails, SeeCancelled, Recover
  <2>2. job'[cur].status # "downloading"
    BY <1>6, <1>a, <2>1, SetCurEffect DEF SetupFails, SeeCancelled, Recover
  <2>. QED
    BY <1>6, <1>a, <2>2, SameQueue DEF SetupFails, SeeCancelled, Recover, OnlyJob
<1>17. CASE Panic
  BY <1>17, <1>a, SameQueue DEF Panic, UnregisterCancel
<1>7. ASSUME NEW written \in 0..1, FileReturns(written) PROVE CancelInv'
  <2>1. cur \in Ids
    BY <1>7, <1>a DEF FileReturns
  <2>2. job'[cur].status = job[cur].status
    BY <1>7, <1>a, <2>1, FileReturnsEffect
  <2>. QED
    BY <1>7, <1>a, <2>2, SameQueue DEF FileReturns, OnlyJob
<1>8. CASE RemoveFinished
  <2>1. cur \in Ids
    BY <1>8, <1>a DEF RemoveFinished
  <2>2. CASE InQueue(cur)
    <3>1. ~InQueue(cur)'
      BY <1>8, <1>a, <2>1, <2>2, QueueRemoveMembers DEF RemoveFinished
    <3>. QED
      BY <1>8, <2>2, <3>1 DEF RemoveFinished, QueueRemove
  <2>3. CASE ~InQueue(cur)
    BY <1>8, <1>a, <2>3, SameQueue DEF RemoveFinished, queueVars
  <2>. QED
    BY <2>2, <2>3
<1>9. CASE Unregister
  <2>1. \A x : InQueue(x)' <=> InQueue(x)
    BY <1>9, SameQueue DEF Unregister, UnregisterCancel
  <2>2. ~InQueue(None)
    BY <1>a, NoneIsNoId DEF InQueue, QueueTypeOK
  <2>. QED
    BY <1>9, <2>1, <2>2 DEF Unregister, UnregisterCancel
<1>10. CASE Die
  <2>1. Len(jobs') = 0
    BY <1>10 DEF Die, QueueLost
  <2>2. \A x : ~InQueue(x)'
    BY <2>1 DEF InQueue
  <2>. QED
    BY <1>10, <2>2 DEF Die, QueueLost
\* Nobody is handed an ID that the engine works on.
<1>11. ASSUME NEW id \in Ids, NEW j \in Job, QueueAdd(id, j), id # cur,
              UNCHANGED <<pc, cur>>
       PROVE  CancelInv'
  <2>1. /\ \A x \in Ids : InQueue(x)' <=> InQueue(x) \/ x = id
        /\ \A x \in Ids : x # id => job'[x] = job[x]
    BY <1>11, <1>a, QueueAddMembers
  <2>2. \A x : InQueue(x)' => x \in Ids
    <3>1. jobs' \in Seq(Ids)
      BY <1>11, <1>a, QueueAddType DEF QueueTypeOK
    <3>. QED
      BY <3>1 DEF InQueue
  <2>. QED
    BY <1>11, <1>a, <2>1, <2>2 DEF QueueAdd
<1>12. ASSUME NEW id \in Ids, RestoreJob(id) PROVE CancelInv'
  <2>1. cur = None /\ id # cur /\ toRestore[id] \in Job
    BY <1>12, <1>a, NoneIsNoId DEF RestoreJob, JobRecord
  <2>2. CASE QueueAdd(id, toRestore[id])
    BY <1>11, <1>12, <2>1, <2>2 DEF RestoreJob
  <2>3. CASE UNCHANGED queueVars
    BY <1>1, <1>12, <2>3 DEF RestoreJob, queueVars
  <2>. QED
    BY <1>12, <2>2, <2>3 DEF RestoreJob
<1>13. ASSUME NEW id \in Ids, ApiAdd(id) \/ SourceAdd(id) PROVE CancelInv'
  <2>1. id # cur
    BY <1>13 DEF ApiAdd, SourceAdd, IsIssued
  <2>. QED
    BY <1>11, <1>13, <2>1, NewJobType DEF ApiAdd, SourceAdd, engineVars
<1>14. ASSUME NEW id \in Ids, ApiRemove(id) PROVE CancelInv'
  <2>1. \A x \in Ids : InQueue(x)' <=> InQueue(x) /\ x # id
    BY <1>14, <1>a, QueueRemoveMembers DEF ApiRemove
  <2>2. \A x : InQueue(x)' => x \in Ids
    <3>1. jobs' \in Seq(Ids)
      BY <1>14, <1>a, QueueRemoveType DEF QueueTypeOK, ApiRemove
    <3>. QED
      BY <3>1 DEF InQueue
  <2>. QED
    BY <1>14, <1>a, <2>1, <2>2 DEF ApiRemove, QueueRemove, engineVars
<1>15. ASSUME NEW id \in Ids, ApiPause(id) \/ ApiResume(id) PROVE CancelInv'
  <2>1. /\ job'[id].status # "downloading"
        /\ \A x \in Ids : x # id => job'[x] = job[x]
    BY <1>15, <1>a, SetStatusEffect
    DEF ApiPause, ApiResume, PauseJob, ResumeJob, Status
  <2>2. /\ \A x : InQueue(x)' <=> InQueue(x)
        /\ UNCHANGED <<cancelFns, pc, cur>>
    BY <1>15, SameQueue
    DEF ApiPause, ApiResume, PauseJob, ResumeJob, OnlyQueue, engineVars
  <2>3. ~InQueue(None)
    BY <1>a, NoneIsNoId DEF InQueue, QueueTypeOK
  <2>. QED
    BY <1>a, <2>1, <2>2, <2>3
\* Every other step is one of <1>1.
<1>16. \/ /\ UNCHANGED <<jobs, job, cancelFns, cur>>
          /\ \/ pc' = pc
             \/ /\ pc \in Busy \ {"recovering"}
                /\ pc' \in Busy \ {"picked", "registered"}
             \/ pc \notin Busy /\ pc' \notin Busy
       \/ PickJob \/ Register \/ MarkDownloading
       \/ StartPostProcessing \/ Finish
       \/ SetupFails \/ SeeCancelled \/ Panic \/ Recover
       \/ RemoveFinished \/ Unregister \/ Die
       \/ \E written \in 0..1 : FileReturns(written)
       \/ \E id \in Ids :
             \/ RestoreJob(id) \/ ApiAdd(id) \/ SourceAdd(id)
             \/ ApiRemove(id) \/ ApiPause(id) \/ ApiResume(id)
  BY DEF Next, EngineStep, FetchStep, ApiStep, vars, queueVars, dbVars,
         apiVars, engineVars, ghostVars, ListStoredJobs, EnterLoop,
         StopEngine, PersistStart, PersistProgress, PersistPaused,
         PersistPostProcessing, Persist, SetupSucceeds, SeePaused, StartFile,
         FileFails, SkipPostProcessing, FinishPostProcessing, Archive,
         ForgetRecord, ApiBuildRecord, ApiSaveRecord, ApiDeleteRecord,
         ApiPauseQueue, PauseQueue, OnlyQueue, ApiDeleteHistory,
         ApiClearHistory, Boot, Terminate
<1>. QED
  BY <1>1, <1>2, <1>3, <1>4, <1>5, <1>6, <1>7, <1>8, <1>9, <1>10, <1>12,
     <1>13, <1>14, <1>15, <1>16, <1>17

\* Remove can cancel every job the queue shows as downloading, but for one
\* whose panic the engine is recovering from, and the manager never keeps the
\* function of any other job.
THEOREM DownloadsCanBeCancelled == Spec => []DownloadingIsCancellable
<1>1. QueueInv /\ CancelInv => DownloadingIsCancellable
  BY DEF QueueInv, OthersRest, AtRest, CancelInv, DownloadingIsCancellable
<1>. QED
  BY <1>1, InitQueueInv, StepQueueInv, InitIsIssued, StepIsIssued,
     InitCancelInv, StepCancelInv, PTL DEF Spec

-----------------------------------------------------------------------------
(* The ledger.  JobLifecycle implements JobLedger: a saved job is never    *)
(* lost, whatever is interleaved with it and wherever the process dies.    *)

\* A step that changes neither the database nor what users have deleted is
\* a stutter of the ledger.
LEMMA LedgerStutter ==
    UNCHANGED <<dbVars, dropped>> => UNCHANGED DurablePlace
BY DEF dbVars, DurablePlace

\* Saving the record of a job the database does not know accepts it; saving
\* that of any other job is a stutter, a late save after the job has gone
\* to the history included.
LEMMA SaveJobAccepts ==
    ASSUME TypeOK, NEW id \in Ids, NEW rec, rec # None, SaveJob(id, rec),
           dropped' = dropped
    PROVE  Ledger!Accept(id) \/ UNCHANGED DurablePlace
<1>1. \A x \in Ids : x # id => DurablePlace'[x] = DurablePlace[x]
  BY DEF TypeOK, StoreTypeOK, SaveJob, DurablePlace
<1>2. CASE DurablePlace[id] = "absent"
  <2>1. DurablePlace'[id] = "pending"
    BY <1>2 DEF TypeOK, StoreTypeOK, SaveJob, DurablePlace
  <2>2. DurablePlace' = [DurablePlace EXCEPT ![id] = "pending"]
    BY <1>1, <2>1 DEF DurablePlace
  <2>. QED
    BY <1>2, <2>2 DEF Ledger!Accept
<1>3. CASE DurablePlace[id] # "absent"
  <2>1. DurablePlace'[id] = DurablePlace[id]
    BY <1>3 DEF TypeOK, StoreTypeOK, SaveJob, DurablePlace
  <2>. QED
    BY <1>1, <2>1 DEF DurablePlace
<1>. QED
  BY <1>2, <1>3

\* Users deleting the jobs of S, with the part of the database that goes.
LEMMA DeletionReleases ==
    ASSUME TypeOK, NEW S \in SUBSET Ids, dropped' = dropped \cup S,
           storeJobs' = storeJobs,
           \A id \in Ids \ S : history'[id] = history[id]
    PROVE  Ledger!Release(S)
BY DEF TypeOK, DurablePlace, Ledger!Release

\* Every step of the system is one the ledger allows.
LEMMA StepRefinesLedger ==
    IndInv /\ [Next]_vars => [Ledger!LedgerNext]_DurablePlace
<1>. SUFFICES ASSUME IndInv, [Next]_vars
              PROVE  Ledger!LedgerNext \/ UNCHANGED DurablePlace
  OBVIOUS
<1>. USE DEF IndInv, EngineHasJob, Busy, PC, Goto
<1>1. CASE UNCHANGED <<dbVars, dropped>>
  BY <1>1, LedgerStutter
<1>2. CASE PersistStart \/ PersistProgress \/ PersistPaused
              \/ PersistPostProcessing
  <2>1. cur \in Ids /\ job[cur] # None
    BY <1>2, NoneIsNoRecord
    DEF TypeOK, QueueTypeOK, JobRecord, PersistStart, PersistProgress,
        PersistPaused, PersistPostProcessing, Persist
  <2>2. SaveJob(cur, job[cur]) /\ dropped' = dropped
    BY <1>2
    DEF PersistStart, PersistProgress, PersistPaused, PersistPostProcessing,
        Persist, ghostVars
  <2>. QED
    BY <2>1, <2>2, SaveJobAccepts DEF Ledger!LedgerNext
<1>3. CASE Archive
  <2>1. cur \in Ids /\ dropped' = dropped
    BY <1>3 DEF Archive, ghostVars
  <2>2. history'[cur] # None
    BY <1>3, <2>1, NoneIsNoRecord
    DEF Archive, SaveHistory, TypeOK, StoreTypeOK, QueueTypeOK, Job, HistoryEntry
  <2>3. \A x \in Ids : x # cur => DurablePlace'[x] = DurablePlace[x]
    BY <1>3, <2>1
    DEF Archive, SaveHistory, TypeOK, StoreTypeOK, DurablePlace
  <2>4. DurablePlace[cur] # "absent"
    BY <1>3, <2>1 DEF Archive, RecordKept, DurablePlace
  <2>5. CASE DurablePlace[cur] = "pending"
    <3>1. DurablePlace'[cur] = "finished"
      BY <2>1, <2>2, <2>5 DEF DurablePlace
    <3>2. DurablePlace' = [DurablePlace EXCEPT ![cur] = "finished"]
      BY <2>3, <3>1 DEF DurablePlace
    <3>. QED
      BY <2>1, <2>5, <3>2 DEF Ledger!LedgerNext, Ledger!Finish
  <2>6. CASE DurablePlace[cur] # "pending"
    <3>1. DurablePlace'[cur] = DurablePlace[cur]
      BY <2>1, <2>2, <2>4, <2>6 DEF DurablePlace
    <3>. QED
      BY <2>3, <3>1 DEF DurablePlace
  <2>. QED
    BY <2>5, <2>6
<1>4. CASE ForgetRecord
  <2>1. cur \in Ids /\ dropped' = dropped /\ history' = history
    BY <1>4 DEF ForgetRecord, DeleteJob, ghostVars
  <2>2. \A x \in Ids : x # cur => storeJobs'[x] = storeJobs[x]
    BY <1>4 DEF ForgetRecord, DeleteJob, TypeOK, StoreTypeOK
  <2>3. history[cur] # None \/ cur \in dropped
    BY <1>4 DEF ForgetRecord, ArchivedFirst
  <2>. QED
    BY <2>1, <2>2, <2>3 DEF DurablePlace
<1>5. ASSUME NEW id \in Ids, ApiSaveRecord(id)
      PROVE  Ledger!LedgerNext \/ UNCHANGED DurablePlace
  BY <1>5, SaveJobAccepts DEF ApiSaveRecord, ghostVars, Ledger!LedgerNext
<1>6. ASSUME NEW id \in Ids, ApiDeleteRecord(id)
      PROVE  Ledger!LedgerNext \/ UNCHANGED DurablePlace
  <2>1. id \in dropped /\ dropped' = dropped /\ history' = history
    BY <1>6 DEF ApiDeleteRecord, DeleteJob, ghostVars
  <2>2. \A x \in Ids : x # id => storeJobs'[x] = storeJobs[x]
    BY <1>6 DEF ApiDeleteRecord, DeleteJob, TypeOK, StoreTypeOK
  <2>. QED
    BY <2>1, <2>2 DEF DurablePlace
<1>7. ASSUME NEW id \in Ids, ApiRemove(id)
      PROVE  Ledger!LedgerNext \/ UNCHANGED DurablePlace
  <2>1. Ledger!Release({id})
    BY <1>7, DeletionReleases DEF ApiRemove, dbVars
  <2>. QED
    BY <2>1 DEF Ledger!LedgerNext
<1>8. ASSUME NEW id \in Ids, ApiDeleteHistory(id)
      PROVE  Ledger!LedgerNext \/ UNCHANGED DurablePlace
  <2>1. \A x \in Ids \ {id} : history'[x] = history[x]
    BY <1>8 DEF ApiDeleteHistory, DeleteHistory, TypeOK, StoreTypeOK
  <2>2. CASE id \in InHistory
    <3>1. Ledger!Release({id})
      BY <1>8, <2>1, <2>2, DeletionReleases
      DEF ApiDeleteHistory, DeleteHistory
    <3>. QED
      BY <3>1 DEF Ledger!LedgerNext
  <2>3. CASE id \notin InHistory
    <3>1. history[id] = None /\ history'[id] = None
      BY <1>8, <2>3
      DEF InHistory, ApiDeleteHistory, DeleteHistory, TypeOK, StoreTypeOK
    <3>2. dropped' = dropped /\ storeJobs' = storeJobs
      BY <1>8, <2>3 DEF ApiDeleteHistory, DeleteHistory
    <3>. QED
      BY <2>1, <3>1, <3>2 DEF DurablePlace
  <2>. QED
    BY <2>2, <2>3
<1>9. CASE ApiClearHistory
  <2>1. \A x \in Ids \ InHistory : history'[x] = history[x]
    BY <1>9 DEF ApiClearHistory, ClearHistory, InHistory
  <2>2. InHistory \in SUBSET Ids
    BY DEF InHistory
  <2>3. Ledger!Release(InHistory)
    BY <1>9, <2>1, <2>2, DeletionReleases DEF ApiClearHistory, ClearHistory
  <2>. QED
    BY <2>2, <2>3 DEF Ledger!LedgerNext
\* Every other action leaves the database and dropped alone.
<1>10. Next => \/ UNCHANGED <<dbVars, dropped>>
               \/ PersistStart \/ PersistProgress \/ PersistPaused
               \/ PersistPostProcessing \/ Archive \/ ForgetRecord
               \/ \E id \in Ids :
                     \/ ApiSaveRecord(id) \/ ApiDeleteRecord(id)
                     \/ ApiRemove(id) \/ ApiDeleteHistory(id)
               \/ ApiClearHistory
  BY DEF Next, EngineStep, FetchStep, ApiStep, ghostVars,
         ListStoredJobs, RestoreJob, EnterLoop, PickJob, StopEngine, Register,
         MarkDownloading, SetupFails, SetupSucceeds, SeeCancelled, SeePaused,
         StartFile, FileReturns, FileFails, StartPostProcessing,
         SkipPostProcessing, FinishPostProcessing, Finish, RemoveFinished,
         Unregister, Panic, Recover, ApiAdd, ApiBuildRecord, SourceAdd, ApiPause,
         ApiResume, ApiPauseQueue, OnlyQueue, Boot, Terminate, Die
<1>11. UNCHANGED vars => UNCHANGED <<dbVars, dropped>>
  BY DEF vars, ghostVars
<1>. QED
  BY <1>1, <1>2, <1>3, <1>4, <1>5, <1>6, <1>7, <1>8, <1>9, <1>10, <1>11

\* The specification implements the ledger: a job whose record was saved is
\* pending until it is finished and finished for ever after, unless a user
\* deletes it; no crash, restart or race of a request with the engine loses it.
THEOREM LifecycleImplementsLedger == Spec => ImplementsLedger
<1>1. Init => Ledger!LedgerInit
  BY DEF Init, StoreInit, DurablePlace, Ledger!LedgerInit
<1>. QED
  BY <1>1, InitIndInv, StepIndInv, StepRefinesLedger, PTL
  DEF Spec, ImplementsLedger, Ledger!LedgerSpec

-----------------------------------------------------------------------------
(* Records and the queue.                                                  *)

\* The process knows the job: it is queued, or has been finished or deleted.
\* Only the end of the process undoes it.
Held(id) == InQueue(id) \/ history[id] # None \/ id \in dropped

\* A request that is still to save its record added its job before.
RequestsAreHeld ==
    \A id \in Ids : id \in adding \/ built[id] # None => Held(id)

\* The engine saves the record of a job that is queued, or was removed.
CurIsQueued == pc \in Busy \ {"unregister"} => InQueue(cur) \/ cur \in dropped

\* What restoreJobs has still to go through is what is stored, unless the
\* record was deleted, or is that of a job added meanwhile.
SnapshotIsStored ==
    \A id \in Ids :
        toRestore[id] # None
        => storeJobs[id] \in {toRestore[id], None} \/ Held(id)

RecordInv ==
    /\ RequestsAreHeld
    /\ CurIsQueued
    /\ pc # "restore" => toRestore = NoRecords
    /\ SnapshotIsStored
    /\ UnfinishedRecordIsQueued

LEMMA InitRecordInv == Init => RecordInv
BY DEF Init, StoreInit, NoRecords, RecordInv, RequestsAreHeld, CurIsQueued,
       SnapshotIsStored, UnfinishedRecordIsQueued, Busy

\* While the process lives, a job leaves the queue when a user removes it or
\* the engine is through with it.
LEMMA LeavesQueue ==
    ASSUME QueueInv, [Next]_vars, ~Die
    PROVE  \A x \in Ids :
              InQueue(x)
              => InQueue(x)' \/ x \in dropped' \/ (RemoveFinished /\ x = cur)
<1>a. /\ QueueTypeOK
      /\ NoDuplicateJobs
      /\ pc \in Busy => cur \in Ids
      /\ toRestore \in [Ids -> JobRecord \cup {None}]
  BY DEF QueueInv, IndInv, TypeOK, EngineHasJob
<1>1. CASE jobs' = jobs
  BY <1>1, SameQueue
<1>2. CASE RemoveFinished
  <2>1. cur \in Ids
    BY <1>2, <1>a DEF RemoveFinished, Goto, Busy, PC
  <2>. QED
    BY <1>2, <1>a, <2>1, QueueRemoveMembers, SameQueue DEF RemoveFinished, queueVars
<1>3. ASSUME NEW id \in Ids, RestoreJob(id)
      PROVE  \A x \in Ids : InQueue(x) => InQueue(x)'
  BY <1>3, <1>a, QueueAddMembers, SameQueue DEF RestoreJob, queueVars, JobRecord
<1>4. ASSUME NEW id \in Ids, ApiAdd(id) \/ SourceAdd(id)
      PROVE  \A x \in Ids : InQueue(x) => InQueue(x)'
  BY <1>4, <1>a, QueueAddMembers, NewJobType DEF ApiAdd, SourceAdd
<1>5. ASSUME NEW id \in Ids, ApiRemove(id)
      PROVE  \A x \in Ids : InQueue(x) => InQueue(x)' \/ x \in dropped'
  BY <1>5, <1>a, QueueRemoveMembers DEF ApiRemove
<1>6. \/ jobs' = jobs
      \/ RemoveFinished
      \/ \E id \in Ids :
            RestoreJob(id) \/ ApiAdd(id) \/ SourceAdd(id) \/ ApiRemove(id)
  BY DEF Next, EngineStep, FetchStep, ApiStep, vars, queueVars, ListStoredJobs,
      EnterLoop, PickJob, StopEngine, Register, RegisterCancel,
      MarkDownloading, OnlyJob, PersistStart, PersistProgress, PersistPaused,
      PersistPostProcessing, Persist, SetupFails, SetupSucceeds, SeeCancelled,
      SeePaused, StartFile, FileReturns, FileFails, StartPostProcessing,
      SkipPostProcessing, FinishPostProcessing, Finish, Archive, ForgetRecord,
      Unregister, UnregisterCancel, Panic, Recover, ApiBuildRecord, ApiSaveRecord,
      ApiDeleteRecord, ApiPause, PauseJob, ApiResume, ResumeJob,
      ApiPauseQueue, PauseQueue, OnlyQueue, ApiDeleteHistory,
      ApiClearHistory, Boot, Terminate
<1>. QED
  BY <1>1, <1>2, <1>3, <1>4, <1>5, <1>6

\* A history entry goes only when a user deletes it.
LEMMA LeavesHistory ==
    ASSUME QueueInv, [Next]_vars
    PROVE  /\ dropped \subseteq dropped'
           /\ \A x \in Ids : history[x] # None
                             => history'[x] # None \/ x \in dropped'
<1>a. /\ pc \in Busy => cur \in Ids
      /\ history \in [Ids -> HistoryEntry \cup {None}]
      /\ job \in [Ids -> Job]
  BY DEF QueueInv, IndInv, TypeOK, QueueTypeOK, StoreTypeOK, EngineHasJob
<1>1. CASE history' = history /\ dropped \subseteq dropped'
  BY <1>1
<1>2. CASE Archive
  <2>1. cur \in Ids /\ dropped' = dropped
    BY <1>2, <1>a DEF Archive, Goto, Busy, PC, ghostVars
  <2>. DEFINE entry == [status |-> job[cur].status, err |-> job[cur].err]
  <2>2. entry \in HistoryEntry
    BY <1>a, <2>1 DEF Job, HistoryEntry
  <2>3. history' = [history EXCEPT ![cur] = entry] /\ entry # None
    BY <1>2, <2>2, NoneIsNoRecord DEF Archive, SaveHistory
  <2>. HIDE DEF entry
  <2>. QED
    BY <1>a, <2>1, <2>3
<1>3. ASSUME NEW id \in Ids, ApiDeleteHistory(id)
      PROVE  /\ dropped \subseteq dropped'
             /\ \A x \in Ids : history[x] # None
                               => history'[x] # None \/ x \in dropped'
  BY <1>3, <1>a DEF ApiDeleteHistory, DeleteHistory, InHistory
<1>4. CASE ApiClearHistory
  BY <1>4 DEF ApiClearHistory, ClearHistory, InHistory
<1>5. \/ history' = history /\ dropped \subseteq dropped'
      \/ Archive \/ ApiClearHistory
      \/ \E id \in Ids : ApiDeleteHistory(id)
  BY DEF Next, EngineStep, FetchStep, ApiStep, vars, dbVars, ghostVars,
      ListStoredJobs, RestoreJob, EnterLoop, PickJob, StopEngine, Register,
      MarkDownloading, PersistStart, PersistProgress, PersistPaused,
      PersistPostProcessing, Persist, SaveJob, SetupFails, SetupSucceeds,
      SeeCancelled, SeePaused, StartFile, FileReturns, FileFails,
      StartPostProcessing, SkipPostProcessing, FinishPostProcessing, Finish,
      ForgetRecord, DeleteJob, RemoveFinished, Unregister, Panic, Recover, ApiAdd,
      ApiBuildRecord, ApiSaveRecord, SourceAdd, ApiRemove, ApiDeleteRecord,
      ApiPause, ApiResume, ApiPauseQueue, OnlyQueue, Boot, Terminate, Die
<1>. QED
  BY <1>1, <1>2, <1>3, <1>4, <1>5

\* So while the process lives it forgets no job: the engine takes a finished
\* job out of the queue after it has written its history entry.
LEMMA HeldStaysHeld ==
    ASSUME QueueInv, [Next]_vars, ~Die
    PROVE  \A id \in Ids : Held(id) => Held(id)'
<1>1. RemoveFinished => history[cur] # None \/ cur \in dropped
  BY DEF RemoveFinished, Goto, QueueInv, IndInv, ArchivedFirst
<1>2. ASSUME NEW id \in Ids, InQueue(id)
      PROVE  Held(id)'
  <2>1. CASE RemoveFinished /\ id = cur
    BY <1>1, <2>1, LeavesHistory DEF Held
  <2>. QED
    BY <1>2, <2>1, LeavesQueue DEF Held
<1>. QED
  BY <1>2, LeavesHistory DEF Held

\* The job in the engine's hands stays in the queue until it is finished.
LEMMA StepCurIsQueued ==
    ASSUME QueueInv, CurIsQueued, [Next]_vars
    PROVE  CurIsQueued'
<1>. SUFFICES ASSUME (pc \in Busy \ {"unregister"})'
              PROVE  InQueue(cur)' \/ cur' \in dropped'
  BY DEF CurIsQueued
<1>a. QueueTypeOK /\ pc \in PC /\ (pc \in Busy => cur \in Ids)
  BY DEF QueueInv, IndInv, TypeOK, EngineHasJob
<1>1. CASE PickJob
  BY <1>1, <1>a, NextIsInQueue, SameQueue DEF PickJob, queueVars
<1>2. CASE pc \in Busy \ {"unregister"} /\ cur' = cur
  <2>1. InQueue(cur) \/ cur \in dropped
    BY <1>2 DEF CurIsQueued
  <2>2. ~RemoveFinished /\ ~Die
    BY DEF RemoveFinished, Die, Goto, Busy
  <2>. QED
    BY <1>2, <1>a, <2>1, <2>2, LeavesQueue, LeavesHistory
<1>3. ASSUME EngineStep PROVE PickJob \/ (pc \in Busy \ {"unregister"} /\ cur' = cur)
  BY <1>3 DEF EngineStep, Goto, Busy, PC, ListStoredJobs, RestoreJob, EnterLoop,
      StopEngine, Register, MarkDownloading, PersistStart, PersistProgress,
      PersistPaused, PersistPostProcessing, Persist, SetupFails, SetupSucceeds,
      SeeCancelled, SeePaused, StartFile, StartPostProcessing,
      SkipPostProcessing, FinishPostProcessing, Finish, Archive, ForgetRecord,
      RemoveFinished, Unregister, Recover
<1>4. ASSUME Next, ~EngineStep PROVE pc \in Busy \ {"unregister"} /\ cur' = cur
  BY <1>4 DEF Next, FetchStep, ApiStep, engineVars, Goto, Busy, PC, FileReturns,
      FileFails, Panic, ApiAdd, ApiBuildRecord, ApiSaveRecord, SourceAdd,
      ApiRemove, ApiDeleteRecord, ApiPause, ApiResume, ApiPauseQueue, OnlyQueue,
      ApiDeleteHistory, ApiClearHistory, Boot, Terminate, Die
<1>5. CASE UNCHANGED vars
  BY <1>2, <1>5 DEF vars, engineVars
<1>. QED
  BY <1>1, <1>2, <1>3, <1>4, <1>5

LEMMA StepRecordInv == QueueInv /\ RecordInv /\ [Next]_vars => RecordInv'
<1>. SUFFICES ASSUME QueueInv, RecordInv, [Next]_vars PROVE RecordInv'
  OBVIOUS
<1>a. /\ QueueTypeOK
      /\ NoDuplicateJobs
      /\ storeJobs \in [Ids -> JobRecord \cup {None}]
      /\ toRestore \in [Ids -> JobRecord \cup {None}]
      /\ built \in [Ids -> JobRecord \cup {None}]
      /\ pc \in PC
      /\ pc \in Busy => cur \in Ids
  BY DEF QueueInv, IndInv, TypeOK, QueueTypeOK, StoreTypeOK, EngineHasJob
<1>b. CurIsQueued'
  BY StepCurIsQueued DEF RecordInv
<1>c. /\ RequestsAreHeld
      /\ CurIsQueued
      /\ pc # "restore" => toRestore = NoRecords
      /\ SnapshotIsStored
  BY DEF RecordInv
<1>d. ASSUME NEW id \in Ids, pc \notin {"off", "list"},
             storeJobs[id] # None, storeJobs[id].status \in Restorable
      PROVE  Held(id) \/ toRestore[id] # None
  BY <1>d DEF RecordInv, UnfinishedRecordIsQueued, Held
<1>1. CASE Die
  BY <1>1, <1>b
  DEF Die, NoRecords, RecordInv, RequestsAreHeld, SnapshotIsStored,
      UnfinishedRecordIsQueued
<1>2. CASE ~Die
  <2>h. \A id \in Ids : Held(id) => Held(id)'
    BY <1>2, HeldStaysHeld
  <2>. USE DEF RequestsAreHeld, SnapshotIsStored
  \* The invariant follows from what a step does to one job.
  <2>s. ASSUME \A id \in Ids : id \in adding' \/ built'[id] # None => Held(id)',
               pc' # "restore" => toRestore' = NoRecords,
               \A id \in Ids :
                  toRestore'[id] # None
                  => storeJobs'[id] \in {toRestore'[id], None} \/ Held(id)',
               \A id \in Ids :
                  /\ pc' \notin {"off", "list"}
                  /\ storeJobs'[id] # None
                  /\ storeJobs'[id].status \in Restorable
                  => Held(id)' \/ toRestore'[id] # None
        PROVE  RecordInv'
    BY <1>b, <2>s DEF RecordInv, UnfinishedRecordIsQueued, Held
  <2>1. CASE /\ UNCHANGED <<storeJobs, toRestore, adding, built>>
             /\ pc' = pc \/ pc \notin {"list", "restore"}
             /\ pc = "off" => pc' \in {"off", "list"}
             /\ pc' = "restore" => pc = "restore"
    BY <2>1, <2>h, <2>s, <1>c, <1>d
  <2>2. CASE EnterLoop
    BY <2>2, <2>h, <2>s, <1>c, <1>d
    DEF EnterLoop, Goto, NoRecords, dbVars, apiVars
  <2>3. CASE ListStoredJobs
    BY <2>3, <2>h, <2>s, <1>c DEF ListStoredJobs, Goto, dbVars, apiVars
  <2>4. ASSUME NEW id \in Ids, RestoreJob(id)
        PROVE  RecordInv'
    <3>1. /\ pc = "restore" /\ pc' = "restore"
          /\ toRestore[id] # None
          /\ \A x \in Ids : toRestore'[x] = IF x = id THEN None ELSE toRestore[x]
          /\ UNCHANGED <<storeJobs, adding, built>>
      BY <2>4, <1>a DEF RestoreJob, dbVars, apiVars
    <3>2. toRestore[id].status \in Restorable => InQueue(id)'
      BY <2>4, <1>a, QueueAddMembers, SameQueue
      DEF RestoreJob, queueVars, JobRecord
    <3>3. storeJobs[id] \in {toRestore[id], None} \/ Held(id)
      BY <3>1, <1>c
    <3>4. storeJobs[id] # None /\ storeJobs[id].status \in Restorable => Held(id)'
      BY <3>2, <3>3, <2>h DEF Held
    <3>. QED
      BY <3>1, <3>4, <2>h, <2>s, <1>c, <1>d
  \* The engine saves a record of a job that is held.
  <2>5. CASE PersistStart \/ PersistProgress \/ PersistPaused \/ PersistPostProcessing
    <3>1. /\ cur \in Ids /\ Held(cur)
          /\ pc \notin {"off", "list", "restore"} /\ pc' # "restore"
          /\ UNCHANGED <<toRestore, adding, built>>
          /\ storeJobs' = [storeJobs EXCEPT ![cur] = job[cur]]
      BY <2>5, <1>a, <1>c
      DEF PersistStart, PersistProgress, PersistPaused, PersistPostProcessing,
          Persist, SaveJob, Goto, Busy, PC, CurIsQueued, Held, apiVars
    <3>. QED
      BY <3>1, <2>h, <2>s, <1>a, <1>c, <1>d DEF NoRecords
  <2>6. CASE ForgetRecord
    <3>1. /\ cur \in Ids
          /\ pc \notin {"off", "list", "restore"} /\ pc' # "restore"
          /\ UNCHANGED <<toRestore, adding, built>>
          /\ storeJobs' = [storeJobs EXCEPT ![cur] = None]
      BY <2>6, <1>a DEF ForgetRecord, DeleteJob, Goto, Busy, PC, apiVars
    <3>. QED
      BY <3>1, <2>h, <2>s, <1>a, <1>c, <1>d DEF NoRecords
  <2>7. ASSUME NEW id \in Ids, ApiAdd(id)
        PROVE  RecordInv'
    <3>1. InQueue(id)'
      BY <2>7, <1>a, QueueAddMembers, NewJobType DEF ApiAdd
    <3>2. /\ adding' = adding \cup {id}
          /\ UNCHANGED <<pc, storeJobs, toRestore, built>>
      BY <2>7 DEF ApiAdd, dbVars, engineVars
    <3>. QED
      BY <3>1, <3>2, <2>h, <2>s, <1>c, <1>d DEF Held
  <2>8. ASSUME NEW id \in Ids, ApiBuildRecord(id)
        PROVE  RecordInv'
    <3>1. /\ id \in adding /\ adding' \subseteq adding
          /\ \A x \in Ids : x # id => built'[x] = built[x]
          /\ UNCHANGED <<pc, storeJobs, toRestore>>
      BY <2>8, <1>a DEF ApiBuildRecord, dbVars, engineVars
    <3>. QED
      BY <3>1, <2>h, <2>s, <1>c, <1>d
  <2>9. ASSUME NEW id \in Ids, ApiSaveRecord(id)
        PROVE  RecordInv'
    <3>1. /\ Held(id)
          /\ adding' = adding
          /\ \A x \in Ids : x # id => storeJobs'[x] = storeJobs[x]
          /\ \A x \in Ids : built'[x] # None => built[x] # None
          /\ UNCHANGED <<pc, toRestore>>
      BY <2>9, <1>a, <1>c DEF ApiSaveRecord, SaveJob, engineVars
    <3>. QED
      BY <3>1, <2>h, <2>s, <1>c, <1>d
  <2>10. ASSUME NEW id \in Ids, ApiDeleteRecord(id)
         PROVE  RecordInv'
    <3>1. /\ UNCHANGED <<pc, toRestore, adding, built>>
          /\ \A x \in Ids : storeJobs'[x] = IF x = id THEN None ELSE storeJobs[x]
      BY <2>10, <1>a DEF ApiDeleteRecord, DeleteJob, engineVars
    <3>. QED
      BY <3>1, <2>h, <2>s, <1>c, <1>d
  <2>11. \/ /\ UNCHANGED <<storeJobs, toRestore, adding, built>>
            /\ pc' = pc \/ pc \notin {"list", "restore"}
            /\ pc = "off" => pc' \in {"off", "list"}
            /\ pc' = "restore" => pc = "restore"
         \/ EnterLoop \/ ListStoredJobs \/ PersistStart \/ PersistProgress
         \/ PersistPaused \/ PersistPostProcessing \/ ForgetRecord
         \/ \E id \in Ids :
               \/ RestoreJob(id) \/ ApiAdd(id) \/ ApiBuildRecord(id)
               \/ ApiSaveRecord(id) \/ ApiDeleteRecord(id)
    BY <1>2
    DEF Next, EngineStep, FetchStep, ApiStep, vars, dbVars, apiVars,
        engineVars, Goto, Die, PickJob, StopEngine, Register,
        MarkDownloading, SetupFails, SetupSucceeds, SeeCancelled, SeePaused,
        StartFile, FileReturns, FileFails, StartPostProcessing,
        SkipPostProcessing, FinishPostProcessing, Finish, Archive,
        SaveHistory, RemoveFinished, Unregister, Panic, Recover, SourceAdd, ApiRemove,
        ApiPause, ApiResume, ApiPauseQueue, OnlyQueue, ApiDeleteHistory,
        DeleteHistory, ApiClearHistory, ClearHistory, Boot, Terminate
  <2>. QED
    BY <2>1, <2>2, <2>3, <2>4, <2>5, <2>6, <2>7, <2>8, <2>9, <2>10, <2>11
<1>. QED
  BY <1>1, <1>2

\* In a running process a record that restoreJobs would restore is never on
\* disk only: its job is queued, is about to be, is finished, or was deleted.
THEOREM RecordsAreQueued == Spec => []UnfinishedRecordIsQueued
<1>1. RecordInv => UnfinishedRecordIsQueued
  BY DEF RecordInv
<1>. QED
  BY <1>1, InitQueueInv, StepQueueInv, InitRecordInv, StepRecordInv, PTL
  DEF Spec

=============================================================================
