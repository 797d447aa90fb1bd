---------------------------- MODULE QueueManager ----------------------------
(***************************************************************************)
(* The in-memory download queue, queue.Manager (internal/queue/manager.go).*)
(*                                                                         *)
(* Every method runs under Manager.mu, so a method is one atomic step.     *)
(* The operators below are those methods; JobLifecycle composes them with  *)
(* the store, the engine loop and the HTTP handlers.  Spec, at the end, is *)
(* the manager alone with clients that call it in any order.               *)
(*                                                                         *)
(* A job is known by its ID.  jobs holds the IDs in queue order; job[id]   *)
(* is the Job object itself, which outlives its place in the queue because *)
(* the engine keeps a pointer to it.                                       *)
(***************************************************************************)
EXTENDS Naturals, Sequences

CONSTANTS
    Ids,         \* the job IDs that may ever be generated
    Priorities,  \* the priorities a request may carry
    MaxDone,     \* bound on the DoneSegments counter of a job
    None         \* Go's nil: no job, no record, no history entry

ASSUME NoneIsNoId == None \notin Ids
ASSUME PrioritiesAreNumbers == Priorities \subseteq Nat /\ Priorities # {}
ASSUME MaxDoneIsNat == MaxDone \in Nat

VARIABLES
    jobs,         \* Manager.jobs: the queue, a sequence of IDs
    job,          \* the Job object of every ID
    queuePaused,  \* Manager.paused
    cancelFns,    \* IDs with an entry in Manager.cancel
    cancelled     \* IDs whose registered context has been cancelled

queueVars == <<jobs, job, queuePaused, cancelFns, cancelled>>

\* StatusAssembling is declared by the code and never assigned.
Status == {"queued", "downloading", "post-processing", "completed",
           "failed", "paused"}

\* err says that Job.Error is not the empty string; done is DoneSegments.
Job == [status : Status, prio : Priorities, done : 0..MaxDone, err : BOOLEAN]

QueueTypeOK ==
    /\ jobs \in Seq(Ids)
    /\ job \in [Ids -> Job]
    /\ queuePaused \in BOOLEAN
    /\ cancelFns \subseteq Ids
    /\ cancelled \subseteq Ids

NewJob(prio) == [status |-> "queued", prio |-> prio, done |-> 0, err |-> FALSE]

\* NewManager: what every process starts with.  Job objects that no pointer
\* reaches yet have an arbitrary content; a fixed one is chosen for them.
FreshJobs == [id \in Ids |-> NewJob(CHOOSE p \in Priorities : TRUE)]

QueueInit ==
    /\ jobs = <<>>
    /\ job = FreshJobs
    /\ queuePaused = FALSE
    /\ cancelFns = {}
    /\ cancelled = {}

\* The process dies and its memory with it; the next one calls NewManager.
QueueLost ==
    /\ jobs' = <<>>
    /\ job' = FreshJobs
    /\ queuePaused' = FALSE
    /\ cancelFns' = {}
    /\ cancelled' = {}

InQueue(id) == \E i \in 1..Len(jobs) : jobs[i] = id

\* Mutant of QueueAdd: no check for duplicates.
QueueAdd_NoCheck(id, j) ==
    /\ jobs' = Append(jobs, id)
    /\ job' = [job EXCEPT ![id] = [j EXCEPT !.status = "queued"]]
    /\ UNCHANGED <<queuePaused, cancelFns, cancelled>>

\* Add: the status is overwritten whatever the caller put there, and the
\* job goes to the back.  A duplicate ID is refused and changes nothing.
QueueAdd(id, j) ==
    /\ ~InQueue(id)
    /\ jobs' = Append(jobs, id)
    /\ job' = [job EXCEPT ![id] = [j EXCEPT !.status = "queued"]]
    /\ UNCHANGED <<queuePaused, cancelFns, cancelled>>

\* Mutant of QueueRemove: the last job takes the place of the removed one.
QueueRemove_Swap(id) ==
    /\ \E i \in 1..Len(jobs) :
          /\ jobs[i] = id
          /\ jobs' = SubSeq([jobs EXCEPT ![i] = jobs[Len(jobs)]], 1, Len(jobs) - 1)
    /\ cancelled' = IF id \in cancelFns THEN cancelled \cup {id} ELSE cancelled
    /\ cancelFns' = cancelFns \ {id}
    /\ UNCHANGED <<job, queuePaused>>

\* Remove of a job that is in the queue: cancel it if a function is
\* registered for it, then splice it out.
QueueRemove(id) ==
    /\ \E i \in 1..Len(jobs) :
          /\ jobs[i] = id
          /\ \A k \in 1..(i - 1) : jobs[k] # id
          /\ jobs' = SubSeq(jobs, 1, i - 1) \o SubSeq(jobs, i + 1, Len(jobs))
    /\ cancelled' = IF id \in cancelFns THEN cancelled \cup {id} ELSE cancelled
    /\ cancelFns' = cancelFns \ {id}
    /\ UNCHANGED <<job, queuePaused>>

SetStatus(id, s) == job' = [job EXCEPT ![id].status = s]

\* Pause and Resume of one job.  Pause does not look at the status it
\* overwrites; Resume undoes a pause only.
PauseJob(id) ==
    /\ InQueue(id)
    /\ SetStatus(id, "paused")
    /\ UNCHANGED <<jobs, queuePaused, cancelFns, cancelled>>

ResumeJob(id) ==
    /\ InQueue(id)
    /\ job[id].status = "paused"
    /\ SetStatus(id, "queued")
    /\ UNCHANGED <<jobs, queuePaused, cancelFns, cancelled>>

\* Pause and Resume with an empty ID: the whole queue.
PauseQueue(paused) ==
    /\ queuePaused # paused
    /\ queuePaused' = paused
    /\ UNCHANGED <<jobs, job, cancelFns, cancelled>>

\* Mutant of Better: the last job of equal priority wins.
Better_OrEqual(best, id) ==
    /\ job[id].status = "queued"
    /\ best = None \/ job[id].prio >= job[best].prio

\* Next: one pass over the queue, replacing the best job so far only by one
\* of a strictly higher priority.  Best[n] is the best of the first n jobs.
Better(best, id) ==
    /\ job[id].status = "queued"
    /\ best = None \/ job[id].prio > job[best].prio

Best[n \in 0..Len(jobs)] ==
    IF n = 0 THEN None
    ELSE IF Better(Best[n - 1], jobs[n]) THEN jobs[n]
    ELSE Best[n - 1]

NextJob == IF queuePaused THEN None ELSE Best[Len(jobs)]

\* RegisterCancel stores the function of a context made just before; the
\* engine drops that context when it unregisters it.
RegisterCancel(id) ==
    /\ cancelFns' = cancelFns \cup {id}
    /\ cancelled' = cancelled \ {id}
    /\ UNCHANGED <<jobs, job, queuePaused>>

UnregisterCancel(id) ==
    /\ cancelFns' = cancelFns \ {id}
    /\ cancelled' = cancelled \ {id}
    /\ UNCHANGED <<jobs, job, queuePaused>>

-----------------------------------------------------------------------------
(* The manager alone.                                                      *)

ClientAdd(id) == \E p \in Priorities : QueueAdd(id, NewJob(p))

ClientSetStatus(id) ==
    /\ \E s \in {"downloading", "completed"} : SetStatus(id, s)
    /\ UNCHANGED <<jobs, queuePaused, cancelFns, cancelled>>

QueueNext ==
    \/ \E id \in Ids :
          \/ ClientAdd(id)
          \/ QueueRemove(id)
          \/ PauseJob(id)
          \/ ResumeJob(id)
          \/ ClientSetStatus(id)
          \/ RegisterCancel(id)
          \/ UnregisterCancel(id)
    \/ \E paused \in BOOLEAN : PauseQueue(paused)

QueueSpec == QueueInit /\ [][QueueNext]_queueVars

-----------------------------------------------------------------------------
(* Properties.                                                             *)

\* The jobs the engine may start, as Next's comment names them: "the next
\* job eligible for download".
Eligible == {i \in 1..Len(jobs) : job[jobs[i]].status = "queued"}

\* Next hands out the eligible job of the highest priority and, among those
\* of equal priority, the one that has waited longest in the queue.
NextIsHighestPriorityThenOldest ==
    IF queuePaused \/ Eligible = {}
    THEN NextJob = None
    ELSE \E i \in Eligible :
            /\ NextJob = jobs[i]
            /\ \A k \in Eligible :
                  \/ job[jobs[k]].prio < job[jobs[i]].prio
                  \/ job[jobs[k]].prio = job[jobs[i]].prio /\ k >= i

\* The duplicate check of Add is enough: no ID is ever in the queue twice,
\* so Remove, Pause and Resume, which stop at the first match, reach the job.
NoDuplicateJobs ==
    \A i, k \in 1..Len(jobs) : jobs[i] = jobs[k] => i = k

Position(q, id) == CHOOSE i \in 1..Len(q) : q[i] = id

\* No operation reorders the jobs that stay: removing one from the middle
\* keeps the relative order of the others, and a new one goes behind them.
QueueOrderKept ==
    [][\A a, b \in Ids :
          /\ InQueue(a) /\ InQueue(b)
          /\ InQueue(a)' /\ InQueue(b)'
          => (Position(jobs, a) < Position(jobs, b)
                <=> Position(jobs', a) < Position(jobs', b))]_queueVars

=============================================================================
