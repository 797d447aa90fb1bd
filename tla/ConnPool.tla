------------------------------ MODULE ConnPool ------------------------------
(***************************************************************************)
(* The connections to one news server: nntp.Pool (internal/nntp/client.go) *)
(* and the workers that use it through fetchSegment (internal/engine).     *)
(*                                                                         *)
(* processJob opens the pool, downloads one file after the other and closes*)
(* it.  Each downloadFile has workers of its own (see SegmentPipeline): all*)
(* have exited when it returns nil, and they may be anywhere, and go on,   *)
(* when it returns a write error.  The next file is then downloaded over   *)
(* the same pool, beside them.                                             *)
(*                                                                         *)
(* A step is one channel operation, one critical section of Pool.mu, or    *)
(* one exchange with the server.  The end of a Close and the decrement of  *)
(* active after it are one step: nobody sees what is between.              *)
(***************************************************************************)
EXTENDS Integers, Sequences, FiniteSets

CONSTANTS
    NumFiles,    \* files of the job that can be created
    Slots,       \* the workers of one download, by number
    Conns,       \* identities of connections; a closed one is used again
    Limits,      \* connection limits of the servers: a pool has one of them
    MaxRetries,  \* downloads.max_retries
    NumFetches,  \* segments of a file
    None         \* no connection

ASSUME SlotsAndConns ==
    /\ IsFiniteSet(Slots)
    /\ IsFiniteSet(Conns)
    /\ \A n \in Limits : n \in Nat \ {0} /\ n <= Cardinality(Conns)
    /\ None \notin Conns
ASSUME NumFilesIsNat == NumFiles \in Nat
ASSUME MaxRetriesIsNat == MaxRetries \in Nat
ASSUME NumFetchesIsNat == NumFetches \in Nat

VARIABLES
    maxConns,   \* Pool.maxConns
    idle,       \* Pool.conns, a buffered channel
    closed,     \* whether that channel is closed
    active,     \* Pool.active
    at,         \* where each worker is
    client,     \* the connection it has
    attempt,    \* its attempts at the segment so far
    broken,     \* connections the server has dropped
    left,       \* of each file, the segments no worker has begun
    fetched,    \* whether the consumer of the last file was sent an article
    cancelled,  \* the job's context is done
    file,       \* the files begun so far
    abandoned,  \* the files whose download returned a write error
    job         \* processJob: "downloading", "between" two files, "over", or
                \* "crashed": a panic of a worker, which nobody recovers

poolVars == <<maxConns, idle, closed, active>>
workerVars == <<at, client, attempt>>
jobVars == <<file, abandoned, job>>
envVars == <<left, fetched, cancelled, jobVars>>
vars == <<poolVars, workerVars, broken, envVars>>

Files == 1..NumFiles

\* A worker is started by the download of its file and never used again.
Workers == Files \X Slots
FileOf(w) == w[1]

\* "rest": between two segments, not yet started, or gone.  "attempt": the
\* retry loop.  "check", "close", "count", "wait", "dial": inside Get.  "use":
\* in Body.  "done" and "retry": Body has returned, Put comes next.
Place == {"rest", "attempt", "check", "close", "count", "wait", "dial", "use",
          "done", "retry"}

\* The counter stays within 0 and the limit, the channel within its capacity.
TypeOK ==
    /\ maxConns \in Limits
    /\ idle \in Seq(Conns)
    /\ Len(idle) <= maxConns
    /\ closed \in BOOLEAN
    /\ active \in 0..maxConns
    /\ at \in [Workers -> Place]
    /\ client \in [Workers -> Conns \cup {None}]
    /\ attempt \in [Workers -> 0..MaxRetries]
    /\ broken \subseteq Conns
    /\ left \in [Files -> 0..NumFetches]
    /\ fetched \in BOOLEAN
    /\ cancelled \in BOOLEAN
    /\ file \in 0..NumFiles
    /\ abandoned \subseteq Files
    /\ job \in {"downloading", "between", "over", "crashed"}

Init ==
    /\ maxConns \in Limits
    /\ idle = <<>>
    /\ closed = FALSE
    /\ active = 0
    /\ at = [w \in Workers |-> "rest"]
    /\ client = [w \in Workers |-> None]
    /\ attempt = [w \in Workers |-> 0]
    /\ broken = {}
    /\ left = [f \in Files |-> 0]
    /\ fetched = FALSE
    /\ cancelled = FALSE
    /\ file = 0
    /\ abandoned = {}
    /\ job = "between"

Idle == {idle[i] : i \in 1..Len(idle)}
Open == (Idle \cup {client[w] : w \in Workers}) \ {None}

-----------------------------------------------------------------------------
(* Steps of a worker.                                                      *)

Move(w, from, to) == at[w] = from /\ at' = [at EXCEPT ![w] = to]

Alive == job # "crashed"

\* A nil connection or a send on a closed channel: the goroutine panics and
\* takes the process with it.
Crash ==
    /\ job' = "crashed"
    /\ UNCHANGED <<poolVars, workerVars, broken, left, fetched, cancelled,
                   file, abandoned>>

\* A segment from segCh, which the feeder of the file fills whether or not the
\* download has returned; a worker that sees the context done exits instead.
BeginFetch(w) ==
    /\ Move(w, "rest", "attempt")
    /\ left[FileOf(w)] > 0
    /\ ~cancelled
    /\ left' = [left EXCEPT ![FileOf(w)] = @ - 1]
    /\ UNCHANGED <<poolVars, client, attempt, broken, fetched, cancelled,
                   jobVars>>

\* The servers are exhausted, or the context is done.
GiveUp(w) ==
    /\ Move(w, "attempt", "rest")
    /\ attempt[w] = MaxRetries \/ cancelled
    /\ attempt' = [attempt EXCEPT ![w] = 0]
    /\ UNCHANGED <<poolVars, client, broken, envVars>>

Trying(w) == attempt[w] < MaxRetries /\ ~cancelled

\* Get: a connection from the channel.
GetIdle(w) ==
    /\ Move(w, "attempt", "check")
    /\ Trying(w)
    /\ idle # <<>>
    /\ client' = [client EXCEPT ![w] = Head(idle)]
    /\ idle' = Tail(idle)
    /\ UNCHANGED <<maxConns, closed, active, attempt, broken, envVars>>

\* Mutant of GetNone: Get goes for a new connection first.
GetNone_NotAsked(w) ==
    /\ Move(w, "attempt", "count")
    /\ Trying(w)
    /\ ~closed
    /\ UNCHANGED <<poolVars, client, attempt, broken, envVars>>

\* No idle connection: on to the counter.
GetNone(w) ==
    /\ Move(w, "attempt", "count")
    /\ Trying(w)
    /\ idle = <<>>
    /\ ~closed
    /\ UNCHANGED <<poolVars, client, attempt, broken, envVars>>

\* The receive from a closed channel gives nil, on which Alive panics.
GetNil(w) ==
    /\ at[w] = "attempt"
    /\ Trying(w)
    /\ idle = <<>>
    /\ closed
    /\ Crash

IsAlive(w) ==
    /\ Move(w, "check", "use")
    /\ client[w] \notin broken
    /\ UNCHANGED <<poolVars, client, attempt, broken, envVars>>

\* No answer, or none within the deadline: Close sends QUIT and waits for the
\* reply, and now there is no deadline.
IsDead(w) ==
    /\ Move(w, "check", "close")
    /\ UNCHANGED <<poolVars, client, attempt, broken, envVars>>

\* Mutant of CloseEnds: the place of the closed connection is not given back.
CloseEnds_StillCounted(w) ==
    /\ Move(w, "close", "count")
    /\ client' = [client EXCEPT ![w] = None]
    /\ broken' = broken \ {client[w]}
    /\ UNCHANGED <<poolVars, attempt, envVars>>

CloseEnds(w) ==
    /\ Move(w, "close", "count")
    /\ client' = [client EXCEPT ![w] = None]
    /\ broken' = broken \ {client[w]}
    /\ active' = active - 1
    /\ UNCHANGED <<maxConns, idle, closed, attempt, envVars>>

\* Mutant of Count: one connection more than the limit.
Count_OneMore(w) ==
    /\ at[w] = "count"
    /\ IF active > maxConns
       THEN Move(w, "count", "wait") /\ UNCHANGED active
       ELSE Move(w, "count", "dial") /\ active' = active + 1
    /\ UNCHANGED <<maxConns, idle, closed, client, attempt, broken, envVars>>

Count(w) ==
    /\ at[w] = "count"
    /\ IF active >= maxConns
       THEN Move(w, "count", "wait") /\ UNCHANGED active
       ELSE Move(w, "count", "dial") /\ active' = active + 1
    /\ UNCHANGED <<maxConns, idle, closed, client, attempt, broken, envVars>>

\* The connection that is handed over here is not asked whether it is alive.
WaitEnds(w) ==
    /\ Move(w, "wait", "use")
    /\ idle # <<>>
    /\ client' = [client EXCEPT ![w] = Head(idle)]
    /\ idle' = Tail(idle)
    /\ UNCHANGED <<maxConns, closed, active, attempt, broken, envVars>>

WaitIsCancelled(w) ==
    /\ Move(w, "wait", "attempt")
    /\ cancelled
    /\ attempt' = [attempt EXCEPT ![w] = @ + 1]
    /\ UNCHANGED <<poolVars, client, broken, envVars>>

WaitNil(w) ==
    /\ at[w] = "wait"
    /\ idle = <<>>
    /\ closed
    /\ Crash

DialSucceeds(w) ==
    /\ Move(w, "dial", "use")
    /\ \E c \in Conns \ Open : client' = [client EXCEPT ![w] = c]
    /\ UNCHANGED <<poolVars, attempt, broken, envVars>>

\* Mutant of DialFails: the place taken in Count is not given back.
DialFails_StillCounted(w) ==
    /\ Move(w, "dial", "attempt")
    /\ attempt' = [attempt EXCEPT ![w] = @ + 1]
    /\ UNCHANGED <<poolVars, client, broken, envVars>>

DialFails(w) ==
    /\ Move(w, "dial", "attempt")
    /\ active' = active - 1
    /\ attempt' = [attempt EXCEPT ![w] = @ + 1]
    /\ UNCHANGED <<maxConns, idle, closed, client, broken, envVars>>

\* Body returns the article, "not found", or another error.  The connection
\* may be lost in the middle: an end of file inside the article counts as
\* its end, anything else is an error.
BodyReturns(w) ==
    /\ \/ Move(w, "use", "done") /\ client[w] \notin broken
       \/ Move(w, "use", "retry")
    /\ broken' \in {broken, broken \cup {client[w]}}
    /\ UNCHANGED <<poolVars, client, attempt, envVars>>

\* What follows Put: the return of fetchSegment, with the article or because
\* the server does not have it, or the next attempt.
AfterPut(w) ==
    IF at[w] = "done"
    THEN /\ Move(w, "done", "rest")
         /\ attempt' = [attempt EXCEPT ![w] = 0]
         /\ fetched' \in {fetched, fetched \/ FileOf(w) = file}
    ELSE /\ Move(w, "retry", "attempt")
         /\ attempt' = [attempt EXCEPT ![w] = @ + 1]
         /\ UNCHANGED fetched

Putting(w) == at[w] \in {"done", "retry"}

\* Mutant of Put: after an error the worker tries again on the connection
\* that it has put back.
Put_UseAgain(w) ==
    /\ Putting(w)
    /\ ~closed
    /\ idle' = Append(idle, client[w])
    /\ IF at[w] = "done"
       THEN Move(w, "done", "rest") /\ client' = [client EXCEPT ![w] = None]
       ELSE Move(w, "retry", "use") /\ UNCHANGED client
    /\ UNCHANGED <<maxConns, closed, active, attempt, broken, envVars>>

\* Back to the channel.  Were it full, the connection would be closed; since
\* CountIsOpen it never is.
Put(w) ==
    /\ Putting(w)
    /\ ~closed
    /\ IF Len(idle) < maxConns
       THEN /\ idle' = Append(idle, client[w])
            /\ UNCHANGED <<active, broken>>
       ELSE /\ active' = active - 1
            /\ broken' = broken \ {client[w]}
            /\ UNCHANGED idle
    /\ client' = [client EXCEPT ![w] = None]
    /\ AfterPut(w)
    /\ UNCHANGED <<maxConns, closed, left, cancelled, jobVars>>

PutOnClosed(w) ==
    /\ Putting(w)
    /\ closed
    /\ Crash

\* The exchanges that last as long as the server likes: none has a deadline.
InExchange(w) == at[w] \in {"close", "dial", "use"}

ExchangeEnds(w) ==
    \/ CloseEnds(w)
    \/ DialSucceeds(w) \/ DialFails(w)
    \/ BodyReturns(w)

\* The others, and the check of a connection, which has one.
Fetch(w) ==
    \/ GiveUp(w)
    \/ GetIdle(w) \/ GetNone(w) \/ GetNil(w)
    \/ IsAlive(w) \/ IsDead(w)
    \/ Count(w)
    \/ WaitEnds(w) \/ WaitIsCancelled(w) \/ WaitNil(w)
    \/ Put(w) \/ PutOnClosed(w)

-----------------------------------------------------------------------------
(* The server, the user and the engine.                                    *)

\* The server drops a connection that nobody uses.
ServerDrops(c) ==
    /\ Alive
    /\ c \in Idle
    /\ broken' = broken \cup {c}
    /\ UNCHANGED <<poolVars, workerVars, envVars>>

Cancel ==
    /\ Alive
    /\ ~cancelled
    /\ cancelled' = TRUE
    /\ UNCHANGED <<poolVars, workerVars, broken, left, fetched, jobVars>>

\* The next file of the loop: a fresh set of workers.
StartFile ==
    /\ job = "between"
    /\ file < NumFiles
    /\ ~cancelled
    /\ job' = "downloading"
    /\ file' = file + 1
    /\ left' = [left EXCEPT ![file'] = NumFetches]
    /\ fetched' = FALSE
    /\ UNCHANGED <<poolVars, workerVars, broken, cancelled, abandoned>>

\* No worker of the file has or can take a segment.
Quiet ==
    /\ left[file] = 0 \/ cancelled
    /\ \A w \in Workers : FileOf(w) = file => at[w] = "rest"

\* Mutant of DownloadReturns: wg.Wait is left out.
DownloadReturns_NoWait ==
    /\ job = "downloading"
    /\ left[file] = 0
    /\ job' = "between"
    /\ UNCHANGED <<poolVars, workerVars, broken, left, fetched, cancelled,
                   file, abandoned>>

\* downloadFile returns nil when every segment has been through a worker and
\* the workers are gone.
DownloadReturns ==
    /\ job = "downloading"
    /\ Quiet
    /\ job' = "between"
    /\ UNCHANGED <<poolVars, workerVars, broken, left, fetched, cancelled,
                   file, abandoned>>

\* It returns an error when an article that was fetched cannot be written, and
\* leaves its workers behind.  When it panics on an article EndJob follows.
WriteFails ==
    /\ job = "downloading"
    /\ fetched
    /\ job' = "between"
    /\ abandoned' = abandoned \cup {file}
    /\ UNCHANGED <<poolVars, workerVars, broken, left, fetched, cancelled,
                   file>>

\* The file loop is left: after the last file, on a cancellation or a pause, or
\* by a panic.
EndJob ==
    /\ job = "between"
    /\ job' = "over"
    /\ UNCHANGED <<poolVars, workerVars, broken, left, fetched, cancelled,
                   file, abandoned>>

\* The deferred closePools: close the channel, then close what is in it.
ClosePool ==
    /\ job = "over"
    /\ ~closed
    /\ closed' = TRUE
    /\ UNCHANGED <<maxConns, idle, active, workerVars, broken, envVars>>

DrainPool ==
    /\ Alive
    /\ closed
    /\ idle # <<>>
    /\ idle' = Tail(idle)
    /\ broken' = broken \ {Head(idle)}
    /\ UNCHANGED <<maxConns, closed, active, workerVars, envVars>>

Next ==
    \/ \E w \in Workers : Alive /\ (BeginFetch(w) \/ Fetch(w) \/ ExchangeEnds(w))
    \/ \E c \in Conns : ServerDrops(c)
    \/ Cancel
    \/ StartFile \/ DownloadReturns \/ WriteFails \/ EndJob
    \/ ClosePool \/ DrainPool

Spec == Init /\ [][Next]_vars

\* Goroutines are scheduled: the workers, of which those of a download that
\* goes on find room for their results, and the engine.  Nothing obliges a
\* server to answer, and a cancelled download may never return, see
\* SegmentPipeline.
Runs(w) ==
    /\ Alive
    /\ Fetch(w) \/ (job = "downloading" /\ FileOf(w) = file /\ BeginFetch(w))

Fairness ==
    /\ \A w \in Workers : WF_vars(Runs(w))
    /\ WF_vars(StartFile \/ EndJob \/ (~cancelled /\ DownloadReturns))

FairSpec == Spec /\ Fairness

-----------------------------------------------------------------------------
(* Properties.                                                             *)

\* A connection is in the channel once, or with one worker, or nowhere: two
\* workers never write commands into the same stream.
OneUser ==
    /\ \A i, k \in 1..Len(idle) : idle[i] = idle[k] => i = k
    /\ \A w \in Workers : client[w] \notin Idle
    /\ \A v, w \in Workers :
          client[v] = client[w] /\ client[v] # None => v = w

\* active, which is counted by hand in five places, is the number of
\* connections that are open or being opened, as long as the pool is in use:
\* no error path loses a place or gives one back twice.  With the bound on
\* active in TypeOK, workers that race for the last place keep the limit of the
\* server's configuration (README: "Per-server connection limits").
Dialing == {w \in Workers : at[w] = "dial"}

CountIsOpen ==
    ~closed => active = Cardinality(Open) + Cardinality(Dialing)

\* Where the server allows as many connections as a download has workers, which
\* downloadFile sees to for the first server of the list, a worker that found
\* the channel empty always finds a place to dial, although it looks at the
\* channel and at the counter in two steps: nobody waits in Get.  This ends
\* with the first write error of the job, which leaves the next download to
\* share the connections with the workers of the last.
NobodyWaits ==
    Cardinality(Slots) <= maxConns /\ abandoned = {}
        => \A w \in Workers : at[w] # "wait"

\* Nobody touches the pool after its close unless a file of the job met a write
\* error (or a panic), however many downloads ago: the workers that it leaves
\* behind put connections into the closed channel, or take nil out of it.
PanicOnlyAfterWriteError == job = "crashed" => abandoned # {}

\* If the servers end every exchange, the downloads over the first server of
\* the list end one after the other, with or without their articles, until a
\* write error or the cancellation of the job: every path on which a
\* connection is lost or not opened leaves a place for the worker that tries
\* next.
ExchangesEnd == \A w \in Workers : []<>~InExchange(w)

PrimaryFetchesEnd ==
    Cardinality(Slots) <= maxConns /\ ExchangesEnd
        => <>(job = "over" \/ cancelled \/ abandoned # {})

=============================================================================
