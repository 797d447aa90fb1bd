---------------------------- MODULE ConnPoolProofs ----------------------------
(***************************************************************************)
(* The pool keeps its books: a connection has one user, the counter is     *)
(* exact, the limit holds, a panic needs a write error, and before the     *)
(* first one nobody waits for the first server of the list, for any number *)
(* of files, workers, connections, retries and segments.                   *)
(***************************************************************************)
EXTENDS ConnPool, FiniteSetTheorems, TLAPS

\* A worker has a connection from the hand-over to the end of Put.
HasClient ==
    \A w \in Workers :
        client[w] # None <=> at[w] \in {"check", "close", "use", "done", "retry"}

\* It is inside Get or Body only with an attempt left.
MayTry ==
    \A w \in Workers : at[w] \notin {"rest", "attempt"} => attempt[w] < MaxRetries

\* After the close the counter is no longer kept, but it does not fall below
\* what is open.
OpenIsCounted == Cardinality(Open) + Cardinality(Dialing) <= active

\* Until a write error each place that is taken, or that a worker is about to
\* ask for because it has found no idle connection, goes back to a worker of
\* its own, of one and the same download.
Counting == {w \in Workers : at[w] = "count"}

OnePlacePerWorker ==
    abandoned = {} => active + Cardinality(Counting) <= Cardinality(Slots)

\* A worker is between the two ends of a fetch, and a segment is left to fetch,
\* only in the file that is being downloaded, in one that a write error has
\* abandoned, or, for a segment, in a cancelled job.
Running(f) == f = file /\ job \in {"downloading", "crashed"}

AtWork ==
    \A w \in Workers :
        at[w] # "rest" => FileOf(w) \in abandoned \/ Running(FileOf(w))

LeftToDo ==
    \A f \in Files : left[f] > 0 => f \in abandoned \/ cancelled \/ Running(f)

FileBegun == job = "downloading" => file \in Files

ClosedAfterUse == closed => job \in {"over", "crashed"}

JobInv ==
    /\ AtWork
    /\ LeftToDo
    /\ FileBegun
    /\ ClosedAfterUse
    /\ PanicOnlyAfterWriteError

IndInv ==
    /\ TypeOK
    /\ OneUser
    /\ HasClient
    /\ MayTry
    /\ OpenIsCounted
    /\ CountIsOpen
    /\ OnePlacePerWorker
    /\ JobInv
    /\ NobodyWaits

-----------------------------------------------------------------------------
(* Sets of connections and of workers.                                     *)

LEMMA WorkerSets ==
    /\ IsFiniteSet(Workers)
    /\ \A w \in Workers : FileOf(w) \in Files
    /\ Cardinality(Slots) \in Nat
<1>1. IsFiniteSet(Files)
  BY NumFilesIsNat, FS_Interval DEF Files
<1>2. IsFiniteSet(Files \X Slots)
  BY <1>1, SlotsAndConns, FS_Product
<1>3. Cardinality(Slots) \in Nat
  BY SlotsAndConns, FS_CardinalityType
<1>. QED
  BY <1>2, <1>3 DEF Workers, FileOf

\* A download has as many workers as there are slots.
Crew(f) == {w \in Workers : FileOf(w) = f}

LEMMA CrewSize ==
    ASSUME NEW f \in Files
    PROVE  IsFiniteSet(Crew(f)) /\ Cardinality(Crew(f)) = Cardinality(Slots)
<1>1. Crew(f) = {f} \X Slots
  BY DEF Crew, Workers, FileOf
<1>2. IsFiniteSet({f}) /\ Cardinality({f}) = 1
  BY FS_Singleton
<1>3. /\ IsFiniteSet({f} \X Slots)
      /\ Cardinality({f} \X Slots) = Cardinality({f}) * Cardinality(Slots)
  BY <1>2, SlotsAndConns, FS_Product
<1>4. 1 * Cardinality(Slots) = Cardinality(Slots)
  BY WorkerSets
<1>. QED
  BY <1>1, <1>2, <1>3, <1>4

LEMMA DisjointUnion ==
    ASSUME NEW S, NEW T, IsFiniteSet(S), IsFiniteSet(T), S \cap T = {}
    PROVE  /\ IsFiniteSet(S \cup T)
           /\ Cardinality(S \cup T) = Cardinality(S) + Cardinality(T)
<1>1. Cardinality(S) \in Nat /\ Cardinality(T) \in Nat /\ Cardinality(S \cap T) = 0
  BY FS_CardinalityType, FS_EmptySet
<1>2. /\ IsFiniteSet(S \cup T)
      /\ Cardinality(S \cup T) = Cardinality(S) + Cardinality(T) - Cardinality(S \cap T)
  BY FS_Union
<1>. QED
  BY <1>1, <1>2

LEMMA Finite ==
    ASSUME TypeOK
    PROVE  /\ Open \subseteq Conns /\ IsFiniteSet(Open) /\ Cardinality(Open) \in Nat
           /\ IsFiniteSet(Dialing) /\ Cardinality(Dialing) \in Nat
           /\ IsFiniteSet(Counting) /\ Cardinality(Counting) \in Nat
<1>1. Open \subseteq Conns
  BY DEF Open, Idle, TypeOK
<1>2. Dialing \subseteq Workers /\ Counting \subseteq Workers
  BY DEF Dialing, Counting
<1>3. IsFiniteSet(Open) /\ IsFiniteSet(Dialing) /\ IsFiniteSet(Counting)
  BY <1>1, <1>2, WorkerSets, SlotsAndConns, FS_Subset
<1>. QED
  BY <1>1, <1>3, FS_CardinalityType

\* A worker's step counts it out of one set and into the other.
LEMMA MoveCounts ==
    ASSUME TypeOK, NEW w \in Workers, NEW from \in Place, NEW to \in Place, from # to,
           Move(w, from, to)
    PROVE  /\ Cardinality(Dialing)' = Cardinality(Dialing) + (IF to = "dial" THEN 1 ELSE 0)
                                                          - (IF from = "dial" THEN 1 ELSE 0)
           /\ Cardinality(Counting)' = Cardinality(Counting) + (IF to = "count" THEN 1 ELSE 0)
                                                            - (IF from = "count" THEN 1 ELSE 0)
           /\ at' \in [Workers -> Place]
           /\ at[w] = from /\ at'[w] = to /\ \A v \in Workers : v # w => at'[v] = at[v]
<1>1. /\ at' \in [Workers -> Place]
      /\ at[w] = from /\ at'[w] = to /\ \A v \in Workers : v # w => at'[v] = at[v]
  BY DEF Move, TypeOK
<1>2. Dialing' = IF to = "dial" THEN Dialing \cup {w} ELSE Dialing \ {w}
  BY <1>1 DEF Dialing
<1>3. Counting' = IF to = "count" THEN Counting \cup {w} ELSE Counting \ {w}
  BY <1>1 DEF Counting
<1>4. (w \in Dialing <=> from = "dial") /\ (w \in Counting <=> from = "count")
  BY <1>1 DEF Dialing, Counting
<1>5. /\ Cardinality(Dialing \cup {w}) = IF w \in Dialing THEN Cardinality(Dialing)
                                                        ELSE Cardinality(Dialing) + 1
      /\ Cardinality(Dialing \ {w}) = IF w \in Dialing THEN Cardinality(Dialing) - 1
                                                      ELSE Cardinality(Dialing)
  BY Finite, FS_AddElement, FS_RemoveElement
<1>6. /\ Cardinality(Counting \cup {w}) = IF w \in Counting THEN Cardinality(Counting)
                                                          ELSE Cardinality(Counting) + 1
      /\ Cardinality(Counting \ {w}) = IF w \in Counting THEN Cardinality(Counting) - 1
                                                        ELSE Cardinality(Counting)
  BY Finite, FS_AddElement, FS_RemoveElement
<1>. QED
  BY <1>1, <1>2, <1>3, <1>4, <1>5, <1>6, Finite

LEMMA SameConnections ==
    ASSUME UNCHANGED <<idle, client>>
    PROVE  Open' = Open /\ Idle' = Idle /\ (OneUser' <=> OneUser)
BY DEF Open, Idle, OneUser

\* The first of the channel goes.
LEMMA TakeFirst ==
    ASSUME TypeOK, OneUser, idle # <<>>, idle' = Tail(idle)
    PROVE  /\ Head(idle) \in Idle /\ Head(idle) \in Conns
           /\ idle' \in Seq(Conns) /\ Len(idle') = Len(idle) - 1
           /\ Idle' = Idle \ {Head(idle)}
           /\ \A i, k \in 1..Len(idle') : idle'[i] = idle'[k] => i = k
<1>1. /\ Len(idle) \in Nat /\ Len(idle) >= 1 /\ Head(idle) = idle[1] /\ idle[1] \in Conns
      /\ idle' \in Seq(Conns) /\ Len(idle') = Len(idle) - 1
      /\ \A i \in 1..Len(idle') : idle'[i] = idle[i + 1]
  BY DEF TypeOK
<1>2. \A i, k \in 1..Len(idle) : idle[i] = idle[k] => i = k
  BY DEF OneUser
<1>3. \A i, k \in 1..Len(idle') : idle'[i] = idle'[k] => i = k
  BY <1>1, <1>2
<1>4. Idle' \subseteq Idle \ {Head(idle)}
  BY <1>1, <1>2 DEF Idle
<1>5. Idle \ {Head(idle)} \subseteq Idle'
  <2> SUFFICES ASSUME NEW i \in 1..Len(idle), idle[i] # idle[1]
               PROVE  idle[i] \in Idle'
    BY <1>1 DEF Idle
  <2>1. i - 1 \in 1..Len(idle') /\ idle'[i - 1] = idle[i]
    BY <1>1
  <2>. QED
    BY <2>1 DEF Idle
<1>6. Head(idle) \in Idle
  BY <1>1 DEF Idle
<1>. QED
  BY <1>1, <1>3, <1>4, <1>5, <1>6

\* A connection is handed to a worker.
LEMMA HandOut ==
    ASSUME TypeOK, OneUser, NEW w \in Workers, client[w] = None, idle # <<>>,
           client' = [client EXCEPT ![w] = Head(idle)], idle' = Tail(idle)
    PROVE  Open' = Open /\ OneUser' /\ client' \in [Workers -> Conns \cup {None}]
<1>1. /\ client'[w] = Head(idle) /\ Head(idle) \in Conns
      /\ \A v \in Workers : v # w => client'[v] = client[v]
      /\ client' \in [Workers -> Conns \cup {None}]
  BY TakeFirst DEF TypeOK
<1>2. Open' = Open
  <2>1. Open' \subseteq Open
    BY <1>1, TakeFirst, SlotsAndConns DEF Open
  <2>2. Open \subseteq Open'
    BY <1>1, TakeFirst, SlotsAndConns DEF Open
  <2>. QED
    BY <2>1, <2>2
<1>3. OneUser'
  BY <1>1, TakeFirst, SlotsAndConns DEF OneUser
<1>. QED
  BY <1>1, <1>2, <1>3

\* A worker hands it back.
LEMMA HandBack ==
    ASSUME TypeOK, OneUser, NEW w \in Workers, client[w] # None,
           client' = [client EXCEPT ![w] = None], idle' = Append(idle, client[w])
    PROVE  /\ Open' = Open /\ OneUser' /\ client' \in [Workers -> Conns \cup {None}]
           /\ idle' \in Seq(Conns) /\ Len(idle') = Len(idle) + 1
<1>1. /\ client'[w] = None /\ client[w] \in Conns
      /\ \A v \in Workers : v # w => client'[v] = client[v]
      /\ client' \in [Workers -> Conns \cup {None}]
  BY DEF TypeOK
<1>2. /\ Len(idle) \in Nat /\ idle' \in Seq(Conns) /\ Len(idle') = Len(idle) + 1
      /\ \A i \in 1..Len(idle) : idle'[i] = idle[i]
      /\ idle'[Len(idle) + 1] = client[w]
  BY <1>1 DEF TypeOK
<1>3. Idle' = Idle \cup {client[w]}
  BY <1>2 DEF Idle
<1>4. client[w] \notin Idle
  BY DEF OneUser
<1>5. \A i, k \in 1..Len(idle') : idle'[i] = idle'[k] => i = k
  <2>1. \A i \in 1..Len(idle) : idle[i] # client[w]
    BY <1>4 DEF Idle
  <2>. QED
    BY <1>2, <2>1 DEF OneUser
<1>6. None \notin Idle'
  BY <1>1, <1>3, SlotsAndConns DEF Idle, TypeOK
<1>7. OneUser'
  BY <1>1, <1>3, <1>5, <1>6 DEF OneUser
<1>8. Open' = Open
  BY <1>1, <1>3 DEF Open
<1>. QED
  BY <1>1, <1>2, <1>7, <1>8

\* A worker's connection is closed.
LEMMA CloseOne ==
    ASSUME TypeOK, OneUser, NEW w \in Workers, client[w] # None,
           client' = [client EXCEPT ![w] = None], idle' = idle
    PROVE  /\ OneUser' /\ client' \in [Workers -> Conns \cup {None}]
           /\ Cardinality(Open)' = Cardinality(Open) - 1
<1>1. /\ client'[w] = None /\ client[w] \in Conns
      /\ \A v \in Workers : v # w => client'[v] = client[v]
      /\ client' \in [Workers -> Conns \cup {None}]
  BY DEF TypeOK
<1>2. Idle' = Idle /\ None \notin Idle
  BY SlotsAndConns DEF Idle, TypeOK
<1>3. OneUser'
  BY <1>1, <1>2 DEF OneUser
<1>4. Open' = Open \ {client[w]} /\ client[w] \in Open
  BY <1>1, <1>2 DEF Open, OneUser
<1>. QED
  BY <1>1, <1>3, <1>4, Finite, FS_RemoveElement

\* A worker opens one.
LEMMA OpenOne ==
    ASSUME TypeOK, OneUser, NEW w \in Workers, client[w] = None, NEW c \in Conns \ Open,
           client' = [client EXCEPT ![w] = c], idle' = idle
    PROVE  /\ OneUser' /\ client' \in [Workers -> Conns \cup {None}]
           /\ Cardinality(Open)' = Cardinality(Open) + 1
<1>1. /\ client'[w] = c /\ c # None
      /\ \A v \in Workers : v # w => client'[v] = client[v]
      /\ client' \in [Workers -> Conns \cup {None}]
  BY SlotsAndConns DEF TypeOK
<1>2. Idle' = Idle /\ c \notin Idle /\ \A v \in Workers : client[v] # c
  BY <1>1 DEF Idle, Open
<1>3. OneUser'
  BY <1>1, <1>2 DEF OneUser
<1>4. Open' = Open \cup {c}
  BY <1>1, <1>2 DEF Open
<1>. QED
  BY <1>1, <1>3, <1>4, Finite, FS_AddElement

-----------------------------------------------------------------------------
(* The steps of a worker.                                                  *)

\* A worker's step leaves the pool open or closed and the job as it is.  Of a
\* worker that is between two segments it needs that its file has segments left.
LEMMA JobGoesOn ==
    ASSUME IndInv, NEW w \in Workers,
           at[w] # "rest" \/ (left[FileOf(w)] > 0 /\ ~cancelled),
           \A v \in Workers : v # w => at'[v] = at[v],
           \A f \in Files : left'[f] > 0 => left[f] > 0,
           UNCHANGED <<closed, cancelled, jobVars>>
    PROVE  JobInv'
<1>1. UNCHANGED <<closed, cancelled, file, abandoned, job>>
  BY DEF jobVars
<1>2. FileOf(w) \in abandoned \/ Running(FileOf(w))
  BY WorkerSets DEF IndInv, JobInv, AtWork, LeftToDo
<1>3. AtWork'
  BY <1>1, <1>2 DEF IndInv, JobInv, AtWork, Running
<1>4. LeftToDo'
  BY <1>1 DEF IndInv, JobInv, LeftToDo, Running
<1>. QED
  BY <1>1, <1>3, <1>4 DEF IndInv, JobInv, FileBegun, ClosedAfterUse, PanicOnlyAfterWriteError

\* What the counters need, from what a step does to them.
LEMMA CountersKept ==
    ASSUME IndInv, TypeOK', UNCHANGED <<closed, abandoned>>, NEW d \in Int, NEW c \in Int, NEW o \in Int,
           Cardinality(Open)' = Cardinality(Open) + o,
           Cardinality(Dialing)' = Cardinality(Dialing) + d,
           Cardinality(Counting)' = Cardinality(Counting) + c,
           active' = active + o + d,
           o + d + c <= 0
    PROVE  OpenIsCounted' /\ CountIsOpen' /\ OnePlacePerWorker'
<1>1. active \in Int
  BY DEF IndInv, TypeOK
<1>. QED
  BY <1>1, WorkerSets, Finite DEF IndInv, OpenIsCounted, CountIsOpen, OnePlacePerWorker

\* A step to anywhere but "wait".
LEMMA NobodyStartsWaiting ==
    ASSUME IndInv, UNCHANGED <<maxConns, abandoned>>, \A v \in Workers : at'[v] = at[v] \/ at'[v] # "wait"
    PROVE  NobodyWaits'
BY DEF IndInv, NobodyWaits

\* The steps that only move the worker.
LEMMA OnlyMoves ==
    ASSUME IndInv, NEW w \in Workers, NEW from \in Place, NEW to \in Place,
           from # to, to # "wait", Move(w, from, to),
           from \in {"check", "close", "use", "done", "retry"}
              <=> to \in {"check", "close", "use", "done", "retry"},
           to = "dial" <=> from = "dial",
           to = "count" => from = "count",
           from # "rest" \/ (left[FileOf(w)] > 0 /\ ~cancelled),
           UNCHANGED <<poolVars, client, jobVars>>,
           broken' \subseteq Conns, left' \in [Files -> 0..NumFetches], fetched' \in BOOLEAN,
           \A f \in Files : left'[f] > 0 => left[f] > 0,
           cancelled' = cancelled,
           attempt' \in [Workers -> 0..MaxRetries],
           \A v \in Workers : v # w => attempt'[v] = attempt[v],
           to \notin {"rest", "attempt"} => attempt'[w] < MaxRetries
    PROVE  IndInv'
<1>. USE DEF IndInv
<1>1. /\ at' \in [Workers -> Place]
      /\ at[w] = from /\ at'[w] = to /\ \A v \in Workers : v # w => at'[v] = at[v]
  BY MoveCounts
<1>2. TypeOK'
  BY <1>1 DEF TypeOK, poolVars, jobVars
<1>3. Open' = Open /\ OneUser'
  BY SameConnections DEF poolVars
<1>4. HasClient' /\ MayTry'
  BY <1>1 DEF HasClient, MayTry
<1>5. OpenIsCounted' /\ CountIsOpen' /\ OnePlacePerWorker'
  <2>1. Cardinality(Dialing)' = Cardinality(Dialing)
    BY MoveCounts, Finite
  <2>2. Cardinality(Counting)' \in Int /\ Cardinality(Counting)' <= Cardinality(Counting)
    BY MoveCounts, Finite
  <2>3. active \in Int
    BY DEF TypeOK
  <2>. QED
    BY <1>3, <2>1, <2>2, <2>3, WorkerSets, Finite
    DEF OpenIsCounted, CountIsOpen, OnePlacePerWorker, poolVars, jobVars
<1>6. NobodyWaits'
  BY <1>1, NobodyStartsWaiting DEF poolVars, jobVars
<1>7. JobInv'
  BY <1>1, JobGoesOn DEF poolVars
<1>. QED
  BY <1>2, <1>3, <1>4, <1>5, <1>6, <1>7

LEMMA BeginFetchStep ==
    ASSUME IndInv, NEW w \in Workers, BeginFetch(w)
    PROVE  IndInv'
<1>1. /\ Move(w, "rest", "attempt") /\ left[FileOf(w)] > 0 /\ ~cancelled
      /\ left' = [left EXCEPT ![FileOf(w)] = @ - 1]
      /\ UNCHANGED <<poolVars, client, attempt, broken, fetched, cancelled, jobVars>>
  BY DEF BeginFetch
<1>2. /\ left' \in [Files -> 0..NumFetches]
      /\ \A f \in Files : left'[f] > 0 => left[f] > 0
  BY <1>1, NumFetchesIsNat, WorkerSets DEF IndInv, TypeOK
<1>. QED
  BY <1>1, <1>2, OnlyMoves DEF Place, IndInv, TypeOK

LEMMA GiveUpStep ==
    ASSUME IndInv, NEW w \in Workers, GiveUp(w)
    PROVE  IndInv'
<1>1. /\ Move(w, "attempt", "rest") /\ attempt' = [attempt EXCEPT ![w] = 0]
      /\ UNCHANGED <<poolVars, client, broken, envVars>>
  BY DEF GiveUp
<1>2. attempt' \in [Workers -> 0..MaxRetries] /\ \A v \in Workers : v # w => attempt'[v] = attempt[v]
  BY <1>1, MaxRetriesIsNat DEF IndInv, TypeOK
<1>. QED
  BY <1>1, <1>2, OnlyMoves DEF Place, IndInv, TypeOK, envVars

LEMMA IsAliveStep ==
    ASSUME IndInv, NEW w \in Workers, IsAlive(w)
    PROVE  IndInv'
<1>1. Move(w, "check", "use") /\ UNCHANGED <<poolVars, client, attempt, broken, envVars>>
  BY DEF IsAlive
<1>2. attempt[w] < MaxRetries
  BY <1>1 DEF Move, IndInv, MayTry
<1>. QED
  BY <1>1, <1>2, OnlyMoves DEF Place, IndInv, TypeOK, envVars

LEMMA IsDeadStep ==
    ASSUME IndInv, NEW w \in Workers, IsDead(w)
    PROVE  IndInv'
<1>1. Move(w, "check", "close") /\ UNCHANGED <<poolVars, client, attempt, broken, envVars>>
  BY DEF IsDead
<1>2. attempt[w] < MaxRetries
  BY <1>1 DEF Move, IndInv, MayTry
<1>. QED
  BY <1>1, <1>2, OnlyMoves DEF Place, IndInv, TypeOK, envVars

LEMMA WaitIsCancelledStep ==
    ASSUME IndInv, NEW w \in Workers, WaitIsCancelled(w)
    PROVE  IndInv'
<1>1. /\ Move(w, "wait", "attempt") /\ attempt' = [attempt EXCEPT ![w] = @ + 1]
      /\ UNCHANGED <<poolVars, client, broken, envVars>>
  BY DEF WaitIsCancelled
<1>2. attempt[w] < MaxRetries
  BY <1>1 DEF Move, IndInv, MayTry
<1>3. attempt' \in [Workers -> 0..MaxRetries] /\ \A v \in Workers : v # w => attempt'[v] = attempt[v]
  BY <1>1, <1>2, MaxRetriesIsNat DEF IndInv, TypeOK
<1>. QED
  BY <1>1, <1>2, <1>3, OnlyMoves DEF Place, IndInv, TypeOK, envVars

LEMMA BodyReturnsStep ==
    ASSUME IndInv, NEW w \in Workers, BodyReturns(w)
    PROVE  IndInv'
<1>1. UNCHANGED <<poolVars, client, attempt, envVars>>
  BY DEF BodyReturns
<1>2. at[w] = "use"
  BY DEF BodyReturns, Move
<1>3. attempt[w] < MaxRetries
  BY <1>2 DEF IndInv, MayTry
<1>4. broken' \subseteq Conns
  <2>1. client[w] \in Conns
    BY <1>2 DEF IndInv, HasClient, TypeOK
  <2>. QED
    BY <2>1 DEF BodyReturns, IndInv, TypeOK
<1>5. CASE Move(w, "use", "done")
  BY <1>1, <1>3, <1>4, <1>5, OnlyMoves DEF Place, IndInv, TypeOK, envVars
<1>6. CASE Move(w, "use", "retry")
  BY <1>1, <1>3, <1>4, <1>6, OnlyMoves DEF Place, IndInv, TypeOK, envVars
<1>. QED
  BY <1>5, <1>6 DEF BodyReturns

\* The worker found no idle connection, so that every open one has another
\* worker, and it may ask for a place of its own.
LEMMA GetNoneStep ==
    ASSUME IndInv, NEW w \in Workers, GetNone(w)
    PROVE  IndInv'
<1>. USE DEF IndInv
<1>1. /\ Move(w, "attempt", "count") /\ Trying(w) /\ idle = <<>> /\ ~closed
      /\ UNCHANGED <<poolVars, client, attempt, broken, envVars>>
  BY DEF GetNone
<1>2. /\ at' \in [Workers -> Place]
      /\ at[w] = "attempt" /\ at'[w] = "count" /\ \A v \in Workers : v # w => at'[v] = at[v]
      /\ Cardinality(Dialing)' = Cardinality(Dialing)
      /\ Cardinality(Counting)' = Cardinality(Counting) + 1
  BY <1>1, MoveCounts, Finite DEF Place
<1>3. TypeOK'
  BY <1>1, <1>2 DEF TypeOK, poolVars, envVars, jobVars
<1>4. Open' = Open /\ OneUser'
  BY <1>1, SameConnections DEF poolVars
<1>5. HasClient' /\ MayTry'
  BY <1>1, <1>2 DEF HasClient, MayTry, Trying
<1>6. OpenIsCounted' /\ CountIsOpen'
  BY <1>1, <1>2, <1>4 DEF OpenIsCounted, CountIsOpen, poolVars
<1>7. ASSUME abandoned = {}
      PROVE  active + Cardinality(Counting) + 1 <= Cardinality(Slots)
  <2>. DEFINE Users == {v \in Workers : client[v] # None}
              f == [v \in Users |-> client[v]]
              Others == Crew(file) \ {w}
  <2>0. /\ file \in Files /\ FileOf(w) = file
        /\ \A v \in Workers : at[v] # "rest" => FileOf(v) = file
    BY <1>2, <1>7, WorkerSets DEF JobInv, AtWork, Running
  <2>1. Open = {client[v] : v \in Users}
    BY <1>1 DEF Open, Idle
  <2>2. f \in Surjection(Users, Open)
    BY <2>1 DEF Surjection
  <2>3. /\ IsFiniteSet(Users) /\ IsFiniteSet(Others)
        /\ Cardinality(Others) = Cardinality(Slots) - 1
        /\ Cardinality(Users) \in Nat
    <3>1. w \in Crew(file) /\ IsFiniteSet(Crew(file)) /\ Cardinality(Crew(file)) = Cardinality(Slots)
      BY <2>0, CrewSize DEF Crew
    <3>. QED
      BY <3>1, WorkerSets, FS_Subset, FS_RemoveElement, FS_CardinalityType
  <2>4. Cardinality(Open) <= Cardinality(Users)
    BY <2>2, <2>3, FS_Surjection
  <2>5. /\ Users \cap Dialing = {} /\ Users \cap Counting = {} /\ Dialing \cap Counting = {}
        /\ Users \cup Dialing \cup Counting \subseteq Others
    BY <1>2, <2>0 DEF HasClient, Dialing, Counting, Crew
  <2>. HIDE DEF Users, Others
  <2>6. /\ IsFiniteSet(Users \cup Dialing)
        /\ Cardinality(Users \cup Dialing) = Cardinality(Users) + Cardinality(Dialing)
    BY <2>3, <2>5, Finite, DisjointUnion
  <2>7. (Users \cup Dialing) \cap Counting = {}
    BY <2>5
  <2>8. Cardinality(Users \cup Dialing \cup Counting)
           = Cardinality(Users) + Cardinality(Dialing) + Cardinality(Counting)
    BY <2>6, <2>7, Finite, DisjointUnion
  <2>9. Cardinality(Users \cup Dialing \cup Counting) <= Cardinality(Slots) - 1
    BY <2>3, <2>5, FS_Subset
  <2>10. active = Cardinality(Open) + Cardinality(Dialing)
    BY <1>1 DEF CountIsOpen
  <2>. QED
    BY <2>3, <2>4, <2>8, <2>9, <2>10, WorkerSets, Finite
<1>10. OnePlacePerWorker'
  <2>1. UNCHANGED <<active, abandoned>> /\ active \in Int
    BY <1>1 DEF poolVars, envVars, jobVars, TypeOK
  <2>. QED
    BY <1>2, <1>7, <2>1, WorkerSets, Finite DEF OnePlacePerWorker
<1>8. NobodyWaits'
  BY <1>1, <1>2, NobodyStartsWaiting DEF poolVars, envVars, jobVars
<1>9. JobInv'
  BY <1>1, <1>2, JobGoesOn DEF poolVars, envVars
<1>. QED
  BY <1>3, <1>4, <1>5, <1>6, <1>8, <1>9, <1>10

LEMMA GetIdleStep ==
    ASSUME IndInv, NEW w \in Workers, GetIdle(w)
    PROVE  IndInv'
<1>. USE DEF IndInv
<1>1. /\ Move(w, "attempt", "check") /\ Trying(w) /\ idle # <<>>
      /\ client' = [client EXCEPT ![w] = Head(idle)]
      /\ idle' = Tail(idle)
      /\ UNCHANGED <<maxConns, closed, active, attempt, broken, envVars>>
  BY DEF GetIdle
<1>2. /\ at' \in [Workers -> Place]
      /\ at[w] = "attempt" /\ at'[w] = "check" /\ \A v \in Workers : v # w => at'[v] = at[v]
      /\ Cardinality(Dialing)' = Cardinality(Dialing)
      /\ Cardinality(Counting)' = Cardinality(Counting)
  BY <1>1, MoveCounts, Finite DEF Place
<1>3. client[w] = None
  BY <1>2 DEF HasClient
<1>4. /\ Open' = Open /\ OneUser' /\ client' \in [Workers -> Conns \cup {None}]
      /\ idle' \in Seq(Conns) /\ Len(idle') = Len(idle) - 1 /\ Head(idle) # None
  BY <1>1, <1>3, HandOut, TakeFirst, SlotsAndConns
<1>5. TypeOK'
  BY <1>1, <1>2, <1>4, SlotsAndConns DEF TypeOK, envVars, jobVars
<1>6. HasClient' /\ MayTry'
  BY <1>1, <1>2, <1>4 DEF HasClient, MayTry, Trying, TypeOK
<1>7. OpenIsCounted' /\ CountIsOpen' /\ OnePlacePerWorker'
  BY <1>1, <1>2, <1>4 DEF OpenIsCounted, CountIsOpen, OnePlacePerWorker, envVars, jobVars
<1>8. NobodyWaits'
  BY <1>1, <1>2, NobodyStartsWaiting DEF envVars, jobVars
<1>9. JobInv'
  BY <1>1, <1>2, JobGoesOn DEF envVars
<1>. QED
  BY <1>4, <1>5, <1>6, <1>7, <1>8, <1>9

LEMMA WaitEndsStep ==
    ASSUME IndInv, NEW w \in Workers, WaitEnds(w)
    PROVE  IndInv'
<1>. USE DEF IndInv
<1>1. /\ Move(w, "wait", "use") /\ idle # <<>>
      /\ client' = [client EXCEPT ![w] = Head(idle)]
      /\ idle' = Tail(idle)
      /\ UNCHANGED <<maxConns, closed, active, attempt, broken, envVars>>
  BY DEF WaitEnds
<1>2. /\ at' \in [Workers -> Place]
      /\ at[w] = "wait" /\ at'[w] = "use" /\ \A v \in Workers : v # w => at'[v] = at[v]
      /\ Cardinality(Dialing)' = Cardinality(Dialing)
      /\ Cardinality(Counting)' = Cardinality(Counting)
  BY <1>1, MoveCounts, Finite DEF Place
<1>3. client[w] = None
  BY <1>2 DEF HasClient
<1>4. /\ Open' = Open /\ OneUser' /\ client' \in [Workers -> Conns \cup {None}]
      /\ idle' \in Seq(Conns) /\ Len(idle') = Len(idle) - 1 /\ Head(idle) # None
  BY <1>1, <1>3, HandOut, TakeFirst, SlotsAndConns
<1>5. TypeOK'
  BY <1>1, <1>2, <1>4, SlotsAndConns DEF TypeOK, envVars, jobVars
<1>6. HasClient' /\ MayTry'
  BY <1>1, <1>2, <1>4 DEF HasClient, MayTry, TypeOK
<1>7. OpenIsCounted' /\ CountIsOpen' /\ OnePlacePerWorker'
  BY <1>1, <1>2, <1>4 DEF OpenIsCounted, CountIsOpen, OnePlacePerWorker, envVars, jobVars
<1>8. NobodyWaits'
  BY <1>1, <1>2, NobodyStartsWaiting DEF envVars, jobVars
<1>9. JobInv'
  BY <1>1, <1>2, JobGoesOn DEF envVars
<1>. QED
  BY <1>4, <1>5, <1>6, <1>7, <1>8, <1>9

\* A worker closes the dead connection that it was handed, and gives back its
\* place.
LEMMA CloseEndsStep ==
    ASSUME IndInv, NEW w \in Workers, CloseEnds(w)
    PROVE  IndInv'
<1>. USE DEF IndInv
<1>1. /\ Move(w, "close", "count")
      /\ client' = [client EXCEPT ![w] = None]
      /\ broken' = broken \ {client[w]}
      /\ active' = active - 1
      /\ UNCHANGED <<maxConns, idle, closed, attempt, envVars>>
  BY DEF CloseEnds
<1>2. /\ at' \in [Workers -> Place]
      /\ at[w] = "close" /\ at'[w] = "count" /\ \A v \in Workers : v # w => at'[v] = at[v]
      /\ Cardinality(Dialing)' = Cardinality(Dialing) + 0
      /\ Cardinality(Counting)' = Cardinality(Counting) + 1
  BY <1>1, MoveCounts, Finite DEF Place
<1>3. client[w] # None
  BY <1>2 DEF HasClient
<1>4. /\ OneUser' /\ client' \in [Workers -> Conns \cup {None}]
      /\ Cardinality(Open)' = Cardinality(Open) + (-1)
  BY <1>1, <1>3, CloseOne, Finite
<1>5. active' \in 0..maxConns
  <2>1. Cardinality(Open) >= 1
    <3>1. Open # {}
      BY <1>3 DEF Open
    <3>. QED
      BY <3>1, Finite, FS_EmptySet
  <2>. QED
    BY <1>1, <2>1, Finite, SlotsAndConns DEF OpenIsCounted, TypeOK
<1>6. TypeOK'
  BY <1>1, <1>2, <1>4, <1>5 DEF TypeOK, envVars, jobVars
<1>7. HasClient' /\ MayTry'
  BY <1>1, <1>2, <1>4 DEF HasClient, MayTry, TypeOK
<1>8. OpenIsCounted' /\ CountIsOpen' /\ OnePlacePerWorker'
  <2>1. active' = active + (-1) + 0 /\ (-1) + 0 + 1 <= 0
    BY <1>1 DEF TypeOK
  <2>. QED
    BY <1>1, <1>2, <1>4, <1>6, <2>1, CountersKept DEF envVars, jobVars
<1>9. NobodyWaits' /\ JobInv'
  BY <1>1, <1>2, JobGoesOn, NobodyStartsWaiting DEF envVars, jobVars
<1>. QED
  BY <1>4, <1>6, <1>7, <1>8, <1>9

\* With a place for every worker, the one that asks finds a place.
LEMMA CountStep ==
    ASSUME IndInv, NEW w \in Workers, Count(w)
    PROVE  IndInv'
<1>. USE DEF IndInv
<1>1. /\ at[w] = "count"
      /\ UNCHANGED <<maxConns, idle, closed, client, attempt, broken, envVars>>
  BY DEF Count
<1>2. Open' = Open /\ OneUser'
  BY <1>1, SameConnections
<1>3. UNCHANGED <<closed, abandoned>>
  BY <1>1 DEF envVars, jobVars
<1>4. CASE active >= maxConns
  <2>1. Move(w, "count", "wait") /\ active' = active
    BY <1>4 DEF Count
  <2>2. /\ at' \in [Workers -> Place]
        /\ at'[w] = "wait" /\ \A v \in Workers : v # w => at'[v] = at[v]
        /\ Cardinality(Dialing)' = Cardinality(Dialing) + 0
        /\ Cardinality(Counting)' = Cardinality(Counting) + (-1)
    BY <2>1, MoveCounts, Finite DEF Place
  <2>3. TypeOK'
    BY <1>1, <2>1, <2>2 DEF TypeOK, envVars, jobVars
  <2>4. HasClient' /\ MayTry'
    BY <1>1, <2>2 DEF HasClient, MayTry
  <2>5. OpenIsCounted' /\ CountIsOpen' /\ OnePlacePerWorker'
    <3>1. Cardinality(Open)' = Cardinality(Open) + 0 /\ active' = active + 0 + 0 /\ 0 + 0 + (-1) <= 0
      BY <1>2, <2>1, Finite DEF TypeOK
    <3>. QED
      BY <1>1, <1>3, <2>2, <2>3, <3>1, CountersKept
  <2>6. ~(Cardinality(Slots) <= maxConns /\ abandoned = {})
    <3>1. Cardinality(Counting) >= 1
      <4>1. Counting # {}
        BY <1>1 DEF Counting
      <4>. QED
        BY <4>1, Finite, FS_EmptySet
    <3>. QED
      BY <1>4, <3>1, WorkerSets, Finite, SlotsAndConns DEF OnePlacePerWorker, TypeOK
  <2>7. NobodyWaits'
    BY <1>1, <1>3, <2>6 DEF NobodyWaits
  <2>8. JobInv'
    BY <1>1, <2>2, JobGoesOn DEF envVars
  <2>. QED
    BY <1>2, <2>3, <2>4, <2>5, <2>7, <2>8
<1>5. CASE ~(active >= maxConns)
  <2>1. Move(w, "count", "dial") /\ active' = active + 1
    BY <1>5 DEF Count
  <2>2. /\ at' \in [Workers -> Place]
        /\ at'[w] = "dial" /\ \A v \in Workers : v # w => at'[v] = at[v]
        /\ Cardinality(Dialing)' = Cardinality(Dialing) + 1
        /\ Cardinality(Counting)' = Cardinality(Counting) + (-1)
    BY <2>1, MoveCounts, Finite DEF Place
  <2>3. active' \in 0..maxConns
    BY <1>5, <2>1, SlotsAndConns DEF TypeOK
  <2>4. TypeOK'
    BY <1>1, <2>2, <2>3 DEF TypeOK, envVars, jobVars
  <2>5. HasClient' /\ MayTry'
    BY <1>1, <2>2 DEF HasClient, MayTry
  <2>6. OpenIsCounted' /\ CountIsOpen' /\ OnePlacePerWorker'
    <3>1. Cardinality(Open)' = Cardinality(Open) + 0 /\ active' = active + 0 + 1 /\ 0 + 1 + (-1) <= 0
      BY <1>2, <2>1, Finite DEF TypeOK
    <3>. QED
      BY <1>1, <1>3, <2>2, <2>4, <3>1, CountersKept
  <2>7. NobodyWaits' /\ JobInv'
    BY <1>1, <1>3, <2>2, JobGoesOn, NobodyStartsWaiting DEF envVars
  <2>. QED
    BY <1>2, <2>4, <2>5, <2>6, <2>7
<1>. QED
  BY <1>4, <1>5

LEMMA DialSucceedsStep ==
    ASSUME IndInv, NEW w \in Workers, DialSucceeds(w)
    PROVE  IndInv'
<1>. USE DEF IndInv
<1>1. PICK c \in Conns \ Open : client' = [client EXCEPT ![w] = c]
  BY DEF DialSucceeds
<1>2. Move(w, "dial", "use") /\ UNCHANGED <<poolVars, attempt, broken, envVars>>
  BY DEF DialSucceeds
<1>3. /\ at' \in [Workers -> Place]
      /\ at[w] = "dial" /\ at'[w] = "use" /\ \A v \in Workers : v # w => at'[v] = at[v]
      /\ Cardinality(Dialing)' = Cardinality(Dialing) + (-1)
      /\ Cardinality(Counting)' = Cardinality(Counting) + 0
  BY <1>2, MoveCounts, Finite DEF Place
<1>4. client[w] = None
  BY <1>3 DEF HasClient
<1>5. /\ OneUser' /\ client' \in [Workers -> Conns \cup {None}]
      /\ Cardinality(Open)' = Cardinality(Open) + 1
  BY <1>1, <1>2, <1>4, OpenOne DEF poolVars
<1>6. TypeOK'
  BY <1>2, <1>3, <1>5 DEF TypeOK, poolVars, envVars, jobVars
<1>7. HasClient' /\ MayTry'
  BY <1>1, <1>2, <1>3, SlotsAndConns DEF HasClient, MayTry, TypeOK
<1>8. OpenIsCounted' /\ CountIsOpen' /\ OnePlacePerWorker'
  <2>1. active' = active + 1 + (-1) /\ 1 + (-1) + 0 <= 0
    BY <1>2 DEF TypeOK, poolVars
  <2>. QED
    BY <1>2, <1>3, <1>5, <1>6, <2>1, CountersKept DEF poolVars, envVars, jobVars
<1>9. NobodyWaits' /\ JobInv'
  BY <1>2, <1>3, JobGoesOn, NobodyStartsWaiting DEF poolVars, envVars, jobVars
<1>. QED
  BY <1>5, <1>6, <1>7, <1>8, <1>9

LEMMA DialFailsStep ==
    ASSUME IndInv, NEW w \in Workers, DialFails(w)
    PROVE  IndInv'
<1>. USE DEF IndInv
<1>1. /\ Move(w, "dial", "attempt")
      /\ active' = active - 1
      /\ attempt' = [attempt EXCEPT ![w] = @ + 1]
      /\ UNCHANGED <<maxConns, idle, closed, client, broken, envVars>>
  BY DEF DialFails
<1>2. /\ at' \in [Workers -> Place]
      /\ at[w] = "dial" /\ at'[w] = "attempt" /\ \A v \in Workers : v # w => at'[v] = at[v]
      /\ Cardinality(Dialing)' = Cardinality(Dialing) + (-1)
      /\ Cardinality(Counting)' = Cardinality(Counting) + 0
  BY <1>1, MoveCounts, Finite DEF Place
<1>3. attempt' \in [Workers -> 0..MaxRetries] /\ \A v \in Workers : v # w => attempt'[v] = attempt[v]
  <2>1. attempt[w] < MaxRetries
    BY <1>2 DEF MayTry
  <2>. QED
    BY <1>1, <2>1, MaxRetriesIsNat DEF TypeOK
<1>4. Open' = Open /\ OneUser'
  BY <1>1, SameConnections
<1>5. active' \in 0..maxConns
  <2>1. Cardinality(Dialing) >= 1
    <3>1. Dialing # {}
      BY <1>2 DEF Dialing
    <3>. QED
      BY <3>1, Finite, FS_EmptySet
  <2>. QED
    BY <1>1, <2>1, Finite, SlotsAndConns DEF OpenIsCounted, TypeOK
<1>6. TypeOK'
  BY <1>1, <1>2, <1>3, <1>5 DEF TypeOK, envVars, jobVars
<1>7. HasClient' /\ MayTry'
  BY <1>1, <1>2, <1>3 DEF HasClient, MayTry
<1>8. OpenIsCounted' /\ CountIsOpen' /\ OnePlacePerWorker'
  <2>1. Cardinality(Open)' = Cardinality(Open) + 0 /\ active' = active + 0 + (-1) /\ 0 + (-1) + 0 <= 0
    BY <1>1, <1>4, Finite DEF TypeOK
  <2>. QED
    BY <1>1, <1>2, <1>6, <2>1, CountersKept DEF envVars, jobVars
<1>9. NobodyWaits' /\ JobInv'
  BY <1>1, <1>2, JobGoesOn, NobodyStartsWaiting DEF envVars, jobVars
<1>. QED
  BY <1>4, <1>6, <1>7, <1>8, <1>9

\* Put sends the connection to the channel, or closes it, and the worker goes on
\* to the next attempt or segment.
LEMMA PutStep ==
    ASSUME IndInv, NEW w \in Workers, Put(w)
    PROVE  IndInv'
<1>. USE DEF IndInv
<1>1. /\ at[w] \in {"done", "retry"} /\ ~closed
      /\ client' = [client EXCEPT ![w] = None]
      /\ AfterPut(w)
      /\ UNCHANGED <<maxConns, closed, left, cancelled, jobVars>>
  BY DEF Put, Putting
<1>2. PICK to \in {"rest", "attempt"} :
         /\ Move(w, at[w], to)
         /\ \/ attempt' = [attempt EXCEPT ![w] = 0]
            \/ attempt' = [attempt EXCEPT ![w] = @ + 1]
         /\ fetched' \in BOOLEAN
  BY <1>1 DEF AfterPut, TypeOK
<1>3. /\ at' \in [Workers -> Place]
      /\ at'[w] = to /\ \A v \in Workers : v # w => at'[v] = at[v]
      /\ Cardinality(Dialing)' = Cardinality(Dialing) + 0
      /\ Cardinality(Counting)' = Cardinality(Counting) + 0
  <2>1. at[w] \in Place /\ to \in Place /\ at[w] # to /\ at[w] \notin {"dial", "count"}
    BY <1>1 DEF Place
  <2>. QED
    BY <1>1, <1>2, <2>1, MoveCounts, Finite
<1>4. client[w] # None /\ client[w] \in Open
  <2>1. client[w] # None
    BY <1>1 DEF HasClient
  <2>. QED
    BY <2>1 DEF Open
<1>5. attempt' \in [Workers -> 0..MaxRetries] /\ \A v \in Workers : v # w => attempt'[v] = attempt[v]
  <2>1. attempt[w] < MaxRetries
    BY <1>1 DEF MayTry
  <2>2. attempt \in [Workers -> 0..MaxRetries] /\ 0 \in 0..MaxRetries /\ attempt[w] + 1 \in 0..MaxRetries
    BY <2>1, MaxRetriesIsNat DEF TypeOK
  <2>. QED
    BY <1>2, <2>2
<1>6. JobInv' /\ NobodyWaits' /\ UNCHANGED <<closed, abandoned>>
  BY <1>1, <1>3, JobGoesOn, NobodyStartsWaiting DEF jobVars
<1>7. CASE Len(idle) < maxConns
  <2>1. idle' = Append(idle, client[w]) /\ UNCHANGED <<active, broken>>
    BY <1>7 DEF Put
  <2>2. /\ Open' = Open /\ OneUser' /\ client' \in [Workers -> Conns \cup {None}]
        /\ idle' \in Seq(Conns) /\ Len(idle') = Len(idle) + 1
    BY <1>1, <1>4, <2>1, HandBack
  <2>3. Len(idle') <= maxConns
    BY <1>7, <2>2, SlotsAndConns DEF TypeOK
  <2>4. TypeOK'
    BY <1>1, <1>2, <1>3, <1>5, <2>1, <2>2, <2>3 DEF TypeOK, jobVars
  <2>5. HasClient' /\ MayTry'
    BY <1>1, <1>3, <1>5 DEF HasClient, MayTry, TypeOK
  <2>6. OpenIsCounted' /\ CountIsOpen' /\ OnePlacePerWorker'
    <3>1. Cardinality(Open)' = Cardinality(Open) + 0 /\ active' = active + 0 + 0 /\ 0 + 0 + 0 <= 0
      BY <2>1, <2>2, Finite DEF TypeOK
    <3>. QED
      BY <1>1, <1>3, <1>6, <2>4, <3>1, CountersKept
  <2>. QED
    BY <1>6, <2>2, <2>4, <2>5, <2>6
<1>8. CASE ~(Len(idle) < maxConns)
  <2>1. active' = active - 1 /\ broken' = broken \ {client[w]} /\ idle' = idle
    BY <1>8 DEF Put
  <2>2. /\ OneUser' /\ client' \in [Workers -> Conns \cup {None}]
        /\ Cardinality(Open)' = Cardinality(Open) + (-1)
    BY <1>1, <1>4, <2>1, CloseOne, Finite
  <2>3. active' \in 0..maxConns
    <3>1. Cardinality(Open) >= 1
      BY <1>4, Finite, FS_EmptySet
    <3>. QED
      BY <2>1, <3>1, Finite, SlotsAndConns DEF OpenIsCounted, TypeOK
  <2>4. TypeOK'
    BY <1>1, <1>2, <1>3, <1>5, <2>1, <2>2, <2>3 DEF TypeOK, jobVars
  <2>5. HasClient' /\ MayTry'
    BY <1>1, <1>3, <1>5 DEF HasClient, MayTry, TypeOK
  <2>6. OpenIsCounted' /\ CountIsOpen' /\ OnePlacePerWorker'
    <3>1. active' = active + (-1) + 0 /\ (-1) + 0 + 0 <= 0
      BY <2>1 DEF TypeOK
    <3>. QED
      BY <1>1, <1>3, <1>6, <2>2, <2>4, <3>1, CountersKept
  <2>. QED
    BY <1>6, <2>2, <2>4, <2>5, <2>6
<1>. QED
  BY <1>7, <1>8

-----------------------------------------------------------------------------
(* The steps that leave workers and connections in place.                  *)

\* The job, the context and what the server has dropped: the workers and the
\* pool's books are as before.
LEMMA BooksUntouched ==
    ASSUME IndInv, UNCHANGED <<poolVars, workerVars>>,
           abandoned' = abandoned \/ abandoned' # {}
    PROVE  /\ OneUser' /\ HasClient' /\ MayTry' /\ OpenIsCounted' /\ CountIsOpen'
           /\ OnePlacePerWorker' /\ NobodyWaits'
<1>1. Open' = Open /\ Dialing' = Dialing /\ Counting' = Counting /\ OneUser'
  BY SameConnections DEF poolVars, workerVars, IndInv, Dialing, Counting
<1>. QED
  BY <1>1 DEF IndInv, poolVars, workerVars, HasClient, MayTry, OpenIsCounted, CountIsOpen,
     OnePlacePerWorker, NobodyWaits

\* A panic needs a closed channel and a worker that is not done: the job is over,
\* and the worker's file was abandoned.
LEMMA CrashStep ==
    ASSUME IndInv, Alive, NEW w \in Workers, GetNil(w) \/ WaitNil(w) \/ PutOnClosed(w)
    PROVE  IndInv'
<1>1. closed /\ at[w] # "rest" /\ Crash
  BY DEF GetNil, WaitNil, PutOnClosed, Putting
<1>2. /\ UNCHANGED <<poolVars, workerVars, broken, left, fetched, cancelled, file, abandoned>>
      /\ job' = "crashed"
  BY <1>1 DEF Crash
<1>3. job = "over"
  BY <1>1 DEF IndInv, JobInv, ClosedAfterUse, Alive
<1>4. abandoned # {}
  BY <1>1, <1>3 DEF IndInv, JobInv, AtWork, Running
<1>5. TypeOK'
  BY <1>2 DEF IndInv, TypeOK, poolVars, workerVars
<1>6. JobInv'
  BY <1>2, <1>3, <1>4 DEF IndInv, JobInv, AtWork, LeftToDo, Running, FileBegun, ClosedAfterUse,
     PanicOnlyAfterWriteError, poolVars, workerVars
<1>. QED
  BY <1>2, <1>5, <1>6, BooksUntouched DEF IndInv

\* The job stays as it is.
LEMMA JobUntouched ==
    ASSUME IndInv, UNCHANGED <<at, closed, left, jobVars>>, cancelled => cancelled'
    PROVE  JobInv'
BY DEF IndInv, JobInv, AtWork, LeftToDo, Running, FileBegun, ClosedAfterUse,
   PanicOnlyAfterWriteError, jobVars

LEMMA ServerDropsStep ==
    ASSUME IndInv, NEW c \in Conns, ServerDrops(c)
    PROVE  IndInv'
<1>1. UNCHANGED <<poolVars, workerVars, envVars>> /\ broken' = broken \cup {c}
  BY DEF ServerDrops
<1>2. TypeOK' /\ JobInv' /\ abandoned' = abandoned
  BY <1>1, JobUntouched DEF IndInv, TypeOK, poolVars, workerVars, envVars, jobVars
<1>. QED
  BY <1>1, <1>2, BooksUntouched DEF IndInv

LEMMA CancelStep ==
    ASSUME IndInv, Cancel
    PROVE  IndInv'
<1>1. UNCHANGED <<poolVars, workerVars, broken, left, fetched, jobVars>> /\ cancelled' = TRUE
  BY DEF Cancel
<1>2. TypeOK' /\ JobInv' /\ abandoned' = abandoned
  BY <1>1, JobUntouched DEF IndInv, TypeOK, poolVars, workerVars, jobVars
<1>. QED
  BY <1>1, <1>2, BooksUntouched DEF IndInv

\* Who is still at work, and what is left to do, belongs to an abandoned file or
\* to a cancelled job.
LEMMA StartFileStep ==
    ASSUME IndInv, StartFile
    PROVE  IndInv'
<1>. USE DEF IndInv
<1>1. /\ job = "between" /\ file < NumFiles /\ job' = "downloading" /\ file' = file + 1
      /\ left' = [left EXCEPT ![file'] = NumFetches] /\ fetched' = FALSE
      /\ UNCHANGED <<poolVars, workerVars, broken, cancelled, abandoned>>
  BY DEF StartFile
<1>2. file' \in Files /\ file' \in 0..NumFiles
  BY <1>1, NumFilesIsNat DEF TypeOK, Files
<1>3. left' \in [Files -> 0..NumFetches] /\ \A f \in Files : f # file' => left'[f] = left[f]
  BY <1>1, <1>2, NumFetchesIsNat DEF TypeOK
<1>4. TypeOK'
  BY <1>1, <1>2, <1>3 DEF TypeOK, poolVars, workerVars
<1>5. AtWork'
  BY <1>1 DEF JobInv, AtWork, Running, workerVars
<1>6. LeftToDo'
  BY <1>1, <1>3 DEF JobInv, LeftToDo, Running
<1>7. JobInv'
  BY <1>1, <1>2, <1>5, <1>6 DEF JobInv, FileBegun, ClosedAfterUse, PanicOnlyAfterWriteError, poolVars
<1>. QED
  BY <1>1, <1>4, <1>7, BooksUntouched

LEMMA DownloadReturnsStep ==
    ASSUME IndInv, DownloadReturns
    PROVE  IndInv'
<1>. USE DEF IndInv
<1>1. /\ job = "downloading" /\ Quiet /\ job' = "between"
      /\ UNCHANGED <<poolVars, workerVars, broken, left, fetched, cancelled, file, abandoned>>
  BY DEF DownloadReturns
<1>2. TypeOK'
  BY <1>1 DEF TypeOK, poolVars, workerVars
<1>3. AtWork'
  BY <1>1 DEF JobInv, AtWork, Running, Quiet, workerVars
<1>4. LeftToDo'
  BY <1>1 DEF JobInv, LeftToDo, Running, Quiet
<1>5. JobInv'
  BY <1>1, <1>3, <1>4 DEF JobInv, FileBegun, ClosedAfterUse, PanicOnlyAfterWriteError, poolVars
<1>. QED
  BY <1>1, <1>2, <1>5, BooksUntouched

LEMMA WriteFailsStep ==
    ASSUME IndInv, WriteFails
    PROVE  IndInv'
<1>. USE DEF IndInv
<1>1. /\ job = "downloading" /\ job' = "between" /\ abandoned' = abandoned \cup {file}
      /\ UNCHANGED <<poolVars, workerVars, broken, left, fetched, cancelled, file>>
  BY DEF WriteFails
<1>2. file \in Files
  BY <1>1 DEF JobInv, FileBegun
<1>3. TypeOK'
  BY <1>1, <1>2 DEF TypeOK, poolVars, workerVars
<1>4. AtWork' /\ LeftToDo'
  BY <1>1 DEF JobInv, AtWork, LeftToDo, Running, workerVars
<1>5. JobInv'
  BY <1>1, <1>4 DEF JobInv, FileBegun, ClosedAfterUse, PanicOnlyAfterWriteError, poolVars
<1>. QED
  BY <1>1, <1>3, <1>5, BooksUntouched

LEMMA EndJobStep ==
    ASSUME IndInv, EndJob
    PROVE  IndInv'
<1>. USE DEF IndInv
<1>1. /\ job = "between" /\ job' = "over"
      /\ UNCHANGED <<poolVars, workerVars, broken, left, fetched, cancelled, file, abandoned>>
  BY DEF EndJob
<1>2. TypeOK'
  BY <1>1 DEF TypeOK, poolVars, workerVars
<1>3. JobInv'
  BY <1>1 DEF JobInv, AtWork, LeftToDo, Running, FileBegun, ClosedAfterUse,
     PanicOnlyAfterWriteError, poolVars, workerVars
<1>. QED
  BY <1>1, <1>2, <1>3, BooksUntouched

LEMMA ClosePoolStep ==
    ASSUME IndInv, ClosePool
    PROVE  IndInv'
<1>. USE DEF IndInv
<1>1. /\ job = "over" /\ closed' = TRUE
      /\ UNCHANGED <<maxConns, idle, active, workerVars, broken, envVars>>
  BY DEF ClosePool
<1>2. Open' = Open /\ Dialing' = Dialing /\ Counting' = Counting /\ OneUser'
  BY <1>1, SameConnections DEF workerVars, Dialing, Counting
<1>3. TypeOK'
  BY <1>1 DEF TypeOK, workerVars, envVars, jobVars
<1>4. JobInv'
  BY <1>1 DEF JobInv, AtWork, LeftToDo, Running, FileBegun, ClosedAfterUse,
     PanicOnlyAfterWriteError, workerVars, envVars, jobVars
<1>5. /\ HasClient' /\ MayTry' /\ OpenIsCounted' /\ CountIsOpen' /\ OnePlacePerWorker'
      /\ NobodyWaits'
  BY <1>1, <1>2 DEF workerVars, envVars, jobVars, HasClient, MayTry, OpenIsCounted, CountIsOpen,
     OnePlacePerWorker, NobodyWaits
<1>. QED
  BY <1>2, <1>3, <1>4, <1>5

LEMMA DrainPoolStep ==
    ASSUME IndInv, DrainPool
    PROVE  IndInv'
<1>. USE DEF IndInv
<1>1. /\ closed /\ idle # <<>> /\ idle' = Tail(idle) /\ broken' = broken \ {Head(idle)}
      /\ UNCHANGED <<maxConns, closed, active, workerVars, envVars>>
  BY DEF DrainPool
<1>2. /\ idle' \in Seq(Conns) /\ Len(idle') = Len(idle) - 1
      /\ Idle' = Idle \ {Head(idle)}
      /\ \A i, k \in 1..Len(idle') : idle'[i] = idle'[k] => i = k
  BY <1>1, TakeFirst
<1>3. OneUser'
  BY <1>1, <1>2 DEF OneUser, workerVars
<1>4. Cardinality(Open)' <= Cardinality(Open) /\ Cardinality(Open)' \in Nat
  <2>1. Open' \subseteq Open
    BY <1>1, <1>2 DEF Open, workerVars
  <2>. QED
    BY <2>1, Finite, FS_Subset, FS_CardinalityType
<1>5. Dialing' = Dialing /\ Counting' = Counting
  BY <1>1 DEF workerVars, Dialing, Counting
<1>6. TypeOK'
  BY <1>1, <1>2, SlotsAndConns DEF TypeOK, workerVars, envVars, jobVars
<1>7. OpenIsCounted' /\ CountIsOpen' /\ OnePlacePerWorker'
  BY <1>1, <1>4, <1>5, Finite DEF OpenIsCounted, CountIsOpen, OnePlacePerWorker, TypeOK, envVars,
     jobVars
<1>8. HasClient' /\ MayTry' /\ NobodyWaits'
  BY <1>1 DEF HasClient, MayTry, NobodyWaits, workerVars, envVars, jobVars
<1>9. JobInv'
  BY <1>1, JobUntouched DEF workerVars, envVars
<1>. QED
  BY <1>3, <1>6, <1>7, <1>8, <1>9

-----------------------------------------------------------------------------

LEMMA InitIndInv == Init => IndInv
<1> SUFFICES ASSUME Init
             PROVE  IndInv
  OBVIOUS
<1>1. Len(idle) = 0 /\ idle \in Seq(Conns) /\ Idle = {} /\ 1..Len(idle) = {}
  BY DEF Init, Idle
<1>2. Open = {} /\ Dialing = {} /\ Counting = {}
  BY <1>1 DEF Init, Open, Dialing, Counting
<1>3. at \in [Workers -> Place] /\ attempt \in [Workers -> 0..MaxRetries]
  BY MaxRetriesIsNat DEF Init, Place
<1>4. /\ active \in 0..maxConns /\ Len(idle) <= maxConns
      /\ left \in [Files -> 0..NumFetches] /\ file \in 0..NumFiles
  BY <1>1, SlotsAndConns, NumFetchesIsNat, NumFilesIsNat DEF Init
<1>5. TypeOK
  BY <1>1, <1>3, <1>4 DEF Init, TypeOK
<1>6. OneUser /\ HasClient /\ MayTry /\ NobodyWaits
  BY <1>1 DEF Init, OneUser, HasClient, MayTry, NobodyWaits
<1>7. JobInv
  BY DEF Init, JobInv, AtWork, LeftToDo, FileBegun, ClosedAfterUse, PanicOnlyAfterWriteError
<1>8. OpenIsCounted /\ CountIsOpen /\ OnePlacePerWorker
  BY <1>2, FS_EmptySet, WorkerSets DEF Init, OpenIsCounted, CountIsOpen, OnePlacePerWorker
<1>. QED
  BY <1>5, <1>6, <1>7, <1>8 DEF IndInv

LEMMA StepIndInv == IndInv /\ [Next]_vars => IndInv'
<1> SUFFICES ASSUME IndInv, [Next]_vars
             PROVE  IndInv'
  OBVIOUS
<1>1. ASSUME NEW w \in Workers, Alive, Fetch(w)
      PROVE  IndInv'
  BY <1>1, GiveUpStep, GetIdleStep, GetNoneStep, IsAliveStep, IsDeadStep, CountStep, WaitEndsStep,
     WaitIsCancelledStep, PutStep, CrashStep DEF Fetch
<1>2. ASSUME NEW w \in Workers, ExchangeEnds(w)
      PROVE  IndInv'
  BY <1>2, CloseEndsStep, DialSucceedsStep, DialFailsStep, BodyReturnsStep DEF ExchangeEnds
<1>3. CASE UNCHANGED vars
  <2>1. UNCHANGED <<poolVars, workerVars, broken, envVars>>
    BY <1>3 DEF vars
  <2>2. TypeOK' /\ JobInv' /\ abandoned' = abandoned
    BY <2>1, JobUntouched DEF IndInv, TypeOK, poolVars, workerVars, envVars, jobVars
  <2>. QED
    BY <2>1, <2>2, BooksUntouched DEF IndInv
<1>. QED
  BY <1>1, <1>2, <1>3, BeginFetchStep, ServerDropsStep, CancelStep, StartFileStep,
     DownloadReturnsStep, WriteFailsStep, EndJobStep, ClosePoolStep, DrainPoolStep DEF Next

LEMMA Invariant == Spec => []IndInv
BY InitIndInv, StepIndInv, PTL DEF Spec

-----------------------------------------------------------------------------

\* The counter stays between 0 and the limit and the channel within its
\* capacity, whatever the workers race for (client.go 255-331).
THEOREM PoolTypeCorrect == Spec => []TypeOK
<1>1. IndInv => TypeOK
  BY DEF IndInv
<1>. QED
  BY Invariant, <1>1, PTL

\* No connection ever has two users, those of different files included
\* (client.go 242-331).
THEOREM ConnectionHasOneUser == Spec => []OneUser
<1>1. IndInv => OneUser
  BY DEF IndInv
<1>. QED
  BY Invariant, <1>1, PTL

\* The counter is the number of connections that are open or being opened
\* (client.go 255-331).
THEOREM CountIsExact == Spec => []CountIsOpen
<1>1. IndInv => CountIsOpen
  BY DEF IndInv
<1>. QED
  BY Invariant, <1>1, PTL

\* With as many places as a download has workers nobody waits for a connection
\* until the first write error of the job (client.go 272-284, engine.go 330-343).
THEOREM PrimaryNeverWaits == Spec => []NobodyWaits
<1>1. IndInv => NobodyWaits
  BY DEF IndInv
<1>. QED
  BY Invariant, <1>1, PTL

\* A worker panics on a closed pool only in a job one of whose files met a write
\* error (engine.go 212, 383-386; client.go 304-318).
THEOREM PanicNeedsWriteError == Spec => []PanicOnlyAfterWriteError
<1>1. IndInv => PanicOnlyAfterWriteError
  BY DEF IndInv, JobInv
<1>. QED
  BY Invariant, <1>1, PTL

=============================================================================
