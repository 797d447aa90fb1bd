------------------------- MODULE QueueManagerProofs -------------------------
(***************************************************************************)
(* Proofs about QueueManager: what Add and Remove do to the queue, and     *)
(* that the single pass of Next finds the job it is meant to find, for     *)
(* queues of any length.                                                   *)
(*                                                                         *)
(* Next is a loop over the queue, so its proof is an induction on the      *)
(* number of jobs it has passed.  The induction is stated for a set of     *)
(* numbers and follows from the well-ordering of the naturals.             *)
(***************************************************************************)
EXTENDS QueueManager, WellFoundedInduction, TLAPS

\* Every set of naturals with an element has a least one.
LEMMA LeastElement ==
    ASSUME NEW T \in SUBSET Nat, T # {}
    PROVE  \E m \in T : \A k \in T : m <= k
<1>. DEFINE R == OpToRel(<, Nat)
<1>1. IsWellFoundedOn(R, Nat)
  BY NatLessThanWellFounded, Zenon
<1>2. \A a, b \in Nat : a < b => <<a, b>> \in R
  BY DEF OpToRel
<1>. HIDE DEF R
<1>3. PICK m \in T : \A k \in T : ~(<<k, m>> \in R)
  BY <1>1, WFMin
<1>4. \A k \in T : ~(k < m)
  BY <1>2, <1>3
<1>. QED
  BY <1>4

\* A set with 0 and the successor of each of its naturals has them all.
LEMMA SetInduction ==
    ASSUME NEW S, 0 \in S, \A n \in Nat : n \in S => n + 1 \in S
    PROVE  Nat \subseteq S
<1>. DEFINE T == Nat \ S
<1>. SUFFICES ASSUME T # {} PROVE FALSE
  OBVIOUS
<1>1. PICK m \in T : \A k \in T : m <= k
  BY LeastElement
<1>2. m # 0 /\ m - 1 \in Nat /\ m - 1 \notin T
  BY <1>1
<1>3. (m - 1) + 1 \in S
  BY <1>2
<1>. QED
  BY <1>3

-----------------------------------------------------------------------------
(* Next.                                                                   *)

\* Best is the function its definition says it is: by induction, there is
\* one for every front part of the queue.
LEMMA BestIsDefined ==
    ASSUME QueueTypeOK
    PROVE  \A n \in 0..Len(jobs) :
              Best[n] = IF n = 0 THEN None
                        ELSE IF Better(Best[n - 1], jobs[n]) THEN jobs[n]
                        ELSE Best[n - 1]
<1>. DEFINE Body(g, n) == IF n = 0 THEN None
                          ELSE IF Better(g[n - 1], jobs[n]) THEN jobs[n]
                          ELSE g[n - 1]
            S == {n \in Nat : \E g : g = [i \in 0..n |-> Body(g, i)]}
<1>1. 0 \in S
  <2>. DEFINE g == [i \in 0..0 |-> None]
  <2>1. g = [i \in 0..0 |-> Body(g, i)]
    OBVIOUS
  <2>. HIDE DEF g, Body
  <2>. QED
    BY <2>1
<1>2. ASSUME NEW n \in Nat, n \in S
      PROVE  n + 1 \in S
  <2>1. PICK g : g = [i \in 0..n |-> Body(g, i)]
    BY <1>2
  <2>. DEFINE h == [i \in 0..(n + 1) |-> IF i = n + 1 THEN Body(g, i) ELSE g[i]]
  <2>2. ASSUME NEW i \in 0..(n + 1)
        PROVE  h[i] = Body(h, i)
    <3>1. i - 1 \in 0..n => h[i - 1] = g[i - 1]
      OBVIOUS
    <3>2. h[i] = Body(g, i)
      BY <2>1
    <3>. HIDE DEF h
    <3>3. Body(g, i) = Body(h, i)
      BY <3>1
    <3>. QED
      BY <3>2, <3>3
  <2>3. h = [i \in 0..(n + 1) |-> h[i]]
    OBVIOUS
  <2>. HIDE DEF h, Body
  <2>4. h = [i \in 0..(n + 1) |-> Body(h, i)]
    BY <2>2, <2>3
  <2>. QED
    BY <2>4
<1>3. Len(jobs) \in S
  <2>. HIDE DEF S
  <2>1. Nat \subseteq S
    BY <1>1, <1>2, SetInduction
  <2>. QED
    BY <2>1 DEF QueueTypeOK
<1>4. Best = [n \in 0..Len(jobs) |-> Body(Best, n)]
  BY <1>3 DEF Best
<1>. HIDE DEF Body
<1>5. \A n \in 0..Len(jobs) : Best[n] = Body(Best, n)
  BY <1>4
<1>. QED
  BY <1>5 DEF Body

\* What Next has found after n jobs.
FoundAfter(n) ==
    IF \A k \in Eligible : k > n
    THEN Best[n] = None
    ELSE \E i \in Eligible :
            /\ i <= n
            /\ Best[n] = jobs[i]
            /\ \A k \in Eligible :
                  k <= n => \/ job[jobs[k]].prio < job[jobs[i]].prio
                            \/ job[jobs[k]].prio = job[jobs[i]].prio /\ k >= i

\* One more job keeps it true.
LEMMA NextJobConsidered ==
    ASSUME QueueTypeOK, NEW n \in Nat, n + 1 <= Len(jobs), FoundAfter(n)
    PROVE  FoundAfter(n + 1)
<1>1. /\ n + 1 \in 1..Len(jobs)
      /\ jobs[n + 1] \in Ids
      /\ \A k \in Eligible : k \in 1..Len(jobs) /\ jobs[k] \in Ids
      /\ \A id \in Ids : job[id].prio \in Nat
  <2>1. \A id \in Ids : job[id].prio \in Priorities
    BY DEF QueueTypeOK, Job
  <2>2. jobs \in Seq(Ids) /\ n + 1 \in 1..Len(jobs)
    BY DEF QueueTypeOK
  <2>3. \A k \in Eligible : k \in 1..Len(jobs)
    BY DEF Eligible
  <2>4. \A k \in 1..Len(jobs) : jobs[k] \in Ids
    BY <2>2
  <2>. QED
    BY <2>1, <2>2, <2>3, <2>4, PrioritiesAreNumbers
<1>2. Best[n + 1] = IF Better(Best[n], jobs[n + 1]) THEN jobs[n + 1] ELSE Best[n]
  BY <1>1, BestIsDefined
<1>3. n + 1 \in Eligible <=> job[jobs[n + 1]].status = "queued"
  BY <1>1 DEF Eligible
<1>4. CASE n + 1 \notin Eligible
  <2>1. Best[n + 1] = Best[n]
    BY <1>2, <1>3, <1>4 DEF Better
  <2>2. \A k \in Eligible : k <= n + 1 <=> k <= n
    BY <1>1, <1>4
  <2>. QED
    BY <1>1, <2>1, <2>2 DEF FoundAfter
<1>5. CASE n + 1 \in Eligible /\ \A k \in Eligible : k > n
  <2>1. Best[n + 1] = jobs[n + 1]
    BY <1>2, <1>3, <1>5 DEF FoundAfter, Better
  <2>2. \A k \in Eligible : k <= n + 1 => k = n + 1
    BY <1>1, <1>5
  <2>. QED
    BY <1>1, <1>5, <2>1, <2>2 DEF FoundAfter
<1>6. CASE n + 1 \in Eligible /\ ~(\A k \in Eligible : k > n)
  <2>1. PICK i \in Eligible :
           /\ i <= n
           /\ Best[n] = jobs[i]
           /\ \A k \in Eligible :
                 k <= n => \/ job[jobs[k]].prio < job[jobs[i]].prio
                           \/ job[jobs[k]].prio = job[jobs[i]].prio /\ k >= i
    BY <1>6 DEF FoundAfter
  <2>2. Better(Best[n], jobs[n + 1])
           <=> job[jobs[n + 1]].prio > job[jobs[i]].prio
    BY <1>1, <1>3, <1>6, <2>1, NoneIsNoId DEF Better
  <2>3. \A k \in Eligible : k <= n + 1 <=> k <= n \/ k = n + 1
    BY <1>1
  <2>4. CASE job[jobs[n + 1]].prio > job[jobs[i]].prio
    <3>1. Best[n + 1] = jobs[n + 1]
      BY <1>2, <2>2, <2>4
    <3>2. \A k \in Eligible :
             k <= n + 1 => \/ job[jobs[k]].prio < job[jobs[n + 1]].prio
                           \/ job[jobs[k]].prio = job[jobs[n + 1]].prio /\ k >= n + 1
      <4>. SUFFICES ASSUME NEW k \in Eligible, k <= n, k # n + 1
                    PROVE  job[jobs[k]].prio < job[jobs[n + 1]].prio
        BY <2>3
      <4>1. job[jobs[k]].prio <= job[jobs[i]].prio
        BY <1>1, <2>1
      <4>. QED
        BY <1>1, <2>4, <4>1
    <3>. QED
      BY <1>1, <1>6, <3>1, <3>2 DEF FoundAfter
  <2>5. CASE ~(job[jobs[n + 1]].prio > job[jobs[i]].prio)
    <3>1. Best[n + 1] = jobs[i]
      BY <1>2, <2>1, <2>2, <2>5
    <3>2. \A k \in Eligible :
             k <= n + 1 => \/ job[jobs[k]].prio < job[jobs[i]].prio
                           \/ job[jobs[k]].prio = job[jobs[i]].prio /\ k >= i
      BY <1>1, <2>1, <2>3, <2>5
    <3>3. i <= n + 1
      BY <1>1, <2>1
    <3>. QED
      BY <1>1, <2>1, <3>1, <3>2, <3>3 DEF FoundAfter
  <2>. QED
    BY <2>4, <2>5
<1>. QED
  BY <1>4, <1>5, <1>6

\* Whatever is in the queue, Next finds the job it promises.
LEMMA NextFindsTheBest == QueueTypeOK => NextIsHighestPriorityThenOldest
<1>. SUFFICES ASSUME QueueTypeOK PROVE NextIsHighestPriorityThenOldest
  OBVIOUS
<1>0. Len(jobs) \in Nat /\ \A k \in Eligible : k \in 1..Len(jobs)
  BY DEF QueueTypeOK, Eligible
<1>. DEFINE S == {n \in Nat : n <= Len(jobs) => FoundAfter(n)}
<1>1. 0 \in S
  BY <1>0, BestIsDefined DEF FoundAfter
<1>2. \A n \in Nat : n \in S => n + 1 \in S
  BY <1>0, NextJobConsidered
<1>3. Nat \subseteq S
  <2>. HIDE DEF S
  <2>. QED
    BY <1>1, <1>2, SetInduction
<1>4. FoundAfter(Len(jobs))
  BY <1>0, <1>3
<1>. QED
  BY <1>0, <1>4 DEF FoundAfter, NextIsHighestPriorityThenOldest, NextJob

\* A job that Next returns is in the queue and queued.
LEMMA NextIsInQueue ==
    ASSUME QueueTypeOK, NextJob \in Ids
    PROVE  InQueue(NextJob) /\ job[NextJob].status = "queued"
BY NextFindsTheBest, NoneIsNoId
DEF NextIsHighestPriorityThenOldest, Eligible, InQueue

-----------------------------------------------------------------------------
(* Types.                                                                  *)

\* What NewJob returns is a Job.
LEMMA NewJobType == \A p \in Priorities : NewJob(p) \in Job
BY MaxDoneIsNat DEF NewJob, Job, Status

\* The Job objects of a new process are Jobs.
LEMMA FreshJobsType == FreshJobs \in [Ids -> Job]
BY NewJobType, PrioritiesAreNumbers DEF FreshJobs

\* Add keeps the types of the queue.
LEMMA QueueAddType ==
    ASSUME QueueTypeOK, NEW id \in Ids, NEW j \in Job, QueueAdd(id, j)
    PROVE  QueueTypeOK'
<1>1. [j EXCEPT !.status = "queued"] \in Job
  BY DEF Job, Status
<1>2. jobs' \in Seq(Ids)
  BY DEF QueueTypeOK, QueueAdd
<1>3. job' \in [Ids -> Job]
  BY <1>1 DEF QueueTypeOK, QueueAdd
<1>. QED
  BY <1>2, <1>3 DEF QueueTypeOK, QueueAdd

\* Remove keeps the types of the queue.
LEMMA QueueRemoveType ==
    ASSUME QueueTypeOK, NEW id \in Ids, QueueRemove(id)
    PROVE  QueueTypeOK'
<1>1. PICK i \in 1..Len(jobs) :
         jobs' = SubSeq(jobs, 1, i - 1) \o SubSeq(jobs, i + 1, Len(jobs))
  BY DEF QueueRemove
<1>2. jobs' \in Seq(Ids)
  BY <1>1 DEF QueueTypeOK
<1>. QED
  BY <1>2 DEF QueueTypeOK, QueueRemove

\* SetStatus with a status keeps the Job objects Jobs.
LEMMA SetStatusType ==
    ASSUME job \in [Ids -> Job], NEW id \in Ids, NEW s \in Status, SetStatus(id, s)
    PROVE  job' \in [Ids -> Job]
<1>1. [job[id] EXCEPT !.status = s] \in Job
  BY DEF Job
<1>2. job' = [job EXCEPT ![id] = [job[id] EXCEPT !.status = s]]
  BY DEF SetStatus
<1>. QED
  BY <1>1, <1>2

-----------------------------------------------------------------------------
(* Add, Remove and the status of a job.                                    *)

\* Add puts one new ID at the end.
LEMMA QueueAddMembers ==
    ASSUME QueueTypeOK, NoDuplicateJobs, NEW id \in Ids, NEW j \in Job,
           QueueAdd(id, j)
    PROVE  /\ NoDuplicateJobs'
           /\ \A x \in Ids : InQueue(x)' <=> InQueue(x) \/ x = id
           /\ job'[id].status = "queued"
           /\ \A x \in Ids : x # id => job'[x] = job[x]
<1>1. /\ Len(jobs') = Len(jobs) + 1
      /\ \A k \in 1..Len(jobs) : jobs'[k] = jobs[k]
      /\ jobs'[Len(jobs) + 1] = id
  BY DEF QueueTypeOK, QueueAdd
<1>2. Len(jobs) \in Nat
  BY DEF QueueTypeOK
<1>3. NoDuplicateJobs'
  BY <1>1, <1>2 DEF NoDuplicateJobs, QueueAdd, InQueue
<1>4. \A x \in Ids : InQueue(x)' <=> InQueue(x) \/ x = id
  BY <1>1, <1>2 DEF InQueue
<1>5. [j EXCEPT !.status = "queued"].status = "queued"
  BY DEF Job
<1>6. job' = [job EXCEPT ![id] = [j EXCEPT !.status = "queued"]]
  BY DEF QueueAdd
<1>. QED
  BY <1>3, <1>4, <1>5, <1>6 DEF QueueTypeOK

\* Remove closes the gap: the jobs behind the removed one move up by one.
LEMMA QueueRemoveShifts ==
    ASSUME QueueTypeOK, NEW id \in Ids, QueueRemove(id)
    PROVE  \E i \in 1..Len(jobs) :
              /\ jobs[i] = id
              /\ Len(jobs') = Len(jobs) - 1
              /\ \A k \in 1..Len(jobs') :
                    jobs'[k] = IF k < i THEN jobs[k] ELSE jobs[k + 1]
<1>1. PICK i \in 1..Len(jobs) :
         /\ jobs[i] = id
         /\ jobs' = SubSeq(jobs, 1, i - 1) \o SubSeq(jobs, i + 1, Len(jobs))
  BY DEF QueueRemove
<1>2. Len(jobs) \in Nat /\ i \in Nat
  BY DEF QueueTypeOK
<1>. DEFINE front == SubSeq(jobs, 1, i - 1)
            back == SubSeq(jobs, i + 1, Len(jobs))
<1>3. /\ front \in Seq(Ids) /\ Len(front) = i - 1
      /\ \A k \in 1..(i - 1) : front[k] = jobs[k]
  BY <1>2 DEF QueueTypeOK
<1>4. /\ back \in Seq(Ids) /\ Len(back) = Len(jobs) - i
      /\ \A k \in 1..(Len(jobs) - i) : back[k] = jobs[k + i]
  BY <1>2 DEF QueueTypeOK
<1>5. jobs' = front \o back
  BY <1>1
<1>. HIDE DEF front, back
<1>6. Len(jobs') = Len(jobs) - 1
  BY <1>2, <1>3, <1>4, <1>5
<1>7. ASSUME NEW k \in 1..Len(jobs')
      PROVE  jobs'[k] = IF k < i THEN jobs[k] ELSE jobs[k + 1]
  <2>1. CASE k < i
    BY <1>2, <1>3, <1>4, <1>5, <1>6, <2>1
  <2>2. CASE ~(k < i)
    <3>1. jobs'[k] = back[k - (i - 1)]
      BY <1>2, <1>3, <1>4, <1>5, <1>6, <2>2
    <3>2. k - (i - 1) \in 1..(Len(jobs) - i)
      BY <1>2, <1>6, <2>2
    <3>3. (k - (i - 1)) + i = k + 1
      BY <1>2
    <3>. QED
      BY <1>4, <2>2, <3>1, <3>2, <3>3
  <2>. QED
    BY <2>1, <2>2
<1>. QED
  BY <1>1, <1>6, <1>7

\* Remove takes out the ID, and only it.
LEMMA QueueRemoveMembers ==
    ASSUME QueueTypeOK, NoDuplicateJobs, NEW id \in Ids, QueueRemove(id)
    PROVE  /\ NoDuplicateJobs'
           /\ \A x \in Ids : InQueue(x)' <=> InQueue(x) /\ x # id
<1>1. PICK i \in 1..Len(jobs) :
         /\ jobs[i] = id
         /\ Len(jobs') = Len(jobs) - 1
         /\ \A k \in 1..Len(jobs') :
               jobs'[k] = IF k < i THEN jobs[k] ELSE jobs[k + 1]
  BY QueueRemoveShifts
<1>2. Len(jobs) \in Nat /\ i \in Nat
  BY DEF QueueTypeOK
<1>3. NoDuplicateJobs'
  BY <1>1, <1>2 DEF NoDuplicateJobs
<1>4. ASSUME NEW x \in Ids, InQueue(x)'
      PROVE  InQueue(x) /\ x # id
  <2>1. PICK k \in 1..Len(jobs') : jobs'[k] = x
    BY <1>4 DEF InQueue
  <2>2. PICK m \in 1..Len(jobs) : m # i /\ jobs[m] = x
    <3>1. CASE k < i
      BY <1>1, <1>2, <2>1, <3>1
    <3>2. CASE ~(k < i)
      BY <1>1, <1>2, <2>1, <3>2
    <3>. QED
      BY <3>1, <3>2
  <2>. QED
    BY <1>1, <2>2 DEF InQueue, NoDuplicateJobs
<1>5. ASSUME NEW x \in Ids, InQueue(x), x # id
      PROVE  InQueue(x)'
  <2>1. PICK m \in 1..Len(jobs) : m # i /\ jobs[m] = x
    BY <1>1, <1>5 DEF InQueue
  <2>2. CASE m < i
    <3>1. m \in 1..Len(jobs') /\ jobs'[m] = x
      BY <1>1, <1>2, <2>1, <2>2
    <3>. QED
      BY <3>1 DEF InQueue
  <2>3. CASE ~(m < i)
    <3>1. m - 1 \in 1..Len(jobs') /\ ~(m - 1 < i) /\ (m - 1) + 1 = m
      BY <1>1, <1>2, <2>1, <2>3
    <3>2. jobs'[m - 1] = x
      BY <1>1, <2>1, <3>1
    <3>. QED
      BY <3>1, <3>2 DEF InQueue
  <2>. QED
    BY <2>2, <2>3
<1>. QED
  BY <1>3, <1>4, <1>5

\* Any other step leaves the queue's members alone.
LEMMA SameQueue ==
    jobs' = jobs => /\ NoDuplicateJobs' <=> NoDuplicateJobs
                    /\ \A x : InQueue(x)' <=> InQueue(x)
BY DEF NoDuplicateJobs, InQueue

\* A status is set on one job only.
LEMMA SetStatusEffect ==
    ASSUME job \in [Ids -> Job], NEW id \in Ids, NEW s \in Status, SetStatus(id, s)
    PROVE  /\ job'[id].status = s
           /\ job'[id].err = job[id].err
           /\ \A x \in Ids : x # id => job'[x] = job[x]
<1>1. /\ [job[id] EXCEPT !.status = s].status = s
      /\ [job[id] EXCEPT !.status = s].err = job[id].err
  BY DEF Job
<1>2. job' = [job EXCEPT ![id] = [job[id] EXCEPT !.status = s]]
  BY DEF SetStatus
<1>. QED
  BY <1>1, <1>2

-----------------------------------------------------------------------------
(* The manager alone.                                                      *)

QueueIndInv == QueueTypeOK /\ NoDuplicateJobs

LEMMA QueueInitIndInv == QueueInit => QueueIndInv
<1>. SUFFICES ASSUME QueueInit PROVE QueueIndInv
  OBVIOUS
<1>1. jobs \in Seq(Ids) /\ Len(jobs) = 0
  BY DEF QueueInit
<1>2. NoDuplicateJobs
  BY <1>1 DEF NoDuplicateJobs
<1>. QED
  BY <1>1, <1>2, FreshJobsType DEF QueueInit, QueueIndInv, QueueTypeOK

LEMMA QueueStepIndInv == QueueIndInv /\ [QueueNext]_queueVars => QueueIndInv'
<1>. SUFFICES ASSUME QueueIndInv, [QueueNext]_queueVars PROVE QueueIndInv'
  OBVIOUS
<1>. USE DEF QueueIndInv
<1>1. ASSUME NEW id \in Ids, ClientAdd(id) PROVE QueueIndInv'
  BY <1>1, QueueAddType, QueueAddMembers, NewJobType DEF ClientAdd
<1>2. ASSUME NEW id \in Ids, QueueRemove(id) PROVE QueueIndInv'
  BY <1>2, QueueRemoveType, QueueRemoveMembers
<1>3. ASSUME NEW id \in Ids, NEW s \in Status, SetStatus(id, s),
             UNCHANGED <<jobs, queuePaused, cancelFns, cancelled>>
      PROVE  QueueIndInv'
  BY <1>3, SetStatusType, SameQueue DEF QueueTypeOK
<1>4. ASSUME NEW id \in Ids, PauseJob(id) PROVE QueueIndInv'
  BY <1>3, <1>4 DEF PauseJob, Status
<1>5. ASSUME NEW id \in Ids, ResumeJob(id) PROVE QueueIndInv'
  BY <1>3, <1>5 DEF ResumeJob, Status
<1>6. ASSUME NEW id \in Ids, ClientSetStatus(id) PROVE QueueIndInv'
  BY <1>3, <1>6 DEF ClientSetStatus, Status
<1>7. ASSUME NEW id \in Ids, RegisterCancel(id) PROVE QueueIndInv'
  BY <1>7, SameQueue DEF RegisterCancel, QueueTypeOK
<1>8. ASSUME NEW id \in Ids, UnregisterCancel(id) PROVE QueueIndInv'
  BY <1>8, SameQueue DEF UnregisterCancel, QueueTypeOK
<1>9. ASSUME NEW paused \in BOOLEAN, PauseQueue(paused) PROVE QueueIndInv'
  BY <1>9, SameQueue DEF PauseQueue, QueueTypeOK
<1>10. CASE UNCHANGED queueVars
  BY <1>10, SameQueue DEF queueVars, QueueTypeOK
<1>. QED
  BY <1>1, <1>2, <1>4, <1>5, <1>6, <1>7, <1>8, <1>9, <1>10 DEF QueueNext

\* The duplicate check of Add is enough: no ID is ever twice in the queue.
THEOREM QueueHasNoDuplicates == QueueSpec => []NoDuplicateJobs
<1>1. QueueIndInv => NoDuplicateJobs
  BY DEF QueueIndInv
<1>. QED
  BY <1>1, QueueInitIndInv, QueueStepIndInv, PTL DEF QueueSpec

\* Next returns a queued job of the highest priority and, among those, the
\* one that has waited longest, for queues of any length.
THEOREM NextIsRight == QueueSpec => []NextIsHighestPriorityThenOldest
<1>1. QueueIndInv => NextIsHighestPriorityThenOldest
  BY NextFindsTheBest DEF QueueIndInv
<1>. QED
  BY <1>1, QueueInitIndInv, QueueStepIndInv, PTL DEF QueueSpec

\* Where an ID occurs once, Position finds it.
LEMMA PositionIs ==
    ASSUME NEW q, NEW i \in 1..Len(q), \A k \in 1..Len(q) : q[k] = q[i] => k = i
    PROVE  Position(q, q[i]) = i
BY DEF Position

\* No step of the manager changes the order of two jobs that stay.
LEMMA StepKeepsOrder ==
    ASSUME QueueIndInv, [QueueNext]_queueVars, NEW a \in Ids, NEW b \in Ids,
           InQueue(a), InQueue(b), InQueue(a)', InQueue(b)'
    PROVE  Position(jobs, a) < Position(jobs, b)
              <=> Position(jobs', a) < Position(jobs', b)
<1>. USE DEF QueueIndInv
<1>1. QueueIndInv'
  BY QueueStepIndInv
<1>2. PICK m \in 1..Len(jobs) : jobs[m] = a
  BY DEF InQueue
<1>3. PICK n \in 1..Len(jobs) : jobs[n] = b
  BY DEF InQueue
<1>4. Position(jobs, a) = m /\ Position(jobs, b) = n
  BY <1>2, <1>3, PositionIs DEF NoDuplicateJobs
<1>5. Len(jobs) \in Nat
  BY DEF QueueTypeOK
<1>6. \A k \in 1..Len(jobs') : Position(jobs', jobs'[k]) = k
  BY <1>1, PositionIs DEF NoDuplicateJobs
<1>7. ASSUME NEW id \in Ids, ClientAdd(id)
      PROVE  Position(jobs', a) = m /\ Position(jobs', b) = n
  <2>1. /\ Len(jobs') = Len(jobs) + 1
        /\ \A k \in 1..Len(jobs) : jobs'[k] = jobs[k]
    BY <1>7 DEF ClientAdd, QueueAdd, QueueTypeOK
  <2>. QED
    BY <1>2, <1>3, <1>5, <1>6, <2>1
<1>8. ASSUME NEW id \in Ids, QueueRemove(id)
      PROVE  m < n <=> Position(jobs', a) < Position(jobs', b)
  <2>1. PICK i \in 1..Len(jobs) :
           /\ jobs[i] = id
           /\ Len(jobs') = Len(jobs) - 1
           /\ \A k \in 1..Len(jobs') :
                 jobs'[k] = IF k < i THEN jobs[k] ELSE jobs[k + 1]
    BY <1>8, QueueRemoveShifts
  <2>2. a # id /\ b # id
    BY <1>8, QueueRemoveMembers
  <2>3. ASSUME NEW k \in 1..Len(jobs), jobs[k] # id
        PROVE  Position(jobs', jobs[k]) = IF k < i THEN k ELSE k - 1
    <3>1. CASE k < i
      <4>1. k \in 1..Len(jobs') /\ jobs'[k] = jobs[k]
        BY <1>5, <2>1, <3>1
      <4>. QED
        BY <1>6, <3>1, <4>1
    <3>2. CASE ~(k < i)
      <4>1. /\ k - 1 \in 1..Len(jobs')
            /\ ~(k - 1 < i)
            /\ (k - 1) + 1 = k
        BY <1>5, <2>1, <2>3, <3>2
      <4>2. jobs'[k - 1] = jobs[k]
        BY <2>1, <4>1
      <4>. QED
        BY <1>6, <3>2, <4>1, <4>2
    <3>. QED
      BY <3>1, <3>2
  <2>4. m # i /\ n # i
    BY <1>2, <1>3, <2>1, <2>2
  <2>5. /\ Position(jobs', a) = IF m < i THEN m ELSE m - 1
        /\ Position(jobs', b) = IF n < i THEN n ELSE n - 1
    BY <1>2, <1>3, <2>2, <2>3
  <2>. QED
    BY <1>5, <2>4, <2>5
<1>9. jobs' = jobs \/ \E id \in Ids : ClientAdd(id) \/ QueueRemove(id)
  BY DEF QueueNext, queueVars, PauseJob, ResumeJob, ClientSetStatus,
         RegisterCancel, UnregisterCancel, PauseQueue
<1>. QED
  BY <1>4, <1>7, <1>8, <1>9

\* The queue is never reordered: a removal keeps the order of the others
\* and a new job goes behind them.
THEOREM OrderIsKept == QueueSpec => QueueOrderKept
<1>. DEFINE Kept ==
       \A a, b \in Ids :
          /\ InQueue(a) /\ InQueue(b)
          /\ InQueue(a)' /\ InQueue(b)'
          => (Position(jobs, a) < Position(jobs, b)
                <=> Position(jobs', a) < Position(jobs', b))
<1>1. QueueIndInv /\ [QueueNext]_queueVars => [Kept]_queueVars
  BY StepKeepsOrder
<1>. QED
  BY <1>1, QueueInitIndInv, QueueStepIndInv, PTL DEF QueueSpec, QueueOrderKept

=============================================================================
