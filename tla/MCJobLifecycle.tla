--------------------------- MODULE MCJobLifecycle ---------------------------
(* TLC instance of JobLifecycle.                                           *)
EXTENDS JobLifecycle, FiniteSets
LOCAL INSTANCE TLC

IdSymmetry == Permutations(Ids)

\* Bounds: one job goes through everything.  With a second one, a request is
\* in flight for, or there is trouble (an error, a pause) with, one of them at
\* a time, and the other is a bystander; nothing is deleted, no segment is
\* counted, and there is neither SIGTERM nor a pause of the whole queue, all of
\* which tell no jobs apart.
InFlight == adding \cup removing \cup {id \in Ids : built[id] # None}

Bad(r) == r # None /\ (r.err \/ r.status \in {"failed", "paused"})

Troubled == {id \in Ids : Bad(job[id]) \/ Bad(storeJobs[id]) \/ Bad(history[id])}

TwoJobBounds ==
    \/ Cardinality(issued) <= 1
    \/ /\ ~queuePaused /\ ~shuttingDown
       /\ dropped = {}
       /\ \A id \in Ids : job[id] # None => job[id].done = 0
       /\ Cardinality(InFlight \cup Troubled) <= 1

\* For the liveness run: two jobs, without restarts, SIGTERM, history edits
\* and records, none of which the engine waits for.
CalmNext ==
    \/ EngineStep \/ FetchStep \/ Panic \/ Boot
    \/ \E id \in Ids :
          \/ SourceAdd(id) \/ ApiRemove(id) \/ ApiPause(id) \/ ApiResume(id)
    \/ \E paused \in BOOLEAN : ApiPauseQueue(paused)

CalmSpec == Init /\ [][CalmNext]_vars /\ Fairness
=============================================================================
