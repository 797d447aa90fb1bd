-------------------------------- MODULE Store --------------------------------
(***************************************************************************)
(* The bbolt database, storage.Store (internal/storage/storage.go): two    *)
(* buckets keyed by job ID.  Every method is one bbolt transaction, which  *)
(* is atomic and durable when it returns (bbolt is external code).         *)
(***************************************************************************)

CONSTANTS Ids, None, Record, Entry

VARIABLES
    storeJobs,  \* bucket "jobs": the JobRecord stored under an ID, or None
    history     \* bucket "history": the HistoryEntry of an ID, or None

storeVars == <<storeJobs, history>>

StoreTypeOK ==
    /\ storeJobs \in [Ids -> Record \cup {None}]
    /\ history \in [Ids -> Entry \cup {None}]

\* Open on a fresh path creates both buckets empty.
StoreInit ==
    /\ storeJobs = [id \in Ids |-> None]
    /\ history = [id \in Ids |-> None]

SaveJob(id, rec) ==
    /\ storeJobs' = [storeJobs EXCEPT ![id] = rec]
    /\ UNCHANGED history

\* Deleting a key that is not there is not an error in bbolt.
DeleteJob(id) ==
    /\ storeJobs' = [storeJobs EXCEPT ![id] = None]
    /\ UNCHANGED history

SaveHistory(id, entry) ==
    /\ history' = [history EXCEPT ![id] = entry]
    /\ UNCHANGED storeJobs

DeleteHistory(id) ==
    /\ history' = [history EXCEPT ![id] = None]
    /\ UNCHANGED storeJobs

\* ClearHistory drops the bucket and creates it again in one transaction.
ClearHistory ==
    /\ history' = [id \in Ids |-> None]
    /\ UNCHANGED storeJobs

InHistory == {id \in Ids : history[id] # None}
=============================================================================
