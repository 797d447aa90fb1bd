------------------------------ MODULE JobLedger ------------------------------
(***************************************************************************)
(* What gobin promises about the jobs it is given, whatever the engine,    *)
(* the requests, the crashes and the restarts do: a job whose record has   *)
(* been saved is on disk as pending until it is in the history, and stays  *)
(* in the history, unless a user deletes it.                               *)
(***************************************************************************)
CONSTANT Ids

VARIABLE place  \* where the durable state has a job

Place == {"absent", "pending", "finished", "released"}

LedgerTypeOK == place \in [Ids -> Place]

LedgerInit == place = [id \in Ids |-> "absent"]

Accept(id) ==
    /\ place[id] = "absent"
    /\ place' = [place EXCEPT ![id] = "pending"]

Finish(id) ==
    /\ place[id] = "pending"
    /\ place' = [place EXCEPT ![id] = "finished"]

\* A user deletes the jobs of S, wherever they are.
Release(S) ==
    place' = [id \in Ids |-> IF id \in S THEN "released" ELSE place[id]]

LedgerNext ==
    \/ \E id \in Ids : Accept(id) \/ Finish(id)
    \/ \E S \in SUBSET Ids : Release(S)

LedgerSpec == LedgerInit /\ [][LedgerNext]_place
=============================================================================
