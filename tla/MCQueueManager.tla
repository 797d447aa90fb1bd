--------------------------- MODULE MCQueueManager ---------------------------
(* TLC instance of QueueManager: IDs are interchangeable, so symmetric.    *)
EXTENDS QueueManager
LOCAL INSTANCE TLC

IdSymmetry == Permutations(Ids)
=============================================================================
