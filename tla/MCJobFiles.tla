------------------------------ MODULE MCJobFiles ------------------------------
(* TLC instance of JobFiles: two jobs with archives.                       *)
EXTENDS JobFiles, FiniteSets

CONSTANTS j1, j2

TwoJobs == {j1, j2}

TwoNzbs == [j \in TwoJobs |-> IF j = j1 THEN <<"main", "par2">>
                                        ELSE <<"main", "part">>]

\* Bound: at most one file, the current one included, is in a working directory.
OneInWork == Cardinality({f \in Files : work[f] # "none"}) <= 1
=============================================================================
