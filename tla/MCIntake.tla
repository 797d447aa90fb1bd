------------------------------ MODULE MCIntake ------------------------------
(* Two feeds with an item in common, which has another link in the second, *)
(* and one without a guid.                                                 *)
EXTENDS Intake, TLC

CONSTANTS i1, i2, i3, g1, l1, l2, l3

TwoFeeds == {<<i1, i3>>, <<i2>>}
Guids == i1 :> g1 @@ i2 :> g1 @@ i3 :> None
Links == i1 :> l1 @@ i2 :> l2 @@ i3 :> l3

IntakeSymmetry == Permutations(Clients) \cup Permutations(Contents)

\* The three ways in do not touch each other's state: one of them is used at a
\* time, next to the engine and the jobs that came in the others.
WatchUsed == todo # {} \/ parsed # None \/ \E f \in Files : dir[f] # None
FeedsUsed == items # <<>> \/ seen # {}
RequestsUsed == \E c \in Clients : request[c] # None

OneWayIn ==
    /\ ~(WatchUsed /\ FeedsUsed)
    /\ ~(WatchUsed /\ RequestsUsed)
    /\ ~(FeedsUsed /\ RequestsUsed)

=============================================================================
