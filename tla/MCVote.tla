------------------------------- MODULE MCVote -------------------------------
(***************************************************************************)
(* Instances of module Vote for TLC.                                       *)
(***************************************************************************)
EXTENDS Vote

\* Every node misses the heartbeats of the nodes behind it.
Forward == {e \in Node \X Node : e[1] < e[2]}

\* All votes are given at the same time.
InTime == [n \in Node |-> {1}]

\* The last node may vote too late.
LastLate == [n \in Node |-> IF n = N - 1 THEN {1, 2} ELSE {1}]
=============================================================================
