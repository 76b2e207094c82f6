------------------------------ MODULE MCTPool -------------------------------
(* A small thread pool: two threads with four slots, and five items. *)
EXTENDS TPool, TLC

CONSTANTS c1, c2

MCNumItems == c1 :> 3 @@ c2 :> 2
=============================================================================
