------------------------------ MODULE FifoQueue ------------------------------
(***************************************************************************)
(* What a software queue promises the two pipeline stages it connects: the *)
(* consumer receives the producer's values in order, each once, except for *)
(* those that were discarded when a stage left the loop.                   *)
(***************************************************************************)
EXTENDS Naturals, Sequences

CONSTANTS Value,     \* what may be sent
          Capacity   \* how many values fit

VARIABLES queue,     \* sent and not yet received
          received   \* the value most recently received

vars == <<queue, received>>

Init == queue = <<>> /\ received \in Value

Produce(v) == Len(queue) < Capacity /\ queue' = Append(queue, v) /\ UNCHANGED received

Consume == queue # <<>> /\ received' = Head(queue) /\ queue' = Tail(queue)

Discard == queue # <<>> /\ queue' = Tail(queue) /\ UNCHANGED received

Reset == queue' = <<>> /\ UNCHANGED received

Next == (\E v \in Value : Produce(v)) \/ Consume \/ Discard \/ Reset

Spec == Init /\ [][Next]_vars
=============================================================================
