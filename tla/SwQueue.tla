------------------------------- MODULE SwQueue -------------------------------
(***************************************************************************)
(* The software queue that connects two pipeline stages                    *)
(* (liberty/support/specpriv-executive/sw_queue.c): a ring of slots in     *)
(* shared memory, each a flag and a value, without a lock or a counter.    *)
(* head belongs to the producer and tail to the consumer; they are moved   *)
(* in the same step as the flag, since no other process reads them.        *)
(*                                                                         *)
(* Definitions with a suffix that the source does not have are faulty      *)
(* variants of the ones they precede, for mutation tests.                  *)
(***************************************************************************)
EXTENDS Integers, Sequences

CONSTANTS Value,     \* what may be sent
          Null,      \* SW_QUEUE_NULL in a value; it may be sent, too
          Slots      \* QUEUE_SIZE / 2

ASSUME SlotsAssumption == Slots \in Nat \ {0}
ASSUME ValueAssumption == Null \in Value

VARIABLES flag, value,   \* queue->data: even and odd words
          head, tail,
          ppc, sending,  \* the producer; the argument of produce
          cpc, received  \* the consumer; what consume last read

ring == <<flag, value>>
vars == <<ring, head, tail, ppc, sending, cpc, received>>

Slot == 0..(Slots - 1)

TypeOK ==
  /\ flag \in [Slot -> BOOLEAN] /\ value \in [Slot -> Value]
  /\ head \in Slot /\ tail \in Slot
  /\ ppc \in {"idle", "wait", "write", "flag"} /\ sending \in Value
  /\ cpc \in {"idle", "wait", "read", "clearValue", "clearFlag", "clear"}
  /\ received \in Value

\* queue->head += 2, back to data[0] at the end of the ring.
After_overrun(i) == IF i + 1 > Slots THEN 0 ELSE i + 1
After(i) == IF i + 1 >= Slots THEN 0 ELSE i + 1

-------------------------------------------------------------------------------
(* produce *)

produce(v) ==
  /\ ppc = "idle" /\ ppc' = "wait" /\ sending' = v
  /\ UNCHANGED <<ring, head, tail, cpc, received>>

\* Spin until the consumer has emptied the slot.
produce_spin_skip == ppc = "wait" /\ ppc' = "write"
                     /\ UNCHANGED <<ring, head, tail, sending, cpc, received>>
produce_spin ==
  /\ ppc = "wait" /\ ~flag[head] /\ ppc' = "write"
  /\ UNCHANGED <<ring, head, tail, sending, cpc, received>>

produce_write ==
  /\ ppc = "write" /\ ppc' = "flag"
  /\ value' = [value EXCEPT ![head] = sending]
  /\ UNCHANGED <<flag, head, tail, sending, cpc, received>>

produce_flag ==
  /\ ppc = "flag" /\ ppc' = "idle"
  /\ flag' = [flag EXCEPT ![head] = TRUE]
  /\ head' = After(head)
  /\ UNCHANGED <<value, tail, sending, cpc, received>>

-------------------------------------------------------------------------------
(* consume *)

consume ==
  /\ cpc = "idle" /\ cpc' = "wait"
  /\ UNCHANGED <<ring, head, tail, ppc, sending, received>>

\* Spin until the producer has filled the slot.
consume_spin ==
  /\ cpc = "wait" /\ flag[tail] /\ cpc' = "read"
  /\ UNCHANGED <<ring, head, tail, ppc, sending, received>>

consume_read ==
  /\ cpc = "read" /\ cpc' = "clearValue"
  /\ received' = value[tail]
  /\ UNCHANGED <<ring, head, tail, ppc, sending>>

consume_clear_value ==
  /\ cpc = "clearValue" /\ cpc' = "clearFlag"
  /\ value' = [value EXCEPT ![tail] = Null]
  /\ UNCHANGED <<flag, head, tail, ppc, sending, received>>

\* The flag is overwritten with the value word, which was just set to NULL.
consume_clear_flag ==
  /\ cpc = "clearFlag" /\ cpc' = "idle"
  /\ flag' = [flag EXCEPT ![tail] = value[tail] # Null]
  /\ tail' = After(tail)
  /\ UNCHANGED <<value, head, ppc, sending, received>>

-------------------------------------------------------------------------------
(* clear and reset *)

\* The consumer leaves the loop: drop what is in the queue, while the
\* producer may still be adding to it.
clear ==
  /\ cpc = "idle" /\ cpc' = "clear"
  /\ UNCHANGED <<ring, head, tail, ppc, sending, received>>

clear_one_value ==
  /\ cpc = "clear" /\ flag[tail]
  /\ value' = [value EXCEPT ![tail] = Null]
  /\ UNCHANGED <<flag, head, tail, ppc, sending, cpc, received>>
clear_one ==
  /\ cpc = "clear" /\ flag[tail]
  /\ flag' = [flag EXCEPT ![tail] = FALSE]
  /\ tail' = After(tail)
  /\ UNCHANGED <<value, head, ppc, sending, cpc, received>>

clear_end ==
  /\ cpc = "clear" /\ ~flag[tail] /\ cpc' = "idle"
  /\ UNCHANGED <<ring, head, tail, ppc, sending, received>>

\* The main process, before it starts the workers.
reset_heads_only ==
  /\ ppc = "idle" /\ cpc = "idle"
  /\ head' = 0 /\ tail' = 0
  /\ UNCHANGED <<ring, ppc, sending, cpc, received>>
reset ==
  /\ ppc = "idle" /\ cpc = "idle"
  /\ head' = 0 /\ tail' = 0
  /\ flag' = [i \in Slot |-> FALSE] /\ value' = [i \in Slot |-> Null]
  /\ UNCHANGED <<ppc, sending, cpc, received>>

Init ==
  /\ flag = [i \in Slot |-> FALSE] /\ value = [i \in Slot |-> Null]
  /\ head = 0 /\ tail = 0
  /\ ppc = "idle" /\ sending = Null
  /\ cpc = "idle" /\ received = Null

Producer == (\E v \in Value : produce(v)) \/ produce_spin \/ produce_write \/ produce_flag

\* The steps of one call of consume
Consuming == consume_spin \/ consume_read \/ consume_clear_value \/ consume_clear_flag
Clearing  == clear_one \/ clear_end
Consumer  == consume \/ Consuming \/ clear \/ Clearing

Next == Producer \/ Consumer \/ reset

Spec == Init /\ [][Next]_vars

\* The consuming stage consumes in every iteration until it leaves the loop.
Fairness ==
  /\ WF_vars(produce_spin \/ produce_write \/ produce_flag)
  /\ WF_vars(consume) /\ WF_vars(Consuming) /\ WF_vars(Clearing)

FairSpec == Spec /\ Fairness

-------------------------------------------------------------------------------
(* Properties *)

\* How many slots are flagged, as head and tail and one flag tell it.
Occupied == IF head > tail THEN head - tail
            ELSE IF head < tail \/ flag[tail] THEN head - tail + Slots
            ELSE 0

\* The k-th slot from the tail.
FromTail(k) == IF tail + k >= Slots THEN tail + k - Slots ELSE tail + k

\* The consumer has read the slot at the tail, but not yet given it back.
Taken == IF cpc \in {"clearValue", "clearFlag"} THEN 1 ELSE 0

\* The values sent and not yet received.
Contents == [k \in 1..(Occupied - Taken) |-> value[FromTail(k - 1 + Taken)]]

Fifo == INSTANCE FifoQueue WITH queue <- Contents, Capacity <- Slots

\* sw_queue.c implements a FIFO queue: the consumer never reads a slot before
\* its value is there, the producer never overwrites a value before it is
\* read, and clearing a slot never erases a value that is sent later.
ImplementsFifo == Fifo!Spec

\* The flagged slots are the Occupied ones from the tail on: the spinning
\* tests of a single flag mean "full" and "empty".
FlagsContiguous == \A k \in Slot : flag[FromTail(k)] <=> k < Occupied

\* A full queue is not a dead end: a blocked produce returns.
ProduceReturns == ppc = "wait" ~> ppc = "idle"
=============================================================================
