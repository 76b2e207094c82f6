------------------------------ MODULE TaskPool ------------------------------
(***************************************************************************)
(* What a thread pool promises: work is started in the order in which it   *)
(* was submitted, each submission by one thread, and is carried out once.  *)
(***************************************************************************)
EXTENDS Naturals, Sequences

CONSTANTS Thread,  \* the threads of the pool
          Work,    \* work items
          Idle     \* a thread without work

VARIABLES queue,    \* submitted and not yet started
          running,  \* running[t]: what thread t is carrying out
          ran       \* ran[w]: how often w has been carried out

vars == <<queue, running, ran>>

Init ==
  /\ queue = <<>>
  /\ running = [t \in Thread |-> Idle]
  /\ ran = [w \in Work |-> 0]

Submit(w) ==
  /\ queue' = Append(queue, w)
  /\ UNCHANGED <<running, ran>>

Start(t) ==
  /\ queue # <<>> /\ running[t] = Idle
  /\ queue' = Tail(queue)
  /\ running' = [running EXCEPT ![t] = Head(queue)]
  /\ UNCHANGED ran

Finish(t) ==
  /\ running[t] # Idle
  /\ running' = [running EXCEPT ![t] = Idle]
  /\ ran' = [ran EXCEPT ![running[t]] = @ + 1]
  /\ UNCHANGED queue

Next == (\E w \in Work : Submit(w)) \/ (\E t \in Thread : Start(t) \/ Finish(t))

Spec == Init /\ [][Next]_vars
=============================================================================
