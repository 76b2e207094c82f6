------------------------------- MODULE TPool --------------------------------
(***************************************************************************)
(* The thread pool of liberty/support/tpool: a circular buffer of work     *)
(* slots, a lock for its two indices and two semaphores that count free    *)
(* and occupied slots.                                                     *)
(*                                                                         *)
(* The callers use it as its header suggests for a parallel loop: each one *)
(* adds its items, every item with a handle of its own, waits on the       *)
(* handles in turn and deletes them.  When all of them have left, Fin      *)
(* calls tpool_finish.                                                     *)
(*                                                                         *)
(* A step is one access to a semaphore, to the lock, to a slot or to an    *)
(* index.  An interrupted sem_wait is repeated (and not shown), except in  *)
(* tpool_wait, which returns.                                              *)
(***************************************************************************)
EXTENDS Naturals, Sequences, FiniteSets

CONSTANTS Thread,    \* the threads of the pool
          Client,    \* callers of tpool_add_work and tpool_wait
          Fin,       \* the caller of tpool_finish
          NumItems,  \* NumItems[c]: how many items client c adds
          MaxIntr,   \* how many signals arrive during tpool_wait
          Exit,      \* the work routine pthread_exit
          Nothing    \* no work, nobody

NumThreads == Cardinality(Thread)
NumSlots == 2 * NumThreads
Slot == 0 .. NumSlots - 1
Caller == Client \cup {Fin}
Item == UNION {{c} \X (1 .. NumItems[c]) : c \in Client}
Work == Item \cup {Exit}

ASSUME TPoolAssumption ==
  /\ IsFiniteSet(Thread) /\ NumThreads > 0 /\ IsFiniteSet(Client)
  /\ NumItems \in [Client -> Nat \ {0}] /\ MaxIntr \in Nat
  /\ Fin \notin Client /\ Thread \cap Caller = {}
  /\ Nothing \notin Work \cup Thread \cup Caller /\ Exit \notin Item

VARIABLES
  free,    \* tpool_freeSlots
  occ,     \* tpool_occupiedSlots
  lock,    \* tpool_lock: who holds it
  slots,   \* tpool_workSlots
  put,     \* tpool_workPut
  pull,    \* tpool_workPull
  pc,      \* what a caller or a thread does next
  n,       \* n[c]: the loop counter of caller c
  work,    \* work[t]: what thread t took from its slot
  handle,  \* handle_semaphore of an item
  alive,   \* the handles that were not deleted
  ran,     \* history: how often a piece of work was carried out
  early    \* history: the items whose tpool_wait was interrupted

vars == <<free, occ, lock, slots, put, pull, pc, n, work, handle, alive, ran,
          early>>
ring == <<slots, put, pull>>
handles == <<handle, alive, early>>

goto(p, where) == pc' = [pc EXCEPT ![p] = where]

\* Mutant: the semaphore of a handle starts at 1.
Init_signalled ==
  /\ free = NumSlots /\ occ = 0 /\ lock = Nothing
  /\ slots = [s \in Slot |-> Nothing] /\ put = 0 /\ pull = 0
  /\ pc = [p \in Thread \cup Caller |->
             IF p \in Thread THEN "wait" ELSE IF p = Fin THEN "idle" ELSE "add"]
  /\ n = [c \in Caller |-> 1]
  /\ work = [t \in Thread |-> Nothing]
  /\ handle = [i \in Item |-> 1] /\ alive = Item
  /\ ran = [w \in Work |-> 0]
  /\ early = {}

\* tpool_init and tpool_new_handles
Init ==
  /\ free = NumSlots /\ occ = 0 /\ lock = Nothing
  /\ slots = [s \in Slot |-> Nothing] /\ put = 0 /\ pull = 0
  /\ pc = [p \in Thread \cup Caller |->
             IF p \in Thread THEN "wait" ELSE IF p = Fin THEN "idle" ELSE "add"]
  /\ n = [c \in Caller |-> 1]
  /\ work = [t \in Thread |-> Nothing]
  /\ handle = [i \in Item |-> 0] /\ alive = Item
  /\ ran = [w \in Work |-> 0]
  /\ early = {}

-----------------------------------------------------------------------------
(* tpool_add_work *)

\* What the caller adds: its next item, or pthread_exit.
Adds(c) == IF c = Fin THEN Exit ELSE <<c, n[c]>>

\* Mutant: the caller does not wait for room.
add_room_none(c) ==
  /\ pc[c] = "add"
  /\ free' = IF free > 0 THEN free - 1 ELSE 0
  /\ goto(c, "add_lock")
  /\ UNCHANGED <<occ, lock, ring, n, work, handles, ran>>

add_room(c) ==
  /\ pc[c] = "add"
  /\ free > 0
  /\ free' = free - 1
  /\ goto(c, "add_lock")
  /\ UNCHANGED <<occ, lock, ring, n, work, handles, ran>>

add_lock(c) ==
  /\ pc[c] = "add_lock"
  /\ lock = Nothing
  /\ lock' = c
  /\ goto(c, "add_slot")
  /\ UNCHANGED <<free, occ, ring, n, work, handles, ran>>

add_slot(c) ==
  /\ pc[c] = "add_slot"
  /\ slots' = [slots EXCEPT ![put] = Adds(c)]
  /\ goto(c, "add_advance")
  /\ UNCHANGED <<free, occ, lock, put, pull, n, work, handles, ran>>

\* Mutant: the index does not wrap.
After_beyond(k) == k + 1

After(k) == (k + 1) % NumSlots

add_advance(c) ==
  /\ pc[c] = "add_advance"
  /\ put' = After(put)
  /\ lock' = Nothing
  /\ goto(c, "add_post")
  /\ UNCHANGED <<free, occ, slots, pull, n, work, handles, ran>>

\* Then the next item; after the last one tpool_wait_on_handles, or in
\* tpool_finish the threads are joined.
add_post(c) ==
  /\ pc[c] = "add_post"
  /\ occ' = occ + 1
  /\ IF n[c] < (IF c = Fin THEN NumThreads ELSE NumItems[c])
     THEN goto(c, "add") /\ n' = [n EXCEPT ![c] = @ + 1]
     ELSE /\ goto(c, IF c = Fin THEN "join" ELSE "await")
          /\ n' = [n EXCEPT ![c] = 1]
  /\ UNCHANGED <<free, lock, ring, work, handles, ran>>

-----------------------------------------------------------------------------
(* tpool_wait_on_handles, tpool_delete_handles and tpool_finish *)

Waited(c) ==
  /\ goto(c, IF n[c] < NumItems[c] THEN "await" ELSE "delete")
  /\ n' = [n EXCEPT ![c] = @ + 1]

tpool_wait(c) ==
  /\ pc[c] = "await"
  /\ handle[<<c, n[c]>>] > 0
  /\ handle' = [handle EXCEPT ![<<c, n[c]>>] = @ - 1]
  /\ Waited(c)
  /\ UNCHANGED <<free, occ, lock, ring, work, alive, early, ran>>

\* sem_wait returns with an error, which nobody looks at.
tpool_wait_interrupted(c) ==
  /\ pc[c] = "await"
  /\ Cardinality(early) < MaxIntr
  /\ early' = early \cup {<<c, n[c]>>}
  /\ Waited(c)
  /\ UNCHANGED <<free, occ, lock, ring, work, handle, alive, ran>>

\* Mutant: the handles of every caller are deleted.
tpool_delete_handles_all(c) ==
  /\ pc[c] = "delete"
  /\ alive' = {}
  /\ goto(c, "left")
  /\ UNCHANGED <<free, occ, lock, ring, n, work, handle, early, ran>>

tpool_delete_handles(c) ==
  /\ pc[c] = "delete"
  /\ alive' = alive \ ({c} \X (1 .. NumItems[c]))
  /\ goto(c, "left")
  /\ UNCHANGED <<free, occ, lock, ring, n, work, handle, early, ran>>

tpool_finish ==
  /\ pc[Fin] = "idle"
  /\ \A c \in Client : pc[c] = "left"
  /\ goto(Fin, "add")
  /\ UNCHANGED <<free, occ, lock, ring, n, work, handles, ran>>

\* Mutant: the threads are not joined.
finish_join_none ==
  /\ pc[Fin] = "join"
  /\ goto(Fin, "finished")
  /\ UNCHANGED <<free, occ, lock, ring, n, work, handles, ran>>

\* pthread_join of all threads, then the pool is destroyed.
finish_join ==
  /\ pc[Fin] = "join"
  /\ \A t \in Thread : pc[t] = "exited"
  /\ goto(Fin, "finished")
  /\ UNCHANGED <<free, occ, lock, ring, n, work, handles, ran>>

-----------------------------------------------------------------------------
(* tpool_worker_loop *)

loop_wait(t) ==
  /\ pc[t] = "wait"
  /\ occ > 0
  /\ occ' = occ - 1
  /\ goto(t, "lock")
  /\ UNCHANGED <<free, lock, ring, n, work, handles, ran>>

loop_lock(t) ==
  /\ pc[t] = "lock"
  /\ lock = Nothing
  /\ lock' = t
  /\ goto(t, "slot")
  /\ UNCHANGED <<free, occ, ring, n, work, handles, ran>>

loop_slot(t) ==
  /\ pc[t] = "slot"
  /\ work' = [work EXCEPT ![t] = slots[pull]]
  /\ goto(t, "advance")
  /\ UNCHANGED <<free, occ, lock, ring, n, handles, ran>>

loop_advance(t) ==
  /\ pc[t] = "advance"
  /\ pull' = After(pull)
  /\ lock' = Nothing
  /\ goto(t, "post")
  /\ UNCHANGED <<free, occ, slots, put, n, work, handles, ran>>

\* Mutant: nobody is told of the free slot.
loop_post_none(t) ==
  /\ pc[t] = "post"
  /\ goto(t, "run")
  /\ UNCHANGED <<free, occ, lock, ring, n, work, handles, ran>>

loop_post(t) ==
  /\ pc[t] = "post"
  /\ free' = free + 1
  /\ goto(t, "run")
  /\ UNCHANGED <<occ, lock, ring, n, work, handles, ran>>

\* work(arg), which does not return when it is pthread_exit.
loop_run(t) ==
  /\ pc[t] = "run"
  /\ ran' = [ran EXCEPT ![work[t]] = @ + 1]
  /\ goto(t, IF work[t] = Exit THEN "exited" ELSE "signal")
  /\ UNCHANGED <<free, occ, lock, ring, n, work, handles>>

loop_signal(t) ==
  /\ pc[t] = "signal"
  /\ handle' = [handle EXCEPT ![work[t]] = @ + 1]
  /\ goto(t, "wait")
  /\ UNCHANGED <<free, occ, lock, ring, n, work, alive, early, ran>>

-----------------------------------------------------------------------------
CallerStep(c) ==
  \/ add_room(c) \/ add_lock(c) \/ add_slot(c) \/ add_advance(c) \/ add_post(c)
  \/ tpool_wait(c) \/ tpool_wait_interrupted(c) \/ tpool_delete_handles(c)

FinStep == CallerStep(Fin) \/ tpool_finish \/ finish_join

ThreadStep(t) ==
  \/ loop_wait(t) \/ loop_lock(t) \/ loop_slot(t) \/ loop_advance(t)
  \/ loop_post(t) \/ loop_run(t) \/ loop_signal(t)

Next ==
  \/ \E c \in Client : CallerStep(c)
  \/ FinStep
  \/ \E t \in Thread : ThreadStep(t)

Spec == Init /\ [][Next]_vars
Fairness ==
  /\ \A c \in Client : WF_vars(CallerStep(c))
  /\ WF_vars(FinStep)
  /\ \A t \in Thread : WF_vars(ThreadStep(t))
FairSpec == Spec /\ Fairness

-----------------------------------------------------------------------------
(* Properties *)

\* The types of the variables.
TypeOK ==
  /\ free \in 0 .. NumSlots /\ occ \in 0 .. NumSlots
  /\ lock \in Thread \cup Caller \cup {Nothing}
  /\ slots \in [Slot -> Work \cup {Nothing}]
  /\ put \in Slot /\ pull \in Slot
  /\ pc \in [Thread \cup Caller ->
       {"wait", "lock", "slot", "advance", "post", "run", "signal", "exited",
        "idle", "add", "add_lock", "add_slot", "add_advance", "add_post",
        "await", "delete", "left", "join", "finished"}]
  /\ n \in [Caller -> Nat]
  /\ work \in [Thread -> Work \cup {Nothing}]
  /\ handle \in [Item -> Nat] /\ alive \subseteq Item
  /\ ran \in [Work -> Nat] /\ early \subseteq Item

\* The slots that hold work nobody has taken: those counted as occupied, those
\* whose taker or putter has not yet told the other side.
Held == occ + Cardinality({t \in Thread : pc[t] \in {"lock", "slot", "advance"}})
            + Cardinality({c \in Caller : pc[c] = "add_post"})

\* The work in these slots, oldest first.
Queue == [k \in 1 .. Held |-> slots[(pull + k - 1) % NumSlots]]

\* What a thread is carrying out.
Running == [t \in Thread |->
              IF pc[t] \in {"post", "run"} THEN work[t] ELSE Nothing]

Pool == INSTANCE TaskPool WITH Idle <- Nothing, queue <- Queue,
                               running <- Running

\* The pool does what a thread pool promises: whatever the interleaving of
\* callers and threads, work that was added is taken from its slot before the
\* slot is reused, by one thread and in order, and is carried out once.
ImplementsPool == Pool!Spec

\* When tpool_finish returns, every item that was added has been carried out,
\* although the threads were told to exit by work of the same queue.
FinishComplete ==
  pc[Fin] = "finished" =>
    (\A i \in Item : ran[i] = 1) /\ ran[Exit] = NumThreads

\* "wait for a particular work item to complete" (tpool.h): a caller that has
\* waited for an item without being interrupted finds it carried out.
WaitMeansRan ==
  \A i \in Item \ early :
    LET c == i[1]
    IN (pc[c] \in {"delete", "left"} \/ (pc[c] = "await" /\ n[c] > i[2]))
         => ran[i] = 1

\* A thread signals a handle only while it exists.
HandleAlive ==
  \A t \in Thread : pc[t] = "signal" => work[t] \in alive \cup early

\* Every call returns: nobody waits forever for room, for work or for a
\* handle, and tpool_finish comes to its end.
FinishReturns == <>(pc[Fin] = "finished")
=============================================================================
