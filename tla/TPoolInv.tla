----------------------------- MODULE TPoolInv -----------------------------
(*****************************************************************************)
(* The inductive invariant of TPool, and what the actions do to the ring of  *)
(* slots, the lock and the places of callers and threads: for every number   *)
(* of threads, callers and items.                                            *)
(*****************************************************************************)
EXTENDS TPool, FiniteSetTheorems, SequenceTheorems, TLAPS

-----------------------------------------------------------------------------
(* The inductive invariant *)

Proc == Thread \cup Caller

\* How many processes of S are at one of the places L.
Count(S, L) == Cardinality({p \in S : pc[p] \in L})

Taking    == {"lock", "slot", "advance"}
Putting   == {"add_lock", "add_slot", "add_advance"}
InSection == {"add_slot", "add_advance", "slot", "advance"}

\* The k-th slot from the one that is pulled next.
FromPull(k) == (pull + k) % NumSlots

\* Every slot is free, claimed, held, or just emptied; the held ones lie
\* between the two indices.
RingInv ==
  /\ free + Count(Caller, Putting) + Count(Thread, {"post"}) + Held = NumSlots
  /\ put = (pull + Held) % NumSlots

LockInv == \A p \in Proc : pc[p] \in InSection <=> lock = p

\* Whoever is in the critical section has written, or read, its slot.
SlotInv ==
  /\ \A c \in Caller : pc[c] = "add_advance" => slots[put] = Adds(c)
  /\ \A t \in Thread : pc[t] = "advance" => work[t] = slots[pull]

QueueInv == \A k \in 1 .. Held : Queue[k] \in Work

Adding == {"add", "add_lock", "add_slot", "add_advance", "add_post"}

ClientOK(c) ==
  /\ pc[c] \in Adding \cup {"await", "delete", "left"}
  /\ pc[c] \in Adding \cup {"await"} => n[c] \in 1 .. NumItems[c]

ThreadOK(t) ==
  /\ pc[t] \in Taking \cup {"wait", "post", "run", "signal", "exited"}
  /\ pc[t] \in {"post", "run"} => work[t] \in Work
  /\ pc[t] = "signal" => work[t] \in Item

FinInv ==
  /\ pc[Fin] \in Adding \cup {"idle", "join", "finished"}
  /\ pc[Fin] # "idle" => \A c \in Client : pc[c] = "left"
  /\ pc[Fin] = "finished" => \A t \in Thread : pc[t] = "exited"

\* Thread t has taken pthread_exit.
Leaving(t) == pc[t] = "exited" \/ (pc[t] \in {"post", "run"} /\ work[t] = Exit)

\* pthread_exit is added after all items, and is therefore taken after them.
ExitInv ==
  /\ \A j, k \in 1 .. Held : j < k /\ Queue[j] = Exit => Queue[k] = Exit
  /\ \A t \in Thread : Leaving(t) => \A k \in 1 .. Held : Queue[k] = Exit
  /\ pc[Fin] = "idle" => /\ \A k \in 1 .. Held : Queue[k] # Exit
                         /\ \A t \in Thread : ~Leaving(t)
  /\ ran[Exit] = Count(Thread, {"exited"})

\* Where an item is: its places in the queue, the threads that have taken it
\* and not yet signalled its handle.
Places(i)  == {k \in 1 .. Held : Queue[k] = i}
Holders(i) == {t \in Thread : pc[t] \in {"post", "run", "signal"} /\ work[t] = i}

\* Item i has been added.
Submitted(i) ==
  \/ pc[i[1]] \in {"await", "delete", "left"}
  \/ i[2] < n[i[1]]
  \/ i[2] = n[i[1]] /\ pc[i[1]] = "add_post"

\* Its caller has returned from the wait for it, other than by interruption.
WaitedFor(i) ==
  /\ pc[i[1]] \in {"delete", "left"} \/ (pc[i[1]] = "await" /\ n[i[1]] > i[2])
  /\ i \notin early

ItemOK(i) ==
  /\ \A j, k \in Places(i) : j = k
  /\ \A t, u \in Holders(i) : t = u
  /\ Places(i) # {} => Holders(i) = {} /\ ran[i] = 0
  /\ \A t \in Holders(i) : ran[i] = IF pc[t] = "signal" THEN 1 ELSE 0
  /\ Places(i) # {} \/ Holders(i) # {} => handle[i] = 0 /\ ~WaitedFor(i)
  /\ handle[i] = 0 \/ (handle[i] = 1 /\ ran[i] = 1 /\ ~WaitedFor(i))
  /\ ran[i] \in {0, 1}
  /\ Submitted(i) <=> Places(i) # {} \/ Holders(i) # {} \/ ran[i] = 1
  /\ WaitedFor(i) => ran[i] = 1
  /\ i \notin alive => pc[i[1]] = "left"

IInv ==
  /\ TypeOK /\ RingInv /\ LockInv /\ SlotInv /\ QueueInv /\ FinInv /\ ExitInv
  /\ \A c \in Client : ClientOK(c)
  /\ \A t \in Thread : ThreadOK(t)
  /\ \A i \in Item : ItemOK(i)

-----------------------------------------------------------------------------
(* Lemmas on remainders, counting and the ring *)

LEMMA ModOnce ==
  ASSUME NEW N \in Nat \ {0}, NEW a \in Nat, a < 2 * N
  PROVE  a % N = IF a < N THEN a ELSE a - N
  BY Z3

\* When one element joins or leaves a subset, its size changes by one.
LEMMA CountStep ==
  ASSUME NEW S, IsFiniteSet(S), NEW A \in SUBSET S, NEW B \in SUBSET S, NEW p,
         \A x \in S : x # p => (x \in A <=> x \in B)
  PROVE  /\ Cardinality(A) \in Nat /\ Cardinality(B) \in Nat
         /\ Cardinality(B) = Cardinality(A) + (IF p \in B THEN 1 ELSE 0)
                                            - (IF p \in A THEN 1 ELSE 0)
         /\ p \in A => Cardinality(A) >= 1
<1>1. IsFiniteSet(A) /\ IsFiniteSet(B) /\ Cardinality(A) \in Nat /\ Cardinality(B) \in Nat
  BY FS_Subset, FS_CardinalityType, Zenon
<1>2. CASE p \in A <=> p \in B
  <2>1. A = B
    BY <1>2
  <2>2. p \in A => Cardinality(A) # 0
    BY <1>1, FS_EmptySet, Zenon
  <2> QED
    BY <1>1, <1>2, <2>1, <2>2
<1>3. CASE p \notin A /\ p \in B
  <2>1. B = A \cup {p}
    BY <1>3, Zenon
  <2> QED
    BY <1>1, <1>3, <2>1, FS_AddElement
<1>4. CASE p \in A /\ p \notin B
  <2>1. B = A \ {p}
    BY <1>4, Zenon
  <2>2. Cardinality(B) = Cardinality(A) - 1
    BY <1>1, <1>4, <2>1, FS_RemoveElement, Zenon
  <2> QED
    BY <1>1, <1>4, <2>2
<1> QED
  BY <1>2, <1>3, <1>4, Zenon

LEMMA ConstFacts ==
  /\ IsFiniteSet(Thread) /\ IsFiniteSet(Caller)
  /\ NumThreads \in Nat \ {0} /\ NumSlots \in Nat \ {0}
  /\ \A c \in Caller : c \notin Thread
  /\ Fin \in Caller /\ Fin \notin Thread
  /\ Nothing \notin Proc
<1>1. IsFiniteSet(Caller)
  BY TPoolAssumption, FS_AddElement, Zenon DEF Caller
<1>2. NumThreads \in Nat
  BY TPoolAssumption, FS_CardinalityType, Zenon DEF NumThreads
<1> QED
  BY <1>1, <1>2, TPoolAssumption DEF Caller, NumSlots, Proc

\* What a move of process p from one place to another does to the counts of
\* the ring.
LEMMA Moves ==
  ASSUME TypeOK, NEW p \in Proc, NEW q, goto(p, q)
  PROVE  /\ \A S, L : S \in {Thread, Caller} =>
              /\ Count(S, L) \in Nat
              /\ Count(S, L)' = Count(S, L) + (IF p \in S /\ q \in L THEN 1 ELSE 0)
                                            - (IF p \in S /\ pc[p] \in L THEN 1 ELSE 0)
              /\ p \in S /\ pc[p] \in L => Count(S, L) >= 1
         /\ pc'[p] = q /\ \A r \in Proc : r # p => pc'[r] = pc[r]
<1>1. DOMAIN pc = Proc /\ pc = [x \in Proc |-> pc[x]] /\ pc' = [pc EXCEPT ![p] = q]
  BY Zenon DEF TypeOK, goto, Proc
<1>2. ASSUME NEW S, NEW L, S \in {Thread, Caller}
      PROVE  /\ Count(S, L) \in Nat
             /\ Count(S, L)' = Count(S, L) + (IF p \in S /\ q \in L THEN 1 ELSE 0)
                                           - (IF p \in S /\ pc[p] \in L THEN 1 ELSE 0)
             /\ p \in S /\ pc[p] \in L => Count(S, L) >= 1
  <2>1. IsFiniteSet(S) /\ S \subseteq Proc
    BY <1>2, ConstFacts, Zenon DEF Proc
  <2>2. Count(S, L)' = Cardinality({x \in S : pc'[x] \in L})
    BY <1>2, Zenon DEF Count
  <2> DEFINE A == {x \in S : pc[x] \in L}
             B == {x \in S : pc'[x] \in L}
  <2>3. /\ Cardinality(A) \in Nat /\ Cardinality(B) \in Nat
        /\ Cardinality(B) = Cardinality(A) + (IF p \in B THEN 1 ELSE 0)
                                           - (IF p \in A THEN 1 ELSE 0)
        /\ p \in A => Cardinality(A) >= 1
    <3>1. \A x \in S : x # p => (x \in A <=> x \in B)
      BY <1>1, <2>1, Zenon
    <3>2. A \in SUBSET S /\ B \in SUBSET S
      BY Zenon
    <3> HIDE DEF A, B
    <3> QED
      BY ONLY <2>1, <3>1, <3>2, CountStep
  <2>4. Count(S, L) = Cardinality(A) /\ Count(S, L)' = Cardinality(B)
    BY <2>2, Zenon DEF Count
  <2>5. (p \in A <=> p \in S /\ pc[p] \in L) /\ (p \in B <=> p \in S /\ q \in L)
    BY <1>1, Zenon
  <2> HIDE DEF A, B
  <2> QED
    BY <2>3, <2>4, <2>5, Zenon
<1> QED
  BY <1>1, <1>2, Zenon

LEMMA HeldIs ==
  /\ Held = occ + Count(Thread, Taking) + Count(Caller, {"add_post"})
  /\ Held' = occ' + Count(Thread, Taking)' + Count(Caller, {"add_post"})'
  BY Zenon DEF Held, Count, Taking

\* The counts when caller c, or thread t, moves.
LEMMA CallerMoves ==
  ASSUME TypeOK, NEW c \in Caller, NEW q, goto(c, q)
  PROVE  /\ Count(Thread, Taking) \in Nat /\ Count(Thread, {"post"}) \in Nat
         /\ Count(Caller, Putting) \in Nat /\ Count(Caller, {"add_post"}) \in Nat
         /\ Count(Thread, Taking)' = Count(Thread, Taking)
         /\ Count(Thread, {"post"})' = Count(Thread, {"post"})
         /\ Count(Thread, {"exited"})' = Count(Thread, {"exited"})
         /\ Count(Caller, Putting)' =
              Count(Caller, Putting) + (IF q \in Putting THEN 1 ELSE 0)
                                     - (IF pc[c] \in Putting THEN 1 ELSE 0)
         /\ Count(Caller, {"add_post"})' =
              Count(Caller, {"add_post"}) + (IF q = "add_post" THEN 1 ELSE 0)
                                          - (IF pc[c] = "add_post" THEN 1 ELSE 0)
         /\ pc[c] \in Putting => Count(Caller, Putting) >= 1
         /\ pc[c] = "add_post" => Count(Caller, {"add_post"}) >= 1
         /\ pc'[c] = q /\ \A r \in Proc : r # c => pc'[r] = pc[r]
<1>1. c \in Proc /\ c \notin Thread
  BY ConstFacts, Zenon DEF Proc
<1>2. \A S, L : S \in {Thread, Caller} =>
         /\ Count(S, L) \in Nat
         /\ Count(S, L)' = Count(S, L) + (IF c \in S /\ q \in L THEN 1 ELSE 0)
                                       - (IF c \in S /\ pc[c] \in L THEN 1 ELSE 0)
         /\ c \in S /\ pc[c] \in L => Count(S, L) >= 1
  BY <1>1, Moves, Zenon
<1>3. \A L : Count(Thread, L) \in Nat /\ Count(Thread, L)' = Count(Thread, L)
  BY <1>1, <1>2
<1>4. \A L : /\ Count(Caller, L) \in Nat
             /\ Count(Caller, L)' = Count(Caller, L) + (IF q \in L THEN 1 ELSE 0)
                                                     - (IF pc[c] \in L THEN 1 ELSE 0)
             /\ pc[c] \in L => Count(Caller, L) >= 1
  BY <1>1, <1>2
<1>5. pc'[c] = q /\ \A r \in Proc : r # c => pc'[r] = pc[r]
  BY <1>1, Moves, Zenon
<1> QED
  BY <1>3, <1>4, <1>5, Zenon

LEMMA ThreadMoves ==
  ASSUME TypeOK, NEW t \in Thread, NEW q, goto(t, q)
  PROVE  /\ Count(Thread, Taking) \in Nat /\ Count(Thread, {"post"}) \in Nat
         /\ Count(Caller, Putting) \in Nat /\ Count(Caller, {"add_post"}) \in Nat
         /\ Count(Thread, {"exited"}) \in Nat
         /\ Count(Caller, Putting)' = Count(Caller, Putting)
         /\ Count(Caller, {"add_post"})' = Count(Caller, {"add_post"})
         /\ Count(Thread, Taking)' =
              Count(Thread, Taking) + (IF q \in Taking THEN 1 ELSE 0)
                                    - (IF pc[t] \in Taking THEN 1 ELSE 0)
         /\ Count(Thread, {"post"})' =
              Count(Thread, {"post"}) + (IF q = "post" THEN 1 ELSE 0)
                                      - (IF pc[t] = "post" THEN 1 ELSE 0)
         /\ Count(Thread, {"exited"})' =
              Count(Thread, {"exited"}) + (IF q = "exited" THEN 1 ELSE 0)
                                        - (IF pc[t] = "exited" THEN 1 ELSE 0)
         /\ pc[t] \in Taking => Count(Thread, Taking) >= 1
         /\ pc[t] = "post" => Count(Thread, {"post"}) >= 1
         /\ pc'[t] = q /\ \A r \in Proc : r # t => pc'[r] = pc[r]
<1>1. t \in Proc /\ t \notin Caller
  BY ConstFacts, Zenon DEF Proc
<1>2. \A S, L : S \in {Thread, Caller} =>
         /\ Count(S, L) \in Nat
         /\ Count(S, L)' = Count(S, L) + (IF t \in S /\ q \in L THEN 1 ELSE 0)
                                       - (IF t \in S /\ pc[t] \in L THEN 1 ELSE 0)
         /\ t \in S /\ pc[t] \in L => Count(S, L) >= 1
  BY <1>1, Moves, Zenon
<1>3. \A L : Count(Caller, L) \in Nat /\ Count(Caller, L)' = Count(Caller, L)
  BY <1>1, <1>2
<1>4. \A L : /\ Count(Thread, L) \in Nat
             /\ Count(Thread, L)' = Count(Thread, L) + (IF q \in L THEN 1 ELSE 0)
                                                     - (IF pc[t] \in L THEN 1 ELSE 0)
             /\ pc[t] \in L => Count(Thread, L) >= 1
  BY <1>1, <1>2
<1>5. pc'[t] = q /\ \A r \in Proc : r # t => pc'[r] = pc[r]
  BY <1>1, Moves, Zenon
<1> QED
  BY <1>3, <1>4, <1>5, Zenon

\* Positions of a ring of N slots.
LEMMA RingFacts ==
  ASSUME NEW N \in Nat \ {0}, NEW a \in 0 .. N - 1
  PROVE  /\ \A k \in 0 .. N : (a + k) % N \in 0 .. N - 1
         /\ \A j, k \in 0 .. N - 1 : (a + j) % N = (a + k) % N => j = k
         /\ \A k \in 0 .. N - 1 : (((a + k) % N) + 1) % N = (a + (k + 1)) % N
         /\ \A k \in 0 .. N - 1 : (((a + 1) % N) + k) % N = (a + (k + 1)) % N
         /\ (a + 0) % N = a /\ (a + 1) % N \in 0 .. N - 1
<1>0. ASSUME NEW b \in 0 .. N - 1, NEW k \in 0 .. N
      PROVE  (b + k) % N = IF b + k < N THEN b + k ELSE b + k - N
  <2>1. PICK m \in Nat : m = b + k
    OBVIOUS
  <2>2. m < 2 * N
    BY <2>1
  <2>3. m % N = IF m < N THEN m ELSE m - N
    BY <2>2, ModOnce, Zenon
  <2> QED
    BY <2>1, <2>3
<1>1. \A k \in 0 .. N : (a + k) % N = IF a + k < N THEN a + k ELSE a + k - N
  BY <1>0, Zenon
<1>2. \A k \in 0 .. N : (a + k) % N \in 0 .. N - 1
  BY <1>1
<1>4. \A k \in 0 .. N - 1 : (((a + k) % N) + 1) % N = (a + (k + 1)) % N
  <2> TAKE k \in 0 .. N - 1
  <2>1. PICK b \in 0 .. N - 1 : b = (a + k) % N
    BY <1>2
  <2>2. (b + 1) % N = IF b + 1 < N THEN b + 1 ELSE b + 1 - N
    BY <1>0
  <2>3. (a + (k + 1)) % N = IF a + (k + 1) < N THEN a + (k + 1) ELSE a + (k + 1) - N
    BY <1>1
  <2>4. b = IF a + k < N THEN a + k ELSE a + k - N
    BY <2>1, <1>1
  <2> QED
    BY <2>1, <2>2, <2>3, <2>4
<1>5. \A k \in 0 .. N - 1 : (((a + 1) % N) + k) % N = (a + (k + 1)) % N
  <2> TAKE k \in 0 .. N - 1
  <2>1. PICK b \in 0 .. N - 1 : b = (a + 1) % N
    BY <1>2
  <2>2. (b + k) % N = IF b + k < N THEN b + k ELSE b + k - N
    BY <1>0
  <2>3. (a + (k + 1)) % N = IF a + (k + 1) < N THEN a + (k + 1) ELSE a + (k + 1) - N
    BY <1>1
  <2>4. b = IF a + 1 < N THEN a + 1 ELSE a + 1 - N
    BY <2>1, <1>1
  <2> QED
    BY <2>1, <2>2, <2>3, <2>4
<1>6. \A j, k \in 0 .. N - 1 : (a + j) % N = (a + k) % N => j = k
  BY <1>1
<1>7. (a + 0) % N = a /\ (a + 1) % N \in 0 .. N - 1
  BY <1>1, <1>2
<1> QED
  BY <1>2, <1>4, <1>5, <1>6, <1>7, Zenon

-----------------------------------------------------------------------------
(* What the actions do to the ring *)

LEMMA HeldType ==
  ASSUME TypeOK, RingInv
  PROVE  /\ Held \in 0 .. NumSlots
         /\ free \in Nat /\ occ \in Nat /\ pull \in 0 .. NumSlots - 1
         /\ \A S, L : S \in {Thread, Caller} => Count(S, L) \in Nat
<1>1. \A S, L : S \in {Thread, Caller} => Count(S, L) \in Nat
  <2> SUFFICES ASSUME NEW S, NEW L, S \in {Thread, Caller}
               PROVE  Count(S, L) \in Nat
    BY Zenon
  <2> QED
    BY ConstFacts, FS_Subset, FS_CardinalityType, Zenon DEF Count
<1>2. /\ Count(Caller, Putting) \in Nat /\ Count(Thread, {"post"}) \in Nat
      /\ Count(Thread, Taking) \in Nat /\ Count(Caller, {"add_post"}) \in Nat
  BY <1>1
<1>3. free \in Nat /\ occ \in Nat /\ pull \in 0 .. NumSlots - 1
  BY ConstFacts DEF TypeOK, Slot
<1>4. Held \in Nat
  BY <1>2, <1>3, HeldIs
<1> QED
  BY <1>1, <1>2, <1>3, <1>4, ConstFacts DEF RingInv

\* The k-th piece of work is k - 1 slots after the pull index.
LEMMA QueueAt ==
  ASSUME TypeOK, RingInv
  PROVE  /\ DOMAIN Queue = 1 .. Held
         /\ \A k \in 1 .. Held : /\ Queue[k] = slots[FromPull(k - 1)]
                                 /\ k - 1 \in 0 .. NumSlots - 1
                                 /\ FromPull(k - 1) \in Slot
<1>1. Held \in 0 .. NumSlots /\ pull \in 0 .. NumSlots - 1 /\ NumSlots \in Nat \ {0}
  BY HeldType, ConstFacts, Zenon
<1>2. ASSUME NEW k \in 1 .. Held
      PROVE  Queue[k] = slots[FromPull(k - 1)] /\ k - 1 \in 0 .. NumSlots - 1
  <2>1. pull + k - 1 = pull + (k - 1)
    BY <1>1, Zenon
  <2> QED
    BY <1>1, <2>1 DEF Queue, FromPull
<1>3. \A j \in 0 .. NumSlots - 1 : FromPull(j) \in Slot
  BY <1>1, RingFacts DEF FromPull, Slot
<1> QED
  BY <1>2, <1>3, Zenon DEF Queue

QueueSame     == Held' = Held /\ Queue' = Queue
QueueAdds(w)  == /\ Held' = Held + 1 /\ Queue'[Held + 1] = w
                 /\ \A k \in 1 .. Held : Queue'[k] = Queue[k]
QueueTakes(w) == /\ Held >= 1 /\ Held' = Held - 1 /\ Queue[1] = w
                 /\ \A k \in 1 .. Held - 1 : Queue'[k] = Queue[k + 1]

LEMMA UnchangedQueue ==
  ASSUME Held' = Held, UNCHANGED <<slots, pull>>
  PROVE  QueueSame
  BY Zenon DEF QueueSame, Queue

\* What a step that leaves the ring alone, or only claims, tells of or frees a
\* slot, does to it.
RingQuiet == RingInv' /\ QueueSame

LEMMA CallerRing ==
  ASSUME TypeOK, RingInv, NEW c \in Caller
  PROVE  /\ add_room(c) => RingQuiet
         /\ add_lock(c) => RingQuiet
         /\ add_post(c) => RingQuiet
         /\ tpool_wait(c) => RingQuiet
         /\ tpool_wait_interrupted(c) => RingQuiet
         /\ tpool_delete_handles(c) => RingQuiet
         /\ c = Fin /\ tpool_finish => RingQuiet
         /\ c = Fin /\ finish_join => RingQuiet
<1>1. /\ Held \in 0 .. NumSlots /\ free \in Nat /\ occ \in Nat
      /\ NumSlots \in Nat
  BY HeldType, ConstFacts, Zenon
<1>2. ASSUME NEW q, goto(c, q), UNCHANGED <<free, occ, ring>>,
             pc[c] \in Putting <=> q \in Putting, pc[c] # "add_post", q # "add_post"
      PROVE  RingQuiet
  <2>1. Held' = Held /\ Count(Caller, Putting)' = Count(Caller, Putting)
                     /\ Count(Thread, {"post"})' = Count(Thread, {"post"})
    BY <1>1, <1>2, CallerMoves, HeldIs
  <2> QED
    BY <1>2, <2>1, UnchangedQueue, Zenon DEF RingQuiet, RingInv, ring
<1>3. add_room(c) => RingQuiet
  <2> SUFFICES ASSUME add_room(c)
               PROVE  RingQuiet
    BY Zenon
  <2>1. /\ Held' = Held
        /\ Count(Caller, Putting)' = Count(Caller, Putting) + 1
        /\ Count(Thread, {"post"})' = Count(Thread, {"post"})
    BY <1>1, CallerMoves, HeldIs DEF add_room, Putting
  <2> QED
    BY <1>1, <2>1, CallerMoves, UnchangedQueue DEF RingQuiet, RingInv, ring, add_room
<1>4. add_post(c) => RingQuiet
  <2> SUFFICES ASSUME add_post(c)
               PROVE  RingQuiet
    BY Zenon
  <2>1. PICK q : q \in {"add", "join", "await"} /\ goto(c, q)
    BY Zenon DEF add_post
  <2>2. /\ Held' = Held
        /\ Count(Caller, Putting)' = Count(Caller, Putting)
        /\ Count(Thread, {"post"})' = Count(Thread, {"post"})
    BY <1>1, <2>1, CallerMoves, HeldIs DEF add_post, Putting
  <2> QED
    BY <2>2, UnchangedQueue, Zenon DEF RingQuiet, RingInv, ring, add_post
<1>5. add_lock(c) => RingQuiet
  BY <1>2, Zenon DEF add_lock, Putting
<1>6. tpool_wait(c) => RingQuiet
  BY <1>2, Zenon DEF tpool_wait, Waited, Putting
<1>7. tpool_wait_interrupted(c) => RingQuiet
  BY <1>2, Zenon DEF tpool_wait_interrupted, Waited, Putting
<1>8. tpool_delete_handles(c) => RingQuiet
  BY <1>2, Zenon DEF tpool_delete_handles, Putting
<1>9. c = Fin /\ (tpool_finish \/ finish_join) => RingQuiet
  BY <1>2, Zenon DEF tpool_finish, finish_join, Putting
<1> QED
  BY <1>3, <1>4, <1>5, <1>6, <1>7, <1>8, <1>9, Zenon

LEMMA ThreadRing ==
  ASSUME TypeOK, RingInv, NEW t \in Thread
  PROVE  /\ loop_wait(t) => RingQuiet
         /\ loop_lock(t) => RingQuiet
         /\ loop_slot(t) => RingQuiet
         /\ loop_post(t) => RingQuiet
         /\ loop_run(t) => RingQuiet
         /\ loop_signal(t) => RingQuiet
<1>1. /\ Held \in 0 .. NumSlots /\ free \in Nat /\ occ \in Nat
      /\ NumSlots \in Nat
  BY HeldType, ConstFacts, Zenon
<1>2. ASSUME NEW q, goto(t, q), UNCHANGED <<free, occ, ring>>,
             pc[t] \in Taking <=> q \in Taking, pc[t] # "post", q # "post"
      PROVE  RingQuiet
  <2>1. Held' = Held /\ Count(Caller, Putting)' = Count(Caller, Putting)
                     /\ Count(Thread, {"post"})' = Count(Thread, {"post"})
    BY <1>1, <1>2, ThreadMoves, HeldIs
  <2> QED
    BY <1>2, <2>1, UnchangedQueue, Zenon DEF RingQuiet, RingInv, ring
<1>3. loop_wait(t) => RingQuiet
  <2> SUFFICES ASSUME loop_wait(t)
               PROVE  RingQuiet
    BY Zenon
  <2>1. /\ Held' = Held
        /\ Count(Caller, Putting)' = Count(Caller, Putting)
        /\ Count(Thread, {"post"})' = Count(Thread, {"post"})
    BY <1>1, ThreadMoves, HeldIs DEF loop_wait, Taking
  <2> QED
    BY <2>1, UnchangedQueue, Zenon DEF RingQuiet, RingInv, ring, loop_wait
<1>4. loop_post(t) => RingQuiet
  <2> SUFFICES ASSUME loop_post(t)
               PROVE  RingQuiet
    BY Zenon
  <2>1. /\ Held' = Held
        /\ Count(Caller, Putting)' = Count(Caller, Putting)
        /\ Count(Thread, {"post"})' = Count(Thread, {"post"}) - 1
        /\ Count(Thread, {"post"}) \in Nat /\ Count(Caller, Putting) \in Nat
    BY <1>1, ThreadMoves, HeldIs DEF loop_post, Taking
  <2> QED
    BY <1>1, <2>1, UnchangedQueue DEF RingQuiet, RingInv, ring, loop_post
<1>5. loop_lock(t) => RingQuiet
  BY <1>2, Zenon DEF loop_lock, Taking
<1>6. loop_slot(t) => RingQuiet
  BY <1>2, Zenon DEF loop_slot, Taking
<1>7. loop_run(t) => RingQuiet
  BY <1>2, Zenon DEF loop_run, Taking
<1>8. loop_signal(t) => RingQuiet
  BY <1>2, Zenon DEF loop_signal, Taking
<1> QED
  BY <1>3, <1>4, <1>5, <1>6, <1>7, <1>8, Zenon

\* The slot that is written holds no work: the writer has claimed it.
LEMMA PutRing ==
  ASSUME TypeOK, RingInv, NEW c \in Caller, pc[c] \in Putting
  PROVE  /\ Held < NumSlots /\ put = FromPull(Held)
         /\ \A k \in 1 .. Held : FromPull(k - 1) # put
         /\ add_slot(c) => RingQuiet /\ slots'[put] = Adds(c)
<1>1. /\ Held \in 0 .. NumSlots /\ free \in Nat /\ NumSlots \in Nat \ {0}
      /\ pull \in 0 .. NumSlots - 1
  BY HeldType, ConstFacts, Zenon
<1>2. Held < NumSlots
  <2>1. Count(Caller, Putting) >= 1
    <3>1. c \in {x \in Caller : pc[x] \in Putting}
      BY Zenon
    <3>2. IsFiniteSet({x \in Caller : pc[x] \in Putting})
      BY ConstFacts, FS_Subset, Zenon
    <3> QED
      BY <3>1, <3>2, FS_EmptySet, FS_CardinalityType DEF Count
  <2>2. Count(Caller, Putting) \in Nat /\ Count(Thread, {"post"}) \in Nat
    BY HeldType
  <2> QED
    BY <1>1, <2>1, <2>2 DEF RingInv
<1>3. put = FromPull(Held)
  BY Zenon DEF RingInv, FromPull
<1>4. ASSUME NEW k \in 1 .. Held
      PROVE  FromPull(k - 1) # put
  <2>1. k - 1 \in 0 .. NumSlots - 1 /\ Held \in 0 .. NumSlots - 1 /\ k - 1 # Held
    BY <1>1, <1>2
  <2> QED
    BY <1>1, <1>3, <2>1, RingFacts DEF FromPull
<1>5. ASSUME add_slot(c)
      PROVE  RingQuiet /\ slots'[put] = Adds(c)
  <2>1. /\ Held' = Held
        /\ Count(Caller, Putting)' = Count(Caller, Putting)
        /\ Count(Thread, {"post"})' = Count(Thread, {"post"})
    BY <1>1, <1>5, CallerMoves, HeldIs DEF add_slot, Putting
  <2>2. RingInv'
    BY <1>5, <2>1, Zenon DEF add_slot, RingInv
  <2>3. \A k \in 1 .. Held : FromPull(k - 1) \in Slot /\ k - 1 \in Int
                               /\ Queue[k] = slots[FromPull(k - 1)]
    BY QueueAt
  <2>4. \A k \in 1 .. Held : slots'[FromPull(k - 1)] = slots[FromPull(k - 1)]
    BY <1>4, <1>5, <2>3, Zenon DEF add_slot, TypeOK
  <2>5. \A k \in 1 .. Held : pull + k - 1 = pull + (k - 1)
    BY <1>1, Zenon
  <2>6. Queue' = [k \in 1 .. Held |-> slots'[(pull + k - 1) % NumSlots]]
    BY <1>5, <2>1 DEF Queue, add_slot
  <2>7. \A k \in 1 .. Held : slots'[(pull + k - 1) % NumSlots] = slots[(pull + k - 1) % NumSlots]
    BY <2>4, <2>5, Zenon DEF FromPull
  <2>8. Queue' = Queue
    BY <2>6, <2>7, Zenon DEF Queue
  <2>9. slots'[put] = Adds(c)
    BY <1>5, Zenon DEF add_slot, TypeOK
  <2> QED
    BY <2>1, <2>2, <2>8, <2>9, Zenon DEF RingQuiet, QueueSame
<1> QED
  BY <1>2, <1>3, <1>4, <1>5, Zenon

LEMMA AddRing ==
  ASSUME TypeOK, RingInv, NEW c \in Caller, slots[put] = Adds(c), add_advance(c)
  PROVE  RingInv' /\ QueueAdds(Adds(c)) /\ put' \in Slot
<1>1. /\ Held \in 0 .. NumSlots /\ free \in Nat /\ NumSlots \in Nat \ {0}
      /\ pull \in 0 .. NumSlots - 1
  BY HeldType, ConstFacts, Zenon
<1>2. Held < NumSlots /\ put = FromPull(Held)
  BY PutRing, Zenon DEF add_advance, Putting
<1>3. /\ Held' = Held + 1
      /\ Count(Caller, Putting)' = Count(Caller, Putting) - 1
      /\ Count(Thread, {"post"})' = Count(Thread, {"post"})
      /\ Count(Caller, Putting) \in Nat /\ Count(Thread, {"post"}) \in Nat
  BY <1>1, CallerMoves, HeldIs, HeldType DEF add_advance, Putting
<1>4. put' = (pull + (Held + 1)) % NumSlots
  <2>1. Held \in 0 .. NumSlots - 1
    BY <1>1, <1>2
  <2>2. \A k \in 0 .. NumSlots - 1 : (((pull + k) % NumSlots) + 1) % NumSlots = (pull + (k + 1)) % NumSlots
    BY <1>1, RingFacts, ZenonT(40)
  <2>3. (((pull + Held) % NumSlots) + 1) % NumSlots = (pull + (Held + 1)) % NumSlots
    BY <2>1, <2>2, Zenon
  <2> QED
    BY <1>2, <2>3, Zenon DEF add_advance, After, FromPull
<1>5. RingInv'
  BY <1>1, <1>3, <1>4 DEF RingInv, add_advance
<1>6. put' \in Slot
  <2>1. Held + 1 \in 0 .. NumSlots
    BY <1>1, <1>2
  <2> QED
    BY <1>1, <1>4, <2>1, RingFacts, Zenon DEF Slot
<1>7. Queue' = [k \in 1 .. Held + 1 |-> slots[(pull + k - 1) % NumSlots]]
  BY <1>3, Zenon DEF Queue, add_advance
<1>8. \A k \in 1 .. Held : Queue'[k] = Queue[k]
  <2>1. \A k \in 1 .. Held : Queue[k] = slots[(pull + k - 1) % NumSlots] /\ k \in 1 .. Held + 1
    BY <1>1 DEF Queue
  <2> QED
    BY <1>7, <2>1, Zenon
<1>9. Queue'[Held + 1] = Adds(c)
  <2>1. pull + (Held + 1) - 1 = pull + Held /\ Held + 1 \in 1 .. Held + 1
    BY <1>1
  <2> QED
    BY <1>2, <1>7, <2>1, Zenon DEF FromPull
<1> QED
  BY <1>3, <1>5, <1>6, <1>8, <1>9, Zenon DEF QueueAdds

LEMMA TakeRing ==
  ASSUME TypeOK, RingInv, NEW t \in Thread, work[t] = slots[pull], loop_advance(t)
  PROVE  RingInv' /\ QueueTakes(work[t]) /\ pull' \in Slot
<1>1. /\ Held \in 0 .. NumSlots /\ free \in Nat /\ NumSlots \in Nat \ {0}
      /\ pull \in 0 .. NumSlots - 1 /\ occ \in Nat
  BY HeldType, ConstFacts, Zenon
<1>2. /\ Held' = Held - 1 /\ Held >= 1
      /\ Count(Caller, Putting)' = Count(Caller, Putting)
      /\ Count(Thread, {"post"})' = Count(Thread, {"post"}) + 1
      /\ Count(Caller, Putting) \in Nat /\ Count(Thread, {"post"}) \in Nat
  BY <1>1, ThreadMoves, HeldIs DEF loop_advance, Taking
<1>3. /\ \A k \in 0 .. NumSlots - 1 : (pull' + k) % NumSlots = (pull + (k + 1)) % NumSlots
      /\ pull' \in Slot /\ (pull + 0) % NumSlots = pull
  <2>1. /\ \A k \in 0 .. NumSlots - 1 : (((pull + 1) % NumSlots) + k) % NumSlots = (pull + (k + 1)) % NumSlots
        /\ (pull + 1) % NumSlots \in 0 .. NumSlots - 1 /\ (pull + 0) % NumSlots = pull
    BY <1>1, RingFacts, ZenonT(40)
  <2>2. pull' = (pull + 1) % NumSlots
    BY Zenon DEF loop_advance, After
  <2> QED
    BY <2>1, <2>2, Zenon DEF Slot
<1>4. RingInv'
  <2>1. Held - 1 \in 0 .. NumSlots - 1 /\ (Held - 1) + 1 = Held
    BY <1>1, <1>2
  <2>2. (pull' + (Held - 1)) % NumSlots = (pull + Held) % NumSlots
    BY <1>3, <2>1, Zenon
  <2> QED
    BY <1>1, <1>2, <2>2 DEF RingInv, loop_advance
<1>5. Queue' = [k \in 1 .. Held - 1 |-> slots[(pull' + k - 1) % NumSlots]]
  BY <1>2, Zenon DEF Queue, loop_advance
<1>6. ASSUME NEW k \in 1 .. Held - 1
      PROVE  Queue'[k] = Queue[k + 1]
  <2>1. /\ pull' + k - 1 = pull' + (k - 1) /\ pull + (k + 1) - 1 = pull + ((k - 1) + 1)
        /\ k - 1 \in 0 .. NumSlots - 1 /\ k + 1 \in 1 .. Held
    BY <1>1, <1>3 DEF Slot
  <2>2. Queue[k + 1] = slots[(pull + ((k - 1) + 1)) % NumSlots]
    BY <2>1, Zenon DEF Queue
  <2>3. Queue'[k] = slots[(pull' + (k - 1)) % NumSlots]
    BY <1>5, <2>1, Zenon
  <2> QED
    BY <1>3, <2>1, <2>2, <2>3, Zenon
<1>7. Queue[1] = work[t]
  <2>1. pull + 1 - 1 = pull + 0 /\ 1 \in 1 .. Held
    BY <1>1, <1>2
  <2> QED
    BY <1>3, <2>1, Zenon DEF Queue
<1> QED
  BY <1>2, <1>3, <1>4, <1>6, <1>7, Zenon DEF QueueTakes

-----------------------------------------------------------------------------
(* Types, the lock, and where callers and threads are *)

Basic ==
  /\ TypeOK /\ RingInv /\ LockInv /\ SlotInv /\ QueueInv /\ FinInv
  /\ \A c \in Client : ClientOK(c)
  /\ \A t \in Thread : ThreadOK(t)

LEMMA SemBounds ==
  ASSUME RingInv', free' \in Nat, occ' \in Nat
  PROVE  free' \in 0 .. NumSlots /\ occ' \in 0 .. NumSlots
<1>1. \A S, L : S \in {Thread, Caller} => Count(S, L)' \in Nat
  <2> SUFFICES ASSUME NEW S, NEW L, S \in {Thread, Caller}
               PROVE  Count(S, L)' \in Nat
    BY Zenon
  <2> QED
    BY ConstFacts, FS_Subset, FS_CardinalityType, Zenon DEF Count
<1>2. /\ Count(Caller, Putting)' \in Nat /\ Count(Thread, {"post"})' \in Nat
      /\ Count(Thread, Taking)' \in Nat /\ Count(Caller, {"add_post"})' \in Nat
  BY <1>1
<1>3. free' + Count(Caller, Putting)' + Count(Thread, {"post"})' + Held' = NumSlots
  BY Zenon DEF RingInv
<1> QED
  BY <1>2, <1>3, HeldIs, ConstFacts

\* The steps outside the critical section keep what holds inside it.
LEMMA OutsideStep ==
  ASSUME Basic, NEW p \in Proc, NEW q, goto(p, q), RingQuiet,
         UNCHANGED <<lock, ring, work>>,
         pc[p] \notin InSection, q \notin InSection,
         \A c \in Caller : c # p => n'[c] = n[c]
  PROVE  LockInv' /\ SlotInv' /\ QueueInv'
<1>1. pc'[p] = q /\ \A r \in Proc : r # p => pc'[r] = pc[r]
  BY Moves, Zenon DEF Basic
<1>2. LockInv'
  BY <1>1, Zenon DEF Basic, LockInv
<1>3. SlotInv'
  <2>1. \A c \in Caller : pc'[c] = "add_advance" => c # p /\ pc[c] = "add_advance"
    BY <1>1, Zenon DEF InSection, Proc
  <2>2. \A t \in Thread : pc'[t] = "advance" => pc[t] = "advance"
    BY <1>1, Zenon DEF InSection, Proc
  <2> QED
    BY <2>1, <2>2, Zenon DEF Basic, SlotInv, Adds, ring
<1>4. QueueInv'
  BY Zenon DEF Basic, RingQuiet, QueueSame, QueueInv
<1> QED
  BY <1>2, <1>3, <1>4, Zenon

\* A client's step, before it has left.
LEMMA ClientControl ==
  ASSUME Basic, NEW c \in Client, NEW q, goto(c, q), pc[c] # "left",
         UNCHANGED work, ClientOK(c)',
         \A d \in Client : d # c => n'[d] = n[d]
  PROVE  /\ FinInv' /\ pc[Fin] = "idle"
         /\ \A d \in Client : ClientOK(d)'
         /\ \A t \in Thread : ThreadOK(t)'
<1>1. c \in Caller /\ c \in Proc /\ c # Fin /\ c \notin Thread
  BY TPoolAssumption, ConstFacts, Zenon DEF Caller, Proc
<1>2. pc'[c] = q /\ \A r \in Proc : r # c => pc'[r] = pc[r]
  BY <1>1, Moves, Zenon DEF Basic
<1>3. pc[Fin] = "idle" /\ pc'[Fin] = "idle"
  BY <1>1, <1>2, ConstFacts, Zenon DEF Basic, FinInv, Proc
<1>4. FinInv'
  BY <1>3, Zenon DEF FinInv
<1>5. \A d \in Client : ClientOK(d)'
  BY <1>2, Zenon DEF Basic, ClientOK, Proc, Caller
<1>6. \A t \in Thread : ThreadOK(t)'
  BY <1>1, <1>2, Zenon DEF Basic, ThreadOK, Proc
<1> QED
  BY <1>3, <1>4, <1>5, <1>6, Zenon

\* A step of tpool_finish.
LEMMA FinControl ==
  ASSUME Basic, NEW q \in Adding \cup {"join", "finished"}, goto(Fin, q),
         UNCHANGED work, \A d \in Client : n'[d] = n[d],
         \A d \in Client : pc[d] = "left",
         q = "finished" => \A t \in Thread : pc[t] = "exited"
  PROVE  /\ FinInv'
         /\ \A d \in Client : ClientOK(d)'
         /\ \A t \in Thread : ThreadOK(t)'
<1>1. Fin \in Proc /\ Fin \notin Thread /\ Fin \notin Client
  BY TPoolAssumption, ConstFacts, Zenon DEF Caller, Proc
<1>2. pc'[Fin] = q /\ \A r \in Proc : r # Fin => pc'[r] = pc[r]
  BY <1>1, Moves, Zenon DEF Basic
<1>3. FinInv'
  BY <1>1, <1>2, Zenon DEF FinInv, Proc, Caller, Adding
<1>4. \A d \in Client : ClientOK(d)'
  BY <1>1, <1>2, Zenon DEF Basic, ClientOK, Proc, Caller
<1>5. \A t \in Thread : ThreadOK(t)'
  BY <1>1, <1>2, Zenon DEF Basic, ThreadOK, Proc
<1> QED
  BY <1>3, <1>4, <1>5, Zenon

\* A thread's step, before it has exited.
LEMMA ThreadControl ==
  ASSUME Basic, NEW t \in Thread, NEW q, goto(t, q), pc[t] # "exited",
         UNCHANGED n, ThreadOK(t)',
         \A u \in Thread : u # t => work'[u] = work[u]
  PROVE  /\ FinInv'
         /\ \A d \in Client : ClientOK(d)'
         /\ \A u \in Thread : ThreadOK(u)'
<1>1. t \in Proc /\ t # Fin /\ t \notin Client /\ Fin \in Proc
  BY TPoolAssumption, ConstFacts, Zenon DEF Caller, Proc
<1>2. pc'[t] = q /\ \A r \in Proc : r # t => pc'[r] = pc[r]
  BY <1>1, Moves, Zenon DEF Basic
<1>3. FinInv'
  BY <1>1, <1>2, Zenon DEF Basic, FinInv, Proc, Caller
<1>4. \A d \in Client : ClientOK(d)'
  BY <1>1, <1>2, Zenon DEF Basic, ClientOK, Proc, Caller
<1>5. \A u \in Thread : ThreadOK(u)'
  BY <1>1, <1>2, Zenon DEF Basic, ThreadOK, Proc
<1> QED
  BY <1>3, <1>4, <1>5, Zenon

Control ==
  /\ FinInv
  /\ \A c \in Client : ClientOK(c)
  /\ \A t \in Thread : ThreadOK(t)

LEMMA AddControl ==
  ASSUME Basic, NEW c \in Caller, pc[c] \in Adding, NEW q \in Adding, goto(c, q),
         UNCHANGED <<n, work>>
  PROVE  Control'
<1>1. CASE c = Fin
  <2>1. \A d \in Client : pc[d] = "left"
    BY <1>1, Zenon DEF Basic, FinInv, Adding
  <2> QED
    BY <1>1, <2>1, FinControl, Zenon DEF Control, Adding
<1>2. CASE c \in Client
  <2>1. ClientOK(c)'
    <3>1. pc'[c] = q
      BY Moves, Zenon DEF Basic, Proc
    <3> QED
      BY <1>2, <3>1, Zenon DEF Basic, ClientOK
  <2> QED
    BY <1>2, <2>1, ClientControl, Zenon DEF Control, Adding
<1> QED
  BY <1>1, <1>2, Zenon DEF Caller

LEMMA AddsWork ==
  ASSUME Basic, NEW c \in Caller, pc[c] \in Adding
  PROVE  Adds(c) \in Work
<1>1. CASE c = Fin
  BY <1>1, Zenon DEF Adds, Work
<1>2. CASE c # Fin
  <2>1. c \in Client /\ n[c] \in 1 .. NumItems[c]
    BY <1>2, Zenon DEF Basic, ClientOK, Caller
  <2>2. <<c, n[c]>> \in {c} \X (1 .. NumItems[c])
    BY <2>1, Zenon
  <2> QED
    BY <1>2, <2>1, <2>2, Zenon DEF Adds, Work, Item
<1> QED
  BY <1>1, <1>2, Zenon

LEMMA AddBasic ==
  ASSUME Basic, NEW c \in Caller
  PROVE  /\ add_room(c) => Basic' /\ QueueSame
         /\ add_lock(c) => Basic' /\ QueueSame
         /\ add_slot(c) => Basic' /\ QueueSame
         /\ add_advance(c) => Basic' /\ QueueAdds(Adds(c))
<1> USE DEF Basic
<1>1. c \in Proc /\ c \notin Thread /\ c # Nothing
  BY ConstFacts, Zenon DEF Proc
<1>2. ASSUME add_room(c)
      PROVE  Basic' /\ QueueSame
  <2>1. RingQuiet
    BY <1>2, CallerRing, Zenon
  <2>2. LockInv' /\ SlotInv' /\ QueueInv'
    BY <1>1, <1>2, <2>1, OutsideStep, Zenon DEF add_room, InSection
  <2>3. Control'
    BY <1>2, AddControl, Zenon DEF add_room, Adding
  <2>4. TypeOK'
    <3>1. free' \in 0 .. NumSlots /\ occ' \in 0 .. NumSlots
      BY <1>2, <2>1, SemBounds DEF TypeOK, add_room, RingQuiet
    <3> QED
      BY <1>2, <3>1, Zenon DEF TypeOK, add_room, goto, ring, handles
  <2> QED
    BY <2>1, <2>2, <2>3, <2>4, Zenon DEF Control, RingQuiet
<1>3. ASSUME add_lock(c)
      PROVE  Basic' /\ QueueSame
  <2>1. RingQuiet
    BY <1>3, CallerRing, Zenon
  <2>2. pc'[c] = "add_slot" /\ \A r \in Proc : r # c => pc'[r] = pc[r]
    BY <1>1, <1>3, Moves, Zenon DEF add_lock
  <2>3. \A r \in Proc : pc[r] \notin InSection
    BY <1>3, ConstFacts, Zenon DEF LockInv, add_lock
  <2>4. LockInv' /\ SlotInv' /\ QueueInv'
    <3>1. LockInv'
      BY <1>1, <1>3, <2>2, <2>3, Zenon DEF LockInv, add_lock, InSection
    <3>2. SlotInv'
      BY <1>1, <2>2, <2>3, Zenon DEF SlotInv, InSection, Proc
    <3> QED
      BY <2>1, <3>1, <3>2, Zenon DEF QueueInv, RingQuiet, QueueSame
  <2>5. Control'
    BY <1>3, AddControl, Zenon DEF add_lock, Adding
  <2>6. TypeOK'
    BY <1>1, <1>3, Zenon DEF TypeOK, add_lock, goto, ring, handles, Proc
  <2> QED
    BY <2>1, <2>4, <2>5, <2>6, Zenon DEF Control, RingQuiet
<1>4. ASSUME add_slot(c)
      PROVE  Basic' /\ QueueSame
  <2>1. RingQuiet /\ slots'[put] = Adds(c)
    BY <1>4, PutRing, Zenon DEF add_slot, Putting
  <2>2. pc'[c] = "add_advance" /\ \A r \in Proc : r # c => pc'[r] = pc[r]
    BY <1>1, <1>4, Moves, Zenon DEF add_slot
  <2>3. \A r \in Proc : r # c => pc[r] \notin InSection
    BY <1>1, <1>4, Zenon DEF LockInv, add_slot, InSection
  <2>4. LockInv' /\ SlotInv' /\ QueueInv'
    <3>1. LockInv'
      BY <1>1, <1>4, <2>2, <2>3, Zenon DEF LockInv, add_slot, InSection
    <3>2. SlotInv'
      BY <1>1, <1>4, <2>1, <2>2, <2>3, Zenon DEF SlotInv, InSection, Proc, Adds, add_slot
    <3> QED
      BY <2>1, <3>1, <3>2, Zenon DEF QueueInv, RingQuiet, QueueSame
  <2>5. Control'
    BY <1>4, AddControl, Zenon DEF add_slot, Adding
  <2>6. TypeOK'
    <3>1. Adds(c) \in Work
      BY <1>4, AddsWork, Zenon DEF add_slot, Adding
    <3> QED
      BY <1>1, <1>4, <3>1, Zenon DEF TypeOK, add_slot, goto, ring, handles, Proc
  <2> QED
    BY <2>1, <2>4, <2>5, <2>6, Zenon DEF Control, RingQuiet
<1>5. ASSUME add_advance(c)
      PROVE  Basic' /\ QueueAdds(Adds(c))
  <2>1. RingInv' /\ QueueAdds(Adds(c)) /\ put' \in Slot
    BY <1>5, AddRing, Zenon DEF add_advance, SlotInv
  <2>2. pc'[c] = "add_post" /\ \A r \in Proc : r # c => pc'[r] = pc[r]
    BY <1>1, <1>5, Moves, Zenon DEF add_advance
  <2>3. \A r \in Proc : r # c => pc[r] \notin InSection
    BY <1>1, <1>5, Zenon DEF LockInv, add_advance, InSection
  <2>4. LockInv' /\ SlotInv' /\ QueueInv'
    <3>1. LockInv'
      BY <1>1, <1>5, <2>2, <2>3, ConstFacts, Zenon DEF LockInv, add_advance, InSection
    <3>2. SlotInv'
      BY <1>1, <1>5, <2>2, <2>3, Zenon DEF SlotInv, InSection, Proc
    <3>3. QueueInv'
      <4>1. Adds(c) \in Work
        BY <1>5, AddsWork, Zenon DEF add_advance, Adding
      <4>2. Held \in Nat
        BY HeldType, ConstFacts
      <4>3. \A k \in 1 .. Held' : k \in 1 .. Held \/ k = Held + 1
        BY <2>1, <4>2 DEF QueueAdds
      <4> QED
        BY <2>1, <4>1, <4>3, Zenon DEF QueueInv, QueueAdds
    <3> QED
      BY <3>1, <3>2, <3>3, Zenon
  <2>5. Control'
    BY <1>5, AddControl, Zenon DEF add_advance, Adding
  <2>6. TypeOK'
    BY <1>1, <1>5, <2>1, Zenon DEF TypeOK, add_advance, goto, ring, handles, Proc
  <2> QED
    BY <2>1, <2>4, <2>5, <2>6, Zenon DEF Control
<1> QED
  BY <1>2, <1>3, <1>4, <1>5, Zenon

LEMMA CallBasic ==
  ASSUME Basic, NEW c \in Caller
  PROVE  /\ add_post(c) => Basic' /\ QueueSame
         /\ tpool_wait(c) => Basic' /\ QueueSame /\ c \in Client
         /\ tpool_wait_interrupted(c) => Basic' /\ QueueSame /\ c \in Client
         /\ tpool_delete_handles(c) => Basic' /\ QueueSame /\ c \in Client
         /\ tpool_finish => Basic' /\ QueueSame
         /\ finish_join => Basic' /\ QueueSame
<1> USE DEF Basic
<1>1. /\ c \in Proc /\ c \notin Thread /\ c # Nothing
      /\ Fin \in Caller /\ Fin \in Proc /\ Fin \notin Thread /\ Fin \notin Client
  BY ConstFacts, TPoolAssumption, Zenon DEF Proc
<1>2. c # Fin => c \in Client
  BY Zenon DEF Caller
<1>3. ASSUME add_post(c)
      PROVE  Basic' /\ QueueSame
  <2>1. RingQuiet
    BY <1>3, CallerRing, Zenon
  <2>2. PICK q : q \in {"add", "join", "await"} /\ goto(c, q)
    BY <1>3, Zenon DEF add_post
  <2>3. \A d \in Caller : d # c => n'[d] = n[d]
    BY <1>3, Zenon DEF add_post, TypeOK
  <2>4. LockInv' /\ SlotInv' /\ QueueInv'
    BY <1>1, <1>3, <2>1, <2>2, <2>3, OutsideStep, Zenon DEF add_post, InSection
  <2>5. ASSUME c = Fin
        PROVE  Control'
    <3>1. \A d \in Client : pc[d] = "left" /\ n'[d] = n[d]
      BY <1>1, <1>3, <2>3, <2>5, Zenon DEF add_post, FinInv, Caller
    <3>2. q \in {"add", "join"}
      <4>1. pc'[c] = q
        BY <1>1, <2>2, Moves, Zenon
      <4>2. pc'[c] = "add" \/ pc'[c] = "join"
        BY <1>1, <1>3, <2>5, Moves, Zenon DEF add_post
      <4> QED
        BY <4>1, <4>2, Zenon
    <3>3. q \in Adding \cup {"join", "finished"} /\ q # "finished"
      BY <3>2, Zenon DEF Adding
    <3> QED
      BY <1>3, <2>2, <2>5, <3>1, <3>3, FinControl, Zenon DEF Control, add_post
  <2>6. ASSUME c # Fin
        PROVE  Control'
    <3>1. n[c] \in 1 .. NumItems[c] /\ NumItems[c] \in Nat
      BY <1>2, <1>3, <2>6, TPoolAssumption, Zenon DEF ClientOK, add_post, Adding
    <3>2. n'[c] \in 1 .. NumItems[c] /\ pc'[c] \in {"add", "await"}
      BY <1>1, <1>3, <2>6, <3>1 DEF add_post, TypeOK, goto, Proc
    <3>3. ClientOK(c)'
      BY <3>2, Zenon DEF ClientOK, Adding
    <3>4. \A d \in Client : d # c => n'[d] = n[d]
      BY <2>3, Zenon DEF Caller
    <3> QED
      BY <1>2, <1>3, <2>2, <2>6, <3>3, <3>4, ClientControl, Zenon DEF Control, add_post
  <2>7. Control'
    BY <2>5, <2>6, Zenon
  <2>8. TypeOK'
    <3>1. free' \in 0 .. NumSlots /\ occ' \in 0 .. NumSlots
      BY <1>3, <2>1, SemBounds DEF TypeOK, add_post, RingQuiet
    <3>2. n' \in [Caller -> Nat]
      BY <1>3 DEF TypeOK, add_post
    <3> QED
      BY <1>3, <2>2, <3>1, <3>2, ZenonT(40) DEF TypeOK, add_post, goto, ring, handles
  <2> QED
    BY <2>1, <2>4, <2>7, <2>8, Zenon DEF Control, RingQuiet
<1>4. ASSUME pc[c] = "await", Waited(c), RingQuiet, UNCHANGED <<free, occ, lock, ring, work, alive, ran>>,
             handle' \in [Item -> Nat], early' \subseteq Item
      PROVE  Basic' /\ c \in Client
  <2>1. c \in Client
    BY <1>2, <1>4, Zenon DEF FinInv, Adding
  <2>2. PICK q : q \in {"await", "delete"} /\ goto(c, q)
    BY <1>4, Zenon DEF Waited
  <2>3. \A d \in Caller : d # c => n'[d] = n[d]
    BY <1>4, Zenon DEF Waited, TypeOK
  <2>4. LockInv' /\ SlotInv' /\ QueueInv'
    BY <1>1, <1>4, <2>2, <2>3, OutsideStep, Zenon DEF InSection
  <2>5. ClientOK(c)'
    <3>1. n[c] \in 1 .. NumItems[c] /\ NumItems[c] \in Nat
      BY <1>4, <2>1, TPoolAssumption, Zenon DEF ClientOK
    <3>2. n'[c] = n[c] + 1 /\ pc'[c] = IF n[c] < NumItems[c] THEN "await" ELSE "delete"
      BY <1>1, <1>4, Zenon DEF Waited, TypeOK, goto, Proc
    <3> HIDE DEF Basic
    <3>3. \A N \in Nat : \A k \in 1 .. N : k < N => k + 1 \in 1 .. N
      OBVIOUS
    <3>4. n[c] < NumItems[c] => n'[c] \in 1 .. NumItems[c]
      BY <3>1, <3>2, <3>3, Zenon
    <3> QED
      BY <3>2, <3>4, Zenon DEF ClientOK, Adding
  <2>6. \A d \in Client : d # c => n'[d] = n[d]
    BY <2>3, Zenon DEF Caller
  <2>7. Control'
    BY <1>4, <2>1, <2>2, <2>5, <2>6, ClientControl, Zenon DEF Control
  <2>8. TypeOK'
    <3>1. n' \in [Caller -> Nat]
      BY <1>4 DEF TypeOK, Waited
    <3> QED
      BY <1>4, <2>2, <3>1, Zenon DEF TypeOK, goto, ring
  <2> QED
    BY <1>4, <2>1, <2>4, <2>7, <2>8, Zenon DEF Control, RingQuiet
<1>5. ASSUME pc[c] = "await"
      PROVE  <<c, n[c]>> \in Item
  <2>1. c \in Client
    BY <1>2, <1>5, Zenon DEF FinInv, Adding
  <2>2. <<c, n[c]>> \in {c} \X (1 .. NumItems[c])
    BY <1>5, <2>1, Zenon DEF ClientOK
  <2> QED
    BY <2>1, <2>2, Zenon DEF Item
<1>6. ASSUME tpool_wait(c)
      PROVE  Basic' /\ QueueSame /\ c \in Client
  <2>1. RingQuiet
    BY <1>6, CallerRing, Zenon
  <2>2. handle' \in [Item -> Nat]
    BY <1>5, <1>6 DEF tpool_wait, TypeOK
  <2> QED
    BY <1>4, <1>6, <2>1, <2>2, Zenon DEF tpool_wait, RingQuiet, TypeOK
<1>7. ASSUME tpool_wait_interrupted(c)
      PROVE  Basic' /\ QueueSame /\ c \in Client
  <2>1. RingQuiet
    BY <1>7, CallerRing, Zenon
  <2>2. early' \subseteq Item
    BY <1>5, <1>7, Zenon DEF tpool_wait_interrupted, TypeOK
  <2> QED
    BY <1>4, <1>7, <2>1, <2>2, Zenon DEF tpool_wait_interrupted, RingQuiet, TypeOK
<1>8. ASSUME tpool_delete_handles(c)
      PROVE  Basic' /\ QueueSame /\ c \in Client
  <2>1. RingQuiet
    BY <1>8, CallerRing, Zenon
  <2>2. c \in Client
    BY <1>2, <1>8, Zenon DEF FinInv, Adding, tpool_delete_handles
  <2>3. LockInv' /\ SlotInv' /\ QueueInv'
    BY <1>1, <1>8, <2>1, OutsideStep, Zenon DEF tpool_delete_handles, InSection
  <2>4. pc'[c] = "left"
    BY <1>1, <1>8, Moves, Zenon DEF tpool_delete_handles
  <2>5. ClientOK(c)'
    BY <2>4, Zenon DEF ClientOK, Adding
  <2>6. Control'
    BY <1>8, <2>2, <2>5, ClientControl, Zenon DEF Control, tpool_delete_handles
  <2>7. TypeOK'
    BY <1>8, Zenon DEF TypeOK, goto, ring, tpool_delete_handles
  <2> QED
    BY <2>1, <2>2, <2>3, <2>6, <2>7, Zenon DEF Control, RingQuiet
<1>9. ASSUME NEW q \in {"add", "finished"}, goto(Fin, q), pc[Fin] \in {"idle", "join"},
             UNCHANGED <<free, occ, lock, ring, n, work, handles, ran>>,
             \A d \in Client : pc[d] = "left",
             q = "finished" => \A t \in Thread : pc[t] = "exited",
             RingQuiet
      PROVE  Basic' /\ QueueSame
  <2>1. LockInv' /\ SlotInv' /\ QueueInv'
    BY <1>1, <1>9, OutsideStep, Zenon DEF InSection
  <2>2. Control'
    BY <1>9, FinControl, Zenon DEF Control, Adding
  <2>3. TypeOK'
    BY <1>9, Zenon DEF TypeOK, goto, ring, handles
  <2> QED
    BY <1>9, <2>1, <2>2, <2>3, Zenon DEF Control, RingQuiet
<1>10. tpool_finish => Basic' /\ QueueSame
  BY <1>1, <1>9, CallerRing, Zenon DEF tpool_finish
<1>11. finish_join => Basic' /\ QueueSame
  <2>1. finish_join => \A d \in Client : pc[d] = "left"
    BY Zenon DEF finish_join, FinInv
  <2> QED
    BY <1>1, <1>9, <2>1, CallerRing, Zenon DEF finish_join
<1> QED
  BY <1>3, <1>6, <1>7, <1>8, <1>10, <1>11, Zenon

LEMMA LoopBasic ==
  ASSUME Basic, NEW t \in Thread
  PROVE  /\ loop_wait(t) => Basic' /\ QueueSame
         /\ loop_lock(t) => Basic' /\ QueueSame
         /\ loop_slot(t) => Basic' /\ QueueSame
         /\ loop_advance(t) => Basic' /\ QueueTakes(work[t])
<1> USE DEF Basic
<1>1. t \in Proc /\ t # Nothing /\ t \notin Caller
  BY ConstFacts, Zenon DEF Proc
<1>2. ASSUME loop_wait(t)
      PROVE  Basic' /\ QueueSame
  <2>1. RingQuiet
    BY <1>2, ThreadRing, Zenon
  <2>2. LockInv' /\ SlotInv' /\ QueueInv'
    BY <1>1, <1>2, <2>1, OutsideStep, Zenon DEF loop_wait, InSection
  <2>3. pc'[t] = "lock"
    BY <1>1, <1>2, Moves, Zenon DEF loop_wait
  <2>4. Control'
    <3>1. ThreadOK(t)'
      BY <2>3, Zenon DEF ThreadOK, Taking
    <3> QED
      BY <1>2, <3>1, ThreadControl, Zenon DEF Control, loop_wait
  <2>5. TypeOK'
    <3>1. free' \in 0 .. NumSlots /\ occ' \in 0 .. NumSlots
      BY <1>2, <2>1, SemBounds DEF TypeOK, loop_wait, RingQuiet
    <3> QED
      BY <1>2, <3>1, Zenon DEF TypeOK, loop_wait, goto, ring, handles
  <2> QED
    BY <2>1, <2>2, <2>4, <2>5, Zenon DEF Control, RingQuiet
<1>3. ASSUME loop_lock(t)
      PROVE  Basic' /\ QueueSame
  <2>1. RingQuiet
    BY <1>3, ThreadRing, Zenon
  <2>2. pc'[t] = "slot" /\ \A r \in Proc : r # t => pc'[r] = pc[r]
    BY <1>1, <1>3, Moves, Zenon DEF loop_lock
  <2>3. \A r \in Proc : pc[r] \notin InSection
    BY <1>3, ConstFacts, Zenon DEF LockInv, loop_lock
  <2>4. LockInv'
    BY <1>1, <1>3, <2>2, <2>3, Zenon DEF LockInv, loop_lock, InSection
  <2>5. SlotInv' /\ QueueInv'
    BY <1>1, <2>1, <2>2, <2>3, Zenon DEF SlotInv, InSection, Proc, QueueInv, RingQuiet, QueueSame
  <2>6. Control'
    <3>1. ThreadOK(t)'
      BY <2>2, Zenon DEF ThreadOK, Taking
    <3> QED
      BY <1>3, <3>1, ThreadControl, Zenon DEF Control, loop_lock
  <2>7. TypeOK'
    BY <1>1, <1>3, Zenon DEF TypeOK, loop_lock, goto, ring, handles, Proc
  <2> QED
    BY <2>1, <2>4, <2>5, <2>6, <2>7, Zenon DEF Control, RingQuiet
<1>4. ASSUME loop_slot(t)
      PROVE  Basic' /\ QueueSame
  <2>1. RingQuiet
    BY <1>4, ThreadRing, Zenon
  <2>2. pc'[t] = "advance" /\ \A r \in Proc : r # t => pc'[r] = pc[r]
    BY <1>1, <1>4, Moves, Zenon DEF loop_slot
  <2>3. \A r \in Proc : r # t => pc[r] \notin InSection
    BY <1>1, <1>4, Zenon DEF LockInv, loop_slot, InSection
  <2>4. LockInv'
    BY <1>1, <1>4, <2>2, <2>3, Zenon DEF LockInv, loop_slot, InSection
  <2>5. SlotInv'
    BY <1>1, <1>4, <2>2, <2>3, Zenon DEF SlotInv, InSection, Proc, loop_slot, ring, TypeOK
  <2>6. QueueInv'
    BY <2>1, Zenon DEF QueueInv, RingQuiet, QueueSame
  <2>7. Control'
    <3>1. ThreadOK(t)'
      BY <2>2, Zenon DEF ThreadOK, Taking
    <3>2. \A u \in Thread : u # t => work'[u] = work[u]
      BY <1>4, Zenon DEF loop_slot, TypeOK
    <3> QED
      BY <1>4, <3>1, <3>2, ThreadControl, Zenon DEF Control, loop_slot
  <2>8. TypeOK'
    <3>1. work' \in [Thread -> Work \cup {Nothing}]
      BY <1>4, Zenon DEF TypeOK, loop_slot
    <3> QED
      BY <1>4, <3>1, Zenon DEF TypeOK, loop_slot, goto, ring, handles
  <2> QED
    BY <2>1, <2>4, <2>5, <2>6, <2>7, <2>8, Zenon DEF Control, RingQuiet
<1>5. ASSUME loop_advance(t)
      PROVE  Basic' /\ QueueTakes(work[t])
  <2>1. RingInv' /\ QueueTakes(work[t]) /\ pull' \in Slot
    BY <1>5, TakeRing, Zenon DEF loop_advance, SlotInv
  <2>2. pc'[t] = "post" /\ \A r \in Proc : r # t => pc'[r] = pc[r]
    BY <1>1, <1>5, Moves, Zenon DEF loop_advance
  <2>3. \A r \in Proc : r # t => pc[r] \notin InSection
    BY <1>1, <1>5, Zenon DEF LockInv, loop_advance, InSection
  <2>4. Held \in Nat
    BY HeldType, ConstFacts
  <2>5. LockInv'
    BY <1>1, <1>5, <2>2, <2>3, ConstFacts, Zenon DEF LockInv, loop_advance, InSection
  <2>6. SlotInv'
    BY <1>1, <2>2, <2>3, Zenon DEF SlotInv, InSection, Proc
  <2>7. QueueInv'
    <3>1. \A k \in 1 .. Held' : k \in 1 .. Held - 1 /\ k + 1 \in 1 .. Held
      BY <2>1, <2>4 DEF QueueTakes
    <3> QED
      BY <2>1, <3>1, Zenon DEF QueueInv, QueueTakes
  <2>8. Control'
    <3>1. work[t] \in Work
      <4>1. 1 \in 1 .. Held
        BY <2>1, <2>4 DEF QueueTakes
      <4> QED
        BY <2>1, <4>1, Zenon DEF QueueInv, QueueTakes
    <3>2. ThreadOK(t)'
      BY <1>5, <2>2, <3>1, Zenon DEF ThreadOK, loop_advance
    <3> QED
      BY <1>5, <3>2, ThreadControl, Zenon DEF Control, loop_advance
  <2>9. TypeOK'
    BY <1>5, <2>1, Zenon DEF TypeOK, loop_advance, goto, ring, handles
  <2> QED
    BY <2>1, <2>5, <2>6, <2>7, <2>8, <2>9, Zenon DEF Control
<1> QED
  BY <1>2, <1>3, <1>4, <1>5, Zenon

LEMMA RunBasic ==
  ASSUME Basic, NEW t \in Thread
  PROVE  /\ loop_post(t) => Basic' /\ QueueSame
         /\ loop_run(t) => Basic' /\ QueueSame
         /\ loop_signal(t) => Basic' /\ QueueSame
<1> USE DEF Basic
<1>1. t \in Proc
  BY Zenon DEF Proc
<1>2. ASSUME NEW q \in {"run", "exited", "signal", "wait"}, goto(t, q),
             pc[t] \in {"post", "run", "signal"}, RingQuiet,
             UNCHANGED <<occ, lock, ring, n, work, alive, early>>,
             free' \in Nat, handle' \in [Item -> Nat], ran' \in [Work -> Nat],
             q = "run" => work[t] \in Work, q = "signal" => work[t] \in Item
      PROVE  Basic' /\ QueueSame
  <2>1. LockInv' /\ SlotInv' /\ QueueInv'
    BY <1>1, <1>2, OutsideStep, Zenon DEF InSection
  <2>2. pc'[t] = q
    BY <1>1, <1>2, Moves, Zenon
  <2>3. ThreadOK(t)'
    BY <1>2, <2>2, Zenon DEF ThreadOK, Taking
  <2>4. Control'
    BY <1>2, <2>3, ThreadControl, Zenon DEF Control
  <2>5. TypeOK'
    <3>1. free' \in 0 .. NumSlots /\ occ' \in 0 .. NumSlots
      BY <1>2, SemBounds DEF TypeOK, RingQuiet
    <3> QED
      BY <1>2, <3>1, Zenon DEF TypeOK, goto, ring
  <2> QED
    BY <1>2, <2>1, <2>4, <2>5, Zenon DEF Control, RingQuiet
<1>3. loop_post(t) => Basic' /\ QueueSame
  <2> SUFFICES ASSUME loop_post(t)
               PROVE  Basic' /\ QueueSame
    BY Zenon
  <2>1. RingQuiet /\ free' \in Nat /\ work[t] \in Work
    BY ThreadRing DEF loop_post, TypeOK, ThreadOK
  <2> QED
    BY <1>2, <2>1, Zenon DEF loop_post, TypeOK, handles
<1>4. loop_run(t) => Basic' /\ QueueSame
  <2> SUFFICES ASSUME loop_run(t)
               PROVE  Basic' /\ QueueSame
    BY Zenon
  <2>1. RingQuiet /\ work[t] \in Work
    BY ThreadRing, Zenon DEF loop_run, ThreadOK
  <2>2. ran' \in [Work -> Nat] /\ free \in Nat
    BY <2>1 DEF loop_run, TypeOK
  <2>3. PICK q \in {"exited", "signal"} : goto(t, q) /\ (q = "signal" => work[t] \in Item)
    BY <2>1, Zenon DEF loop_run, Work
  <2> QED
    BY <1>2, <2>1, <2>2, <2>3, Zenon DEF loop_run, TypeOK, handles
<1>5. loop_signal(t) => Basic' /\ QueueSame
  <2> SUFFICES ASSUME loop_signal(t)
               PROVE  Basic' /\ QueueSame
    BY Zenon
  <2>1. RingQuiet /\ work[t] \in Item
    BY ThreadRing, Zenon DEF loop_signal, ThreadOK
  <2>2. handle' \in [Item -> Nat] /\ free \in Nat
    BY <2>1 DEF loop_signal, TypeOK
  <2> QED
    BY <1>2, <2>1, <2>2, Zenon DEF loop_signal, TypeOK
<1> QED
  BY <1>3, <1>4, <1>5, Zenon
=============================================================================
