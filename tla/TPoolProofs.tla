----------------------------- MODULE TPoolProofs -----------------------------
(*****************************************************************************)
(* The thread pool implements an abstract pool that carries out every        *)
(* piece of work once and in order, for every number of threads, callers     *)
(* and items.  The first part is about where each item is, and that          *)
(* pthread_exit comes after all of them.                                     *)
(*****************************************************************************)
EXTENDS TPoolInv

-----------------------------------------------------------------------------
(* pthread_exit comes after the items *)

LEMMA ExitSame ==
  ASSUME ExitInv, QueueSame, pc'[Fin] = "idle" => pc[Fin] = "idle",
         \A t \in Thread : Leaving(t)' => Leaving(t),
         ran'[Exit] = Count(Thread, {"exited"})'
  PROVE  ExitInv'
  BY Zenon DEF ExitInv, QueueSame

LEMMA CallerExit ==
  ASSUME Basic, ExitInv, NEW c \in Caller, NEW q, q # "idle", goto(c, q),
         UNCHANGED <<work, ran>>
  PROVE  /\ QueueSame => ExitInv'
         /\ QueueAdds(Adds(c)) /\ pc[c] \in Adding /\ (c # Fin => pc[Fin] = "idle") => ExitInv'
<1>1. /\ pc'[c] = q /\ \A r \in Proc : r # c => pc'[r] = pc[r]
      /\ Count(Thread, {"exited"})' = Count(Thread, {"exited"})
  BY CallerMoves, Zenon DEF Basic
<1>2. c \notin Thread /\ Fin \in Proc
  BY ConstFacts, Zenon DEF Proc
<1>3. \A t \in Thread : Leaving(t)' <=> Leaving(t)
  BY <1>1, <1>2, Zenon DEF Leaving, Proc
<1>4. /\ pc'[Fin] = "idle" => pc[Fin] = "idle" /\ c # Fin
      /\ ran'[Exit] = Count(Thread, {"exited"})'
  BY <1>1, <1>2, Zenon DEF ExitInv
<1>5. QueueSame => ExitInv'
  BY <1>3, <1>4, ExitSame, Zenon
<1>6. ASSUME QueueAdds(Adds(c)), pc[c] \in Adding, c # Fin => pc[Fin] = "idle"
      PROVE  ExitInv'
  <2>1. Held \in Nat
    BY HeldType, ConstFacts DEF Basic
  <2>2. /\ \A k \in 1 .. Held' : k \in 1 .. Held \/ k = Held + 1
        /\ \A k \in 1 .. Held : Queue'[k] = Queue[k]
        /\ Queue'[Held + 1] = Adds(c)
    BY <1>6, <2>1 DEF QueueAdds
  <2>3. CASE c = Fin
    <3>1. Queue'[Held + 1] = Exit
      BY <2>2, <2>3, Zenon DEF Adds
    <3>2. \A j, k \in 1 .. Held' : j < k /\ Queue'[j] = Exit => Queue'[k] = Exit
      BY <2>1, <2>2, <3>1 DEF ExitInv
    <3> QED
      BY <1>3, <1>4, <2>2, <2>3, <3>1, <3>2, Zenon DEF ExitInv
  <2>4. CASE c # Fin
    <3>1. Adds(c) # Exit
      <4>1. <<c, n[c]>> \in Item
        <5>1. c \in Client
          BY <2>4, Zenon DEF Caller
        <5>2. <<c, n[c]>> \in {c} \X (1 .. NumItems[c])
          BY <1>6, <5>1, Zenon DEF Basic, ClientOK
        <5> QED
          BY <5>1, <5>2, Zenon DEF Item
      <4> QED
        BY <4>1, <2>4, TPoolAssumption, Zenon DEF Adds
    <3> QED
      BY <1>3, <1>4, <2>2, <2>4, <3>1, <1>6, Zenon DEF ExitInv
  <2> QED
    BY <2>3, <2>4, Zenon
<1> QED
  BY <1>5, <1>6, Zenon

LEMMA ThreadExit ==
  ASSUME Basic, ExitInv, NEW t \in Thread
  PROVE  /\ loop_wait(t) /\ QueueSame => ExitInv'
         /\ loop_lock(t) /\ QueueSame => ExitInv'
         /\ loop_slot(t) /\ QueueSame => ExitInv'
         /\ loop_advance(t) /\ QueueTakes(work[t]) => ExitInv'
         /\ loop_post(t) /\ QueueSame => ExitInv'
         /\ loop_run(t) /\ QueueSame => ExitInv'
         /\ loop_signal(t) /\ QueueSame => ExitInv'
<1>1. t \in Proc /\ Fin \in Proc /\ t # Fin
  BY ConstFacts, Zenon DEF Proc
<1>2. ASSUME NEW q, goto(t, q)
      PROVE  /\ pc'[t] = q /\ pc'[Fin] = pc[Fin]
             /\ \A u \in Thread : u # t => pc'[u] = pc[u]
             /\ pc[t] # "exited" /\ q # "exited" =>
                  Count(Thread, {"exited"})' = Count(Thread, {"exited"})
             /\ pc[t] # "exited" /\ q = "exited" =>
                  Count(Thread, {"exited"})' = Count(Thread, {"exited"}) + 1
  BY <1>1, <1>2, ThreadMoves DEF Basic, Proc
<1>3. ASSUME NEW q, goto(t, q), QueueSame, UNCHANGED ran,
             pc[t] # "exited", q # "exited",
             \A u \in Thread : u # t => work'[u] = work[u],
             q \in {"post", "run"} => pc[t] = "post" /\ work'[t] = work[t]
      PROVE  ExitInv'
  <2>1. \A u \in Thread : Leaving(u)' => Leaving(u)
    BY <1>2, <1>3, Zenon DEF Leaving
  <2> QED
    BY <1>2, <1>3, <2>1, ExitSame, Zenon DEF ExitInv
<1>4. loop_wait(t) /\ QueueSame => ExitInv'
  BY <1>3, Zenon DEF loop_wait
<1>5. loop_lock(t) /\ QueueSame => ExitInv'
  BY <1>3, Zenon DEF loop_lock
<1>6. loop_slot(t) /\ QueueSame => ExitInv'
  BY <1>3, Zenon DEF loop_slot, Basic, TypeOK
<1>7. loop_post(t) /\ QueueSame => ExitInv'
  BY <1>3, Zenon DEF loop_post
<1>8. loop_signal(t) /\ QueueSame => ExitInv'
  BY <1>3, Zenon DEF loop_signal
<1>9. ASSUME loop_run(t), QueueSame
      PROVE  ExitInv'
  <2>1. work[t] \in Work /\ Exit \in Work
    BY <1>9, Zenon DEF Basic, ThreadOK, loop_run, Work
  <2>2. CASE work[t] = Exit
    <3>1. ran'[Exit] = ran[Exit] + 1
      BY <1>9, <2>1, <2>2, Zenon DEF loop_run, Basic, TypeOK
    <3>2. goto(t, "exited") /\ pc[t] = "run" /\ UNCHANGED work
      BY <1>9, <2>2, Zenon DEF loop_run
    <3>3. \A u \in Thread : Leaving(u)' => Leaving(u)
      BY <1>2, <2>2, <3>2, Zenon DEF Leaving
    <3> QED
      BY <1>2, <1>9, <3>1, <3>2, <3>3, ExitSame, Zenon DEF ExitInv
  <2>3. CASE work[t] # Exit
    <3>1. ran'[Exit] = ran[Exit]
      BY <1>9, <2>1, <2>3, Zenon DEF loop_run, Basic, TypeOK
    <3>2. goto(t, "signal") /\ pc[t] = "run" /\ UNCHANGED work
      BY <1>9, <2>3, Zenon DEF loop_run
    <3>3. \A u \in Thread : Leaving(u)' => Leaving(u)
      BY <1>2, <3>2 DEF Leaving
    <3> QED
      BY <1>2, <1>9, <3>1, <3>2, <3>3, ExitSame DEF ExitInv
  <2> QED
    BY <2>2, <2>3, Zenon
<1>10. ASSUME loop_advance(t), QueueTakes(work[t])
       PROVE  ExitInv'
  <2>1. Held \in Nat
    BY HeldType, ConstFacts DEF Basic
  <2>2. /\ \A k \in 1 .. Held' : k + 1 \in 1 .. Held /\ Queue'[k] = Queue[k + 1] /\ 1 < k + 1
        /\ 1 \in 1 .. Held /\ Queue[1] = work[t]
    BY <1>10, <2>1 DEF QueueTakes
  <2>3. goto(t, "post") /\ pc[t] = "advance" /\ UNCHANGED <<work, ran>>
    BY <1>10, Zenon DEF loop_advance
  <2>4. \A u \in Thread : Leaving(u)' => Leaving(u) \/ (u = t /\ work[t] = Exit)
    BY <1>2, <2>3 DEF Leaving
  <2>5. \A j, k \in 1 .. Held' : j < k /\ Queue'[j] = Exit => Queue'[k] = Exit
    <3> SUFFICES ASSUME NEW j \in 1 .. Held', NEW k \in 1 .. Held', j < k, Queue'[j] = Exit
                 PROVE  Queue'[k] = Exit
      BY Zenon
    <3>1. j + 1 < k + 1
      OBVIOUS
    <3> QED
      BY <2>2, <3>1, Zenon DEF ExitInv
  <2>6. \A u \in Thread : Leaving(u)' => \A k \in 1 .. Held' : Queue'[k] = Exit
    BY <2>2, <2>4, Zenon DEF ExitInv
  <2>7. pc'[Fin] = "idle" => /\ \A k \in 1 .. Held' : Queue'[k] # Exit
                             /\ \A u \in Thread : ~Leaving(u)'
    BY <1>2, <2>2, <2>3, <2>4, Zenon DEF ExitInv
  <2>8. ran'[Exit] = Count(Thread, {"exited"})'
    BY <1>2, <2>3 DEF ExitInv
  <2> QED
    BY <2>5, <2>6, <2>7, <2>8, Zenon DEF ExitInv
<1> QED
  BY <1>4, <1>5, <1>6, <1>7, <1>8, <1>9, <1>10, Zenon

-----------------------------------------------------------------------------
(* Every item is in one place *)

LEMMA ItemFacts ==
  ASSUME NEW i \in Item
  PROVE  /\ i[1] \in Client /\ i[2] \in 1 .. NumItems[i[1]] /\ i = <<i[1], i[2]>>
         /\ i # Exit /\ i \in Work /\ i[1] \in Caller /\ i[1] \in Proc
         /\ i[1] # Fin /\ i[1] \notin Thread /\ NumItems[i[1]] \in Nat /\ i[2] \in Nat
<1>1. PICK c \in Client : i \in {c} \X (1 .. NumItems[c])
  BY Zenon DEF Item
<1>2. i[1] = c /\ i[2] \in 1 .. NumItems[c] /\ i = <<i[1], i[2]>>
  BY <1>1
<1> QED
  BY <1>2, TPoolAssumption, ConstFacts DEF Work, Caller, Proc

LEMMA ItemSame ==
  ASSUME NEW i \in Item, ItemOK(i),
         \A j, k \in Places(i)' : j = k, Places(i)' = {} <=> Places(i) = {},
         Holders(i)' = Holders(i),
         \A t \in Holders(i) : pc'[t] = "signal" <=> pc[t] = "signal",
         ran'[i] = ran[i], handle'[i] = handle[i],
         Submitted(i)' <=> Submitted(i), WaitedFor(i)' <=> WaitedFor(i),
         i \notin alive' => pc'[i[1]] = "left"
  PROVE  ItemOK(i)'
  BY Zenon DEF ItemOK

\* The places of an item in a queue that stays, grows or shrinks.
LEMMA PlacesStep ==
  ASSUME Basic, NEW i \in Item, \A j, k \in Places(i) : j = k
  PROVE  /\ QueueSame => Places(i)' = Places(i)
         /\ \A w : QueueAdds(w) /\ w # i => Places(i)' = Places(i)
         /\ QueueAdds(i) /\ Places(i) = {} =>
              Places(i)' # {} /\ \A j, k \in Places(i)' : j = k
         /\ \A w : QueueTakes(w) /\ w # i =>
              /\ \A j, k \in Places(i)' : j = k
              /\ Places(i)' = {} <=> Places(i) = {}
         /\ QueueTakes(i) => Places(i) # {} /\ Places(i)' = {}
<1>1. Held \in Nat
  BY HeldType, ConstFacts DEF Basic
<1>2. QueueSame => Places(i)' = Places(i)
  BY Zenon DEF QueueSame, Places
<1>3. ASSUME NEW w, QueueAdds(w), w # i
      PROVE  Places(i)' = Places(i)
  BY <1>1, <1>3 DEF QueueAdds, Places
<1>4. ASSUME QueueAdds(i), Places(i) = {}
      PROVE  Places(i)' # {} /\ \A j, k \in Places(i)' : j = k
  <2>1. Held + 1 \in Places(i)'
    BY <1>1, <1>4 DEF QueueAdds, Places
  <2>2. \A k \in Places(i)' : k = Held + 1
    BY <1>1, <1>4 DEF QueueAdds, Places
  <2> QED
    BY <2>1, <2>2, Zenon
<1>5. ASSUME NEW w, QueueTakes(w)
      PROVE  /\ \A k \in Places(i)' : k \in 1 .. Held - 1 /\ k + 1 \in Places(i)
             /\ \A k \in Places(i) : w # i => k - 1 \in Places(i)'
             /\ w = i => 1 \in Places(i)
  <2>1. \A k \in Places(i)' : k \in 1 .. Held - 1 /\ k + 1 \in Places(i)
    BY <1>1, <1>5 DEF QueueTakes, Places
  <2>2. ASSUME NEW k \in Places(i), w # i
        PROVE  k - 1 \in Places(i)'
    <3>1. k # 1 /\ k \in 1 .. Held /\ Queue[k] = i
      BY <1>5, <2>2, Zenon DEF QueueTakes, Places
    <3>2. k - 1 \in 1 .. Held - 1 /\ (k - 1) + 1 = k
      BY <1>1, <3>1
    <3>3. Queue'[k - 1] = i /\ k - 1 \in 1 .. Held'
      BY <1>5, <3>1, <3>2, Zenon DEF QueueTakes
    <3> QED
      BY <3>3, Zenon DEF Places
  <2>3. w = i => 1 \in Places(i)
    BY <1>1, <1>5 DEF QueueTakes, Places
  <2> QED
    BY <2>1, <2>2, <2>3, Zenon
<1>6. ASSUME NEW w, QueueTakes(w), w # i
      PROVE  /\ \A j, k \in Places(i)' : j = k
             /\ Places(i)' = {} <=> Places(i) = {}
  <2>1. \A j, k \in Places(i)' : j + 1 = k + 1 /\ j \in Nat /\ k \in Nat
    BY <1>5, <1>6, <1>1
  <2>2. \A j, k \in Places(i)' : j = k
    BY <2>1
  <2> QED
    BY <1>5, <1>6, <2>2, Zenon
<1>7. ASSUME QueueTakes(i)
      PROVE  Places(i) # {} /\ Places(i)' = {}
  <2>1. 1 \in Places(i)
    BY <1>5, <1>7, Zenon
  <2>2. \A k \in Places(i)' : k + 1 = 1 /\ k \in 1 .. Held - 1
    BY <1>5, <1>7, <2>1, Zenon
  <2> QED
    BY <1>1, <2>1, <2>2
<1> QED
  BY <1>2, <1>3, <1>4, <1>6, <1>7, Zenon

\* A step of a caller leaves the threads alone, and the items of others.
LEMMA CallerItems ==
  ASSUME Basic, NEW c \in Caller, NEW q, goto(c, q), UNCHANGED work, NEW i \in Item
  PROVE  /\ pc'[c] = q
         /\ Holders(i)' = Holders(i)
         /\ \A t \in Holders(i) : pc'[t] = pc[t]
         /\ i[1] # c => pc'[i[1]] = pc[i[1]]
<1>1. c \notin Thread /\ c \in Proc
  BY ConstFacts, Zenon DEF Proc
<1>2. pc'[c] = q /\ \A r \in Proc : r # c => pc'[r] = pc[r]
  BY <1>1, Moves, Zenon DEF Basic
<1>3. \A t \in Thread : pc'[t] = pc[t]
  BY <1>1, <1>2, Zenon DEF Proc
<1> QED
  BY <1>2, <1>3, ItemFacts, Zenon DEF Holders

\* Items under a step that neither adds, waits for nor deletes.
LEMMA AddItems ==
  ASSUME Basic, NEW i \in Item, ItemOK(i), NEW c \in Caller
  PROVE  /\ add_room(c) /\ QueueSame => ItemOK(i)'
         /\ add_lock(c) /\ QueueSame => ItemOK(i)'
         /\ add_slot(c) /\ QueueSame => ItemOK(i)'
         /\ add_post(c) /\ QueueSame => ItemOK(i)'
         /\ tpool_finish /\ QueueSame => ItemOK(i)'
         /\ finish_join /\ QueueSame => ItemOK(i)'
<1>1. /\ i[1] \in Client /\ i[2] \in 1 .. NumItems[i[1]] /\ i[1] # Fin
      /\ NumItems[i[1]] \in Nat /\ i[2] \in Nat
  BY ItemFacts, Zenon
<1>2. ASSUME NEW d \in Caller, NEW q, goto(d, q), QueueSame, UNCHANGED <<work, handles, ran>>,
             Submitted(i)' <=> Submitted(i), WaitedFor(i)' <=> WaitedFor(i),
             d = i[1] => pc[d] # "left"
      PROVE  ItemOK(i)'
  <2>1. /\ Holders(i)' = Holders(i) /\ \A t \in Holders(i) : pc'[t] = pc[t]
        /\ i[1] # d => pc'[i[1]] = pc[i[1]]
    BY <1>2, CallerItems, Zenon
  <2>2. Places(i)' = Places(i)
    BY <1>2, Zenon DEF QueueSame, Places
  <2>3. i \notin alive' => pc'[i[1]] = "left"
    BY <1>2, <2>1, Zenon DEF ItemOK, handles
  <2>4. \A j, k \in Places(i)' : j = k
    BY <2>2, Zenon DEF ItemOK
  <2> QED
    BY <1>2, <2>1, <2>2, <2>3, <2>4, ItemSame, Zenon DEF handles
<1>3. ASSUME NEW d \in Caller, NEW q, goto(d, q), QueueSame, UNCHANGED <<n, work, handles, ran>>,
             d = i[1] => /\ pc[d] \notin {"add_post", "await", "delete", "left"}
                         /\ q \notin {"add_post", "await", "delete", "left"}
      PROVE  ItemOK(i)'
  <2>1. pc'[d] = q /\ (i[1] # d => pc'[i[1]] = pc[i[1]])
    BY <1>3, CallerItems, Zenon
  <2>2. (Submitted(i)' <=> Submitted(i)) /\ (WaitedFor(i)' <=> WaitedFor(i))
    BY <1>3, <2>1, Zenon DEF Submitted, WaitedFor, handles
  <2> QED
    BY <1>2, <1>3, <2>2, Zenon
<1>4. add_room(c) /\ QueueSame => ItemOK(i)'
  BY <1>3, Zenon DEF add_room
<1>5. add_lock(c) /\ QueueSame => ItemOK(i)'
  BY <1>3, Zenon DEF add_lock
<1>6. add_slot(c) /\ QueueSame => ItemOK(i)'
  BY <1>3, Zenon DEF add_slot
<1>7. tpool_finish /\ QueueSame => ItemOK(i)'
  BY <1>1, <1>3, ConstFacts, Zenon DEF tpool_finish
<1>8. finish_join /\ QueueSame => ItemOK(i)'
  BY <1>1, <1>3, ConstFacts, Zenon DEF finish_join
<1>9. ASSUME add_post(c), QueueSame
      PROVE  ItemOK(i)'
  <2>1. PICK q : goto(c, q)
    BY <1>9, Zenon DEF add_post
  <2>2. UNCHANGED <<work, handles, ran>> /\ pc[c] = "add_post"
    BY <1>9, Zenon DEF add_post
  <2>3. (Submitted(i)' <=> Submitted(i)) /\ (WaitedFor(i)' <=> WaitedFor(i))
    <3>1. CASE c # i[1]
      <4>1. n'[i[1]] = n[i[1]] /\ pc'[i[1]] = pc[i[1]]
        BY <1>1, <1>9, <2>1, <2>2, <3>1, CallerItems, ZenonT(40) DEF add_post, Basic, TypeOK, Caller
      <4> QED
        BY <2>2, <4>1, ZenonT(40) DEF Submitted, WaitedFor, handles
    <3>2. CASE c = i[1]
      <4>1. n[c] \in 1 .. NumItems[c]
        BY <1>1, <2>2, <3>2, Zenon DEF Basic, ClientOK, Adding
      <4>2. IF n[c] < NumItems[c] THEN pc'[c] = "add" /\ n'[c] = n[c] + 1
                                  ELSE pc'[c] = "await" /\ n'[c] = 1
        BY <1>1, <1>9, <3>2, ConstFacts, Zenon DEF add_post, Basic, TypeOK, goto, Proc
      <4>3. Submitted(i)' <=> Submitted(i)
        BY <1>1, <2>2, <3>2, <4>1, <4>2 DEF Submitted
      <4>4. WaitedFor(i)' <=> WaitedFor(i)
        BY <1>1, <2>2, <3>2, <4>1, <4>2 DEF WaitedFor
      <4> QED
        BY <4>3, <4>4, Zenon
    <3> QED
      BY <3>1, <3>2, Zenon
  <2> QED
    BY <1>2, <1>9, <2>1, <2>2, <2>3, Zenon
<1> QED
  BY <1>4, <1>5, <1>6, <1>7, <1>8, <1>9, Zenon

LEMMA SubmitItems ==
  ASSUME Basic, NEW i \in Item, ItemOK(i), NEW c \in Caller,
         add_advance(c), QueueAdds(Adds(c))
  PROVE  ItemOK(i)'
<1>1. /\ i[1] \in Client /\ i[2] \in 1 .. NumItems[i[1]] /\ i[1] # Fin
      /\ NumItems[i[1]] \in Nat /\ i[2] \in Nat /\ i = <<i[1], i[2]>> /\ i # Exit
  BY ItemFacts, Zenon
<1>2. /\ goto(c, "add_post") /\ UNCHANGED <<n, work, handles, ran>> /\ pc[c] = "add_advance"
  BY Zenon DEF add_advance
<1>3. /\ pc'[c] = "add_post" /\ Holders(i)' = Holders(i)
      /\ \A t \in Holders(i) : pc'[t] = pc[t]
      /\ i[1] # c => pc'[i[1]] = pc[i[1]]
  BY <1>2, CallerItems, Zenon
<1>4. (WaitedFor(i)' <=> WaitedFor(i)) /\ (i \notin alive' => pc'[i[1]] = "left")
  BY <1>2, <1>3, Zenon DEF WaitedFor, handles, ItemOK
<1>5. CASE i = Adds(c)
  <2>1. i[1] = c /\ i[2] = n[c]
    BY <1>1, <1>5, Zenon DEF Adds
  <2>2. ~Submitted(i) /\ Submitted(i)' /\ ~WaitedFor(i)
    BY <1>1, <1>2, <1>3, <2>1 DEF Submitted, WaitedFor
  <2>3. Places(i) = {} /\ Holders(i) = {} /\ ran[i] = 0 /\ handle[i] = 0
    BY <2>2, Zenon DEF ItemOK
  <2>4. Places(i)' # {} /\ \A j, k \in Places(i)' : j = k
    BY <1>5, <2>3, PlacesStep, Zenon DEF ItemOK
  <2>5. ran'[i] = 0 /\ handle'[i] = 0 /\ Holders(i)' = {}
    BY <1>2, <1>3, <2>3, Zenon DEF handles
  <2> QED
    BY <1>4, <2>2, <2>4, <2>5, Zenon DEF ItemOK
<1>6. CASE i # Adds(c)
  <2>1. Places(i)' = Places(i)
    BY <1>6, PlacesStep, Zenon DEF ItemOK
  <2>2. Submitted(i)' <=> Submitted(i)
    BY <1>1, <1>2, <1>3, <1>6, Zenon DEF Submitted, Adds
  <2>3. \A j, k \in Places(i)' : j = k
    BY <2>1, Zenon DEF ItemOK
  <2> QED
    BY <1>2, <1>3, <1>4, <2>1, <2>2, <2>3, ItemSame, Zenon DEF handles
<1> QED
  BY <1>5, <1>6, Zenon

LEMMA WaitItems ==
  ASSUME Basic, NEW i \in Item, ItemOK(i), NEW c \in Client, QueueSame
  PROVE  /\ tpool_wait(c) => ItemOK(i)'
         /\ tpool_wait_interrupted(c) => ItemOK(i)'
         /\ tpool_delete_handles(c) => ItemOK(i)'
<1>1. /\ i[1] \in Client /\ i[2] \in 1 .. NumItems[i[1]] /\ i[1] # Fin
      /\ NumItems[i[1]] \in Nat /\ i[2] \in Nat /\ i = <<i[1], i[2]>>
      /\ c \in Caller /\ c \in Proc
  BY ItemFacts, Zenon DEF Caller, Proc
<1>2. Places(i)' = Places(i) /\ \A j, k \in Places(i)' : j = k
  BY Zenon DEF QueueSame, Places, ItemOK
<1>3. ASSUME pc[c] = "await", Waited(c), UNCHANGED <<work, alive, ran>>
      PROVE  /\ Holders(i)' = Holders(i) /\ \A t \in Holders(i) : pc'[t] = pc[t]
             /\ i \notin alive' => pc'[i[1]] = "left"
             /\ Submitted(i)' <=> Submitted(i)
             /\ i = <<c, n[c]>> => ~WaitedFor(i)
             /\ i # <<c, n[c]>> /\ (i \in early' <=> i \in early) =>
                  (WaitedFor(i)' <=> WaitedFor(i))
  <2>1. PICK q \in {"await", "delete"} : goto(c, q)
    BY <1>3, Zenon DEF Waited
  <2>2. /\ pc'[c] = q /\ Holders(i)' = Holders(i)
        /\ \A t \in Holders(i) : pc'[t] = pc[t]
        /\ i[1] # c => pc'[i[1]] = pc[i[1]]
    BY <1>1, <1>3, <2>1, CallerItems, Zenon
  <2>3. i \notin alive' => pc'[i[1]] = "left"
    BY <1>3, <2>2, Zenon DEF ItemOK
  <2>4. n[c] \in 1 .. NumItems[c]
    BY <1>3, Zenon DEF Basic, ClientOK
  <2>5. /\ n'[c] = n[c] + 1 /\ (i[1] # c => n'[i[1]] = n[i[1]])
        /\ pc'[c] = IF n[c] < NumItems[c] THEN "await" ELSE "delete"
    BY <1>1, <1>3, Zenon DEF Waited, Basic, TypeOK, goto, Proc, Caller
  <2>6. Submitted(i)' <=> Submitted(i)
    BY <1>3, <2>1, <2>2, <2>5, Zenon DEF Submitted
  <2>7. i = <<c, n[c]>> => ~WaitedFor(i)
    BY <1>3, <2>4 DEF WaitedFor
  <2>8. ASSUME i # <<c, n[c]>>, i \in early' <=> i \in early
        PROVE  WaitedFor(i)' <=> WaitedFor(i)
    <3>1. CASE i[1] # c
      BY <2>2, <2>5, <2>8, <3>1, Zenon DEF WaitedFor
    <3>2. CASE i[1] = c
      <4>1. i[2] # n[c] /\ i[2] \in 1 .. NumItems[c] /\ NumItems[c] \in Nat
        BY <1>1, <2>8, <3>2, Zenon
      <4> QED
        BY <1>3, <2>4, <2>5, <2>8, <3>2, <4>1 DEF WaitedFor
    <3> QED
      BY <3>1, <3>2, Zenon
  <2> QED
    BY <2>2, <2>3, <2>6, <2>7, <2>8, Zenon
<1>4. ASSUME tpool_wait(c)
      PROVE  ItemOK(i)'
  <2>1. pc[c] = "await" /\ Waited(c) /\ UNCHANGED <<work, alive, ran, early>>
    BY <1>4, Zenon DEF tpool_wait
  <2>2. CASE i = <<c, n[c]>>
    <3>1. handle[i] = 1 /\ handle'[i] = 0 /\ ran[i] = 1
      BY <1>4, <2>2 DEF tpool_wait, ItemOK, Basic, TypeOK
    <3>2. Places(i) = {} /\ Holders(i) = {}
      BY <3>1 DEF ItemOK
    <3> QED
      BY <1>2, <1>3, <2>1, <3>1, <3>2, Zenon DEF ItemOK
  <2>3. CASE i # <<c, n[c]>>
    <3>1. handle'[i] = handle[i]
      BY <1>4, <2>3, Zenon DEF tpool_wait, Basic, TypeOK
    <3> QED
      BY <1>2, <1>3, <2>1, <2>3, <3>1, ItemSame, Zenon
  <2> QED
    BY <2>2, <2>3, Zenon
<1>5. ASSUME tpool_wait_interrupted(c)
      PROVE  ItemOK(i)'
  <2>1. /\ pc[c] = "await" /\ Waited(c) /\ UNCHANGED <<work, alive, ran, handle>>
        /\ early' = early \cup {<<c, n[c]>>}
    BY <1>5, Zenon DEF tpool_wait_interrupted
  <2>2. WaitedFor(i)' <=> WaitedFor(i)
    <3>1. CASE i = <<c, n[c]>>
      BY <1>3, <2>1, <3>1, Zenon DEF WaitedFor
    <3>2. CASE i # <<c, n[c]>>
      BY <1>3, <2>1, <3>2, Zenon
    <3> QED
      BY <3>1, <3>2, Zenon
  <2> QED
    BY <1>2, <1>3, <2>1, <2>2, ItemSame, Zenon
<1>6. ASSUME tpool_delete_handles(c)
      PROVE  ItemOK(i)'
  <2>1. /\ goto(c, "left") /\ UNCHANGED <<n, work, handle, early, ran>> /\ pc[c] = "delete"
        /\ alive' = alive \ ({c} \X (1 .. NumItems[c]))
    BY <1>6, Zenon DEF tpool_delete_handles
  <2>2. /\ pc'[c] = "left" /\ Holders(i)' = Holders(i)
        /\ \A t \in Holders(i) : pc'[t] = pc[t]
        /\ i[1] # c => pc'[i[1]] = pc[i[1]]
    BY <1>1, <2>1, CallerItems, Zenon
  <2>3. (Submitted(i)' <=> Submitted(i)) /\ (WaitedFor(i)' <=> WaitedFor(i))
    BY <2>1, <2>2, Zenon DEF Submitted, WaitedFor
  <2>4. i \notin alive' => pc'[i[1]] = "left"
    <3>1. i[1] # c => i \notin {c} \X (1 .. NumItems[c])
      BY <1>1, Zenon
    <3> QED
      BY <2>1, <2>2, <3>1, Zenon DEF ItemOK
  <2> QED
    BY <1>2, <2>1, <2>2, <2>3, <2>4, ItemSame, Zenon
<1> QED
  BY <1>4, <1>5, <1>6, Zenon

LEMMA ThreadItems ==
  ASSUME Basic, NEW i \in Item, ItemOK(i), NEW t \in Thread
  PROVE  /\ loop_wait(t) /\ QueueSame => ItemOK(i)'
         /\ loop_lock(t) /\ QueueSame => ItemOK(i)'
         /\ loop_slot(t) /\ QueueSame => ItemOK(i)'
         /\ loop_advance(t) /\ QueueTakes(work[t]) => ItemOK(i)'
         /\ loop_post(t) /\ QueueSame => ItemOK(i)'
         /\ loop_run(t) /\ QueueSame => ItemOK(i)'
         /\ loop_signal(t) /\ QueueSame => ItemOK(i)'
<1>1. i[1] \in Proc /\ i[1] # t /\ i # Exit /\ i \in Work /\ t \in Proc
  BY ItemFacts, Zenon DEF Proc
<1>2. ASSUME NEW q, goto(t, q), UNCHANGED <<n, alive, early>>
      PROVE  /\ pc'[t] = q /\ \A u \in Thread : u # t => pc'[u] = pc[u]
             /\ Submitted(i)' <=> Submitted(i)
             /\ WaitedFor(i)' <=> WaitedFor(i)
             /\ i \notin alive' => pc'[i[1]] = "left"
  <2>1. pc'[t] = q /\ \A r \in Proc : r # t => pc'[r] = pc[r]
    BY <1>1, <1>2, Moves, Zenon DEF Basic
  <2>2. pc'[i[1]] = pc[i[1]]
    BY <1>1, <2>1, Zenon
  <2> QED
    BY <1>2, <2>1, <2>2, Zenon DEF Submitted, WaitedFor, ItemOK, Proc
<1>3. ASSUME NEW q, goto(t, q), QueueSame, UNCHANGED <<n, handles, ran>>,
             \A u \in Thread : u # t => work'[u] = work[u],
             \/ pc[t] \notin {"post", "run", "signal"} /\ q \notin {"post", "run", "signal"}
             \/ pc[t] = "post" /\ q = "run" /\ work'[t] = work[t]
      PROVE  ItemOK(i)'
  <2>1. Holders(i)' = Holders(i) /\ \A u \in Holders(i) : pc'[u] = "signal" <=> pc[u] = "signal"
    BY <1>2, <1>3, Zenon DEF Holders, handles
  <2>2. Places(i)' = Places(i) /\ \A j, k \in Places(i)' : j = k
    BY <1>3, Zenon DEF QueueSame, Places, ItemOK
  <2> QED
    BY <1>2, <1>3, <2>1, <2>2, ItemSame, Zenon DEF handles
<1>4. loop_wait(t) /\ QueueSame => ItemOK(i)'
  BY <1>3, Zenon DEF loop_wait
<1>5. loop_lock(t) /\ QueueSame => ItemOK(i)'
  BY <1>3, Zenon DEF loop_lock
<1>6. loop_slot(t) /\ QueueSame => ItemOK(i)'
  BY <1>3, Zenon DEF loop_slot, Basic, TypeOK
<1>7. loop_post(t) /\ QueueSame => ItemOK(i)'
  BY <1>3, Zenon DEF loop_post
<1>8. ASSUME loop_advance(t), QueueTakes(work[t])
      PROVE  ItemOK(i)'
  <2>1. /\ goto(t, "post") /\ pc[t] = "advance"
        /\ UNCHANGED <<n, work, handle, alive, early, ran>>
    BY <1>8, Zenon DEF loop_advance, handles
  <2>2. CASE i = work[t]
    <3>1. Places(i) # {} /\ Places(i)' = {}
      BY <1>8, <2>2, PlacesStep, Zenon DEF ItemOK
    <3>2. Holders(i) = {} /\ ran[i] = 0 /\ handle[i] = 0 /\ ~WaitedFor(i) /\ Submitted(i)
      BY <3>1, Zenon DEF ItemOK
    <3>3. Holders(i)' = {t} /\ pc'[t] = "post"
      <4>1. pc'[t] = "post" /\ \A u \in Thread : u # t => pc'[u] = pc[u]
        BY <1>2, <2>1, Zenon
      <4> QED
        BY <2>1, <2>2, <3>2, <4>1, Zenon DEF Holders
    <3> QED
      BY <1>2, <2>1, <3>1, <3>2, <3>3, Zenon DEF ItemOK
  <2>3. CASE i # work[t]
    <3>1. Holders(i)' = Holders(i) /\ \A u \in Holders(i) : pc'[u] = pc[u]
      BY <1>2, <2>1, <2>3, Zenon DEF Holders
    <3>2. /\ \A j, k \in Places(i)' : j = k
          /\ Places(i)' = {} <=> Places(i) = {}
      BY <1>8, <2>3, PlacesStep, Zenon DEF ItemOK
    <3> QED
      BY <1>2, <2>1, <3>1, <3>2, ItemSame, Zenon
  <2> QED
    BY <2>2, <2>3, Zenon
<1>9. ASSUME loop_run(t), QueueSame
      PROVE  ItemOK(i)'
  <2>1. /\ pc[t] = "run" /\ UNCHANGED <<n, work, handle, alive, early>>
        /\ ran' = [ran EXCEPT ![work[t]] = @ + 1]
    BY <1>9, Zenon DEF loop_run, handles
  <2>2. Places(i)' = Places(i) /\ \A j, k \in Places(i)' : j = k
    BY <1>9, Zenon DEF QueueSame, Places, ItemOK
  <2>3. CASE i = work[t]
    <3>1. goto(t, "signal")
      BY <1>1, <1>9, <2>3, Zenon DEF loop_run
    <3>2. t \in Holders(i)
      BY <2>1, <2>3, Zenon DEF Holders
    <3>3. Holders(i) = {t} /\ ran[i] = 0 /\ Places(i) = {} /\ handle[i] = 0 /\ ~WaitedFor(i)
      BY <2>1, <3>2, Zenon DEF ItemOK
    <3>4. ran'[i] = 1 /\ Submitted(i)
      BY <1>1, <2>1, <2>3, <3>2, <3>3 DEF Basic, TypeOK, ItemOK
    <3>5. Holders(i)' = {t} /\ pc'[t] = "signal"
      <4>1. pc'[t] = "signal" /\ \A u \in Thread : u # t => pc'[u] = pc[u]
        BY <1>2, <2>1, <3>1, Zenon
      <4> QED
        BY <2>1, <2>3, <3>3, <4>1, Zenon DEF Holders
    <3> QED
      BY <1>2, <2>1, <2>2, <3>1, <3>3, <3>4, <3>5, Zenon DEF ItemOK
  <2>4. CASE i # work[t]
    <3>1. PICK q : goto(t, q)
      BY <1>9, Zenon DEF loop_run
    <3>2. Holders(i)' = Holders(i) /\ \A u \in Holders(i) : pc'[u] = pc[u]
      <4>1. \A u \in Thread : u # t => pc'[u] = pc[u]
        BY <1>2, <2>1, <3>1, Zenon
      <4> QED
        BY <2>1, <2>4, <4>1, Zenon DEF Holders
    <3>3. ran'[i] = ran[i]
      BY <1>1, <2>1, <2>4, Zenon DEF Basic, TypeOK
    <3> QED
      BY <1>2, <2>1, <2>2, <3>1, <3>2, <3>3, ItemSame, Zenon
  <2> QED
    BY <2>3, <2>4, Zenon
<1>10. ASSUME loop_signal(t), QueueSame
       PROVE  ItemOK(i)'
  <2>1. /\ pc[t] = "signal" /\ goto(t, "wait") /\ UNCHANGED <<n, work, alive, early, ran>>
        /\ handle' = [handle EXCEPT ![work[t]] = @ + 1]
    BY <1>10, Zenon DEF loop_signal
  <2>2. Places(i)' = Places(i) /\ \A j, k \in Places(i)' : j = k
    BY <1>10, Zenon DEF QueueSame, Places, ItemOK
  <2>3. CASE i = work[t]
    <3>1. t \in Holders(i)
      BY <2>1, <2>3, Zenon DEF Holders
    <3>2. Holders(i) = {t} /\ ran[i] = 1 /\ Places(i) = {} /\ handle[i] = 0 /\ ~WaitedFor(i)
      BY <2>1, <3>1, Zenon DEF ItemOK
    <3>3. handle'[i] = 1 /\ ran'[i] = 1 /\ Submitted(i)
      BY <2>1, <2>3, <3>2 DEF Basic, TypeOK, ItemOK
    <3>4. Holders(i)' = {}
      <4>1. pc'[t] = "wait" /\ \A u \in Thread : u # t => pc'[u] = pc[u]
        BY <1>2, <2>1, Zenon
      <4> QED
        BY <2>1, <3>2, <4>1, Zenon DEF Holders
    <3> QED
      BY <1>2, <2>1, <2>2, <3>2, <3>3, <3>4, Zenon DEF ItemOK
  <2>4. CASE i # work[t]
    <3>1. Holders(i)' = Holders(i) /\ \A u \in Holders(i) : pc'[u] = pc[u]
      <4>1. \A u \in Thread : u # t => pc'[u] = pc[u]
        BY <1>2, <2>1, Zenon
      <4> QED
        BY <2>1, <2>4, <4>1, Zenon DEF Holders
    <3>2. handle'[i] = handle[i]
      BY <2>1, <2>4, Zenon DEF Basic, TypeOK
    <3> QED
      BY <1>2, <2>1, <2>2, <3>1, <3>2, ItemSame, Zenon
  <2> QED
    BY <2>3, <2>4, Zenon
<1> QED
  BY <1>4, <1>5, <1>6, <1>7, <1>8, <1>9, <1>10, Zenon

-----------------------------------------------------------------------------
(* The inductive invariant holds *)

LEMMA IInvIs == IInv <=> Basic /\ ExitInv /\ \A i \in Item : ItemOK(i)
  BY Zenon DEF IInv, Basic

\* At the start nothing is held.
LEMMA InitCounts ==
  ASSUME Init
  PROVE  /\ \A t \in Thread : pc[t] = "wait"
         /\ \A c \in Client : pc[c] = "add" /\ n[c] = 1
         /\ pc[Fin] = "idle"
         /\ \A p \in Proc : pc[p] \in {"wait", "idle", "add"}
         /\ Count(Caller, Putting) = 0 /\ Count(Thread, {"post"}) = 0
         /\ Count(Thread, {"exited"}) = 0 /\ Held = 0
<1>1. /\ \A t \in Thread : pc[t] = "wait"
      /\ \A c \in Client : pc[c] = "add" /\ n[c] = 1
      /\ pc[Fin] = "idle"
      /\ \A p \in Proc : pc[p] \in {"wait", "idle", "add"}
  BY ConstFacts, TPoolAssumption, Zenon DEF Init, Proc, Caller
<1>2. \A S, L : S \in {Thread, Caller} /\ L \cap {"wait", "idle", "add"} = {} => Count(S, L) = 0
  <2> SUFFICES ASSUME NEW S \in {Thread, Caller}, NEW L, L \cap {"wait", "idle", "add"} = {}
               PROVE  Count(S, L) = 0
    BY Zenon
  <2>1. {p \in S : pc[p] \in L} = {}
    BY <1>1, Zenon DEF Proc
  <2> QED
    BY <2>1, FS_EmptySet, Zenon DEF Count
<1>3. /\ Count(Caller, Putting) = 0 /\ Count(Thread, {"post"}) = 0
      /\ Count(Thread, Taking) = 0 /\ Count(Caller, {"add_post"}) = 0
      /\ Count(Thread, {"exited"}) = 0
  BY <1>2, Zenon DEF Putting, Taking
<1>4. Held = 0
  BY <1>3, HeldIs DEF Init
<1> QED
  BY <1>1, <1>3, <1>4, Zenon

LEMMA InitIInv == Init => IInv
<1> SUFFICES ASSUME Init
             PROVE  IInv
  BY Zenon
<1>1. /\ \A t \in Thread : pc[t] = "wait"
      /\ \A c \in Client : pc[c] = "add" /\ n[c] = 1
      /\ pc[Fin] = "idle"
      /\ \A p \in Proc : pc[p] \in {"wait", "idle", "add"}
  BY InitCounts, Zenon
<1>3. /\ Count(Caller, Putting) = 0 /\ Count(Thread, {"post"}) = 0
      /\ Count(Thread, {"exited"}) = 0
  BY InitCounts, Zenon
<1>4. Held = 0
  BY InitCounts, Zenon
<1>5. TypeOK
  <2>1. NumSlots \in Nat \ {0} /\ 0 \in Slot
    BY ConstFacts DEF Slot
  <2>2. free \in 0 .. NumSlots /\ occ \in 0 .. NumSlots /\ put \in Slot /\ pull \in Slot
    BY <2>1 DEF Init
  <2>3. slots \in [Slot -> Work \cup {Nothing}] /\ work \in [Thread -> Work \cup {Nothing}]
    BY Zenon DEF Init
  <2>4. n \in [Caller -> Nat] /\ handle \in [Item -> Nat] /\ ran \in [Work -> Nat]
    BY Zenon DEF Init
  <2> QED
    BY <2>2, <2>3, <2>4, Zenon DEF TypeOK, Init
<1>6. RingInv
  <2>1. NumSlots \in Nat \ {0}
    BY ConstFacts, Zenon
  <2>2. (0 + 0) % NumSlots = 0
    BY <2>1, RingFacts
  <2> QED
    BY <1>3, <1>4, <2>1, <2>2 DEF RingInv, Init
<1>7. LockInv /\ SlotInv
  BY <1>1, ConstFacts, Zenon DEF LockInv, SlotInv, Init, InSection, Proc, Caller
<1>8. \A k : k \notin 1 .. Held
  BY <1>4
<1>9. QueueInv /\ FinInv
  BY <1>1, <1>8, Zenon DEF QueueInv, FinInv
<1>10. \A c \in Client : ClientOK(c)
  BY <1>1, TPoolAssumption DEF ClientOK, Adding
<1>11. \A t \in Thread : ThreadOK(t)
  BY <1>1, Zenon DEF ThreadOK
<1>12. ExitInv
  BY <1>1, <1>3, <1>8, Zenon DEF ExitInv, Leaving, Init, Work
<1>13. ASSUME NEW i \in Item
       PROVE  ItemOK(i)
  <2>1. i[1] \in Client /\ i[2] \in Nat /\ i[2] >= 1 /\ i \in Work
    BY ItemFacts
  <2>2. Places(i) = {} /\ Holders(i) = {}
    BY <1>1, <1>8, Zenon DEF Places, Holders
  <2>3. ran[i] = 0 /\ handle[i] = 0 /\ i \in alive
    BY <2>1, Zenon DEF Init
  <2>4. ~Submitted(i) /\ ~WaitedFor(i)
    BY <1>1, <2>1 DEF Submitted, WaitedFor
  <2> QED
    BY <2>2, <2>3, <2>4 DEF ItemOK
<1> QED
  BY <1>5, <1>6, <1>7, <1>9, <1>10, <1>11, <1>12, <1>13, Zenon DEF IInv

LEMMA CallerIInv ==
  ASSUME IInv, NEW c \in Caller, CallerStep(c)
  PROVE  IInv'
<1> USE IInvIs
<1>1. (IInv <=> Basic /\ ExitInv /\ \A i \in Item : ItemOK(i))'
  BY IInvIs, PTL
<1>2. CASE add_room(c)
  BY <1>1, <1>2, AddBasic, CallerExit, AddItems, Zenon DEF add_room
<1>3. CASE add_lock(c)
  BY <1>1, <1>3, AddBasic, CallerExit, AddItems, Zenon DEF add_lock
<1>4. CASE add_slot(c)
  BY <1>1, <1>4, AddBasic, CallerExit, AddItems, Zenon DEF add_slot
<1>5. CASE add_advance(c)
  <2>1. c # Fin => pc[Fin] = "idle"
    BY <1>5, Zenon DEF Basic, FinInv, Caller, add_advance
  <2>2. ExitInv'
    BY <1>5, <2>1, AddBasic, CallerExit, Zenon DEF add_advance, Adding
  <2> QED
    BY <1>1, <1>5, <2>2, AddBasic, SubmitItems, Zenon
<1>6. CASE add_post(c)
  <2>1. PICK q : q # "idle" /\ goto(c, q)
    BY <1>6, Zenon DEF add_post
  <2>2. ExitInv'
    BY <1>6, <2>1, CallBasic, CallerExit, Zenon DEF add_post
  <2> QED
    BY <1>1, <1>6, <2>2, CallBasic, AddItems, Zenon
<1>7. CASE tpool_wait(c)
  <2>1. PICK q : q # "idle" /\ goto(c, q)
    BY <1>7, Zenon DEF tpool_wait, Waited
  <2>2. ExitInv'
    BY <1>7, <2>1, CallBasic, CallerExit, Zenon DEF tpool_wait
  <2> QED
    BY <1>1, <1>7, <2>2, CallBasic, WaitItems, Zenon
<1>8. CASE tpool_wait_interrupted(c)
  <2>1. PICK q : q # "idle" /\ goto(c, q)
    BY <1>8, Zenon DEF tpool_wait_interrupted, Waited
  <2>2. ExitInv'
    BY <1>8, <2>1, CallBasic, CallerExit, Zenon DEF tpool_wait_interrupted
  <2> QED
    BY <1>1, <1>8, <2>2, CallBasic, WaitItems, Zenon
<1>9. CASE tpool_delete_handles(c)
  <2>1. ExitInv'
    BY <1>9, CallBasic, CallerExit, Zenon DEF tpool_delete_handles
  <2> QED
    BY <1>1, <1>9, <2>1, CallBasic, WaitItems, Zenon
<1> QED
  BY <1>2, <1>3, <1>4, <1>5, <1>6, <1>7, <1>8, <1>9, Zenon DEF CallerStep

LEMMA FinIInv ==
  ASSUME IInv, tpool_finish \/ finish_join
  PROVE  IInv'
<1>1. (IInv <=> Basic /\ ExitInv /\ \A i \in Item : ItemOK(i))'
  BY IInvIs, PTL
<1>2. Fin \in Caller
  BY ConstFacts, Zenon
<1>3. Basic' /\ QueueSame
  BY <1>2, IInvIs, CallBasic, Zenon
<1>4. ExitInv'
  BY <1>2, <1>3, IInvIs, CallerExit, Zenon DEF tpool_finish, finish_join
<1>5. \A i \in Item : ItemOK(i)'
  BY <1>2, <1>3, IInvIs, AddItems, Zenon
<1> QED
  BY <1>1, <1>3, <1>4, <1>5, Zenon

LEMMA ThreadIInv ==
  ASSUME IInv, NEW t \in Thread, ThreadStep(t)
  PROVE  IInv'
<1>1. (IInv <=> Basic /\ ExitInv /\ \A i \in Item : ItemOK(i))'
  BY IInvIs, PTL
<1>2. CASE loop_wait(t)
  BY <1>1, <1>2, IInvIs, LoopBasic, ThreadExit, ThreadItems, Zenon
<1>3. CASE loop_lock(t)
  BY <1>1, <1>3, IInvIs, LoopBasic, ThreadExit, ThreadItems, Zenon
<1>4. CASE loop_slot(t)
  BY <1>1, <1>4, IInvIs, LoopBasic, ThreadExit, ThreadItems, Zenon
<1>5. CASE loop_advance(t)
  BY <1>1, <1>5, IInvIs, LoopBasic, ThreadExit, ThreadItems, Zenon
<1>6. CASE loop_post(t)
  BY <1>1, <1>6, IInvIs, RunBasic, ThreadExit, ThreadItems, Zenon
<1>7. CASE loop_run(t)
  BY <1>1, <1>7, IInvIs, RunBasic, ThreadExit, ThreadItems, Zenon
<1>8. CASE loop_signal(t)
  BY <1>1, <1>8, IInvIs, RunBasic, ThreadExit, ThreadItems, Zenon
<1> QED
  BY <1>2, <1>3, <1>4, <1>5, <1>6, <1>7, <1>8, Zenon DEF ThreadStep

LEMMA StutterIInv ==
  ASSUME IInv, UNCHANGED vars
  PROVE  IInv'
<1>1. Held' = Held
  BY Zenon DEF Held, vars
<1>2. Queue' = Queue /\ \A S, L : Count(S, L)' = Count(S, L)
  BY <1>1, Zenon DEF Queue, Count, vars
<1>3. TypeOK' /\ RingInv' /\ LockInv' /\ SlotInv' /\ QueueInv' /\ FinInv' /\ ExitInv'
  BY <1>1, <1>2, Zenon DEF IInv, vars, TypeOK, RingInv, LockInv, SlotInv, QueueInv, FinInv,
                    ExitInv, Leaving, Adds
<1>4. (\A c \in Client : ClientOK(c)') /\ (\A t \in Thread : ThreadOK(t)')
  BY Zenon DEF IInv, vars, ClientOK, ThreadOK
<1>5. ASSUME NEW i \in Item
      PROVE  ItemOK(i)'
  <2>1. Places(i)' = Places(i) /\ Holders(i)' = Holders(i)
    BY <1>1, <1>2, Zenon DEF Places, Holders, vars
  <2>2. (Submitted(i)' <=> Submitted(i)) /\ (WaitedFor(i)' <=> WaitedFor(i))
    BY Zenon DEF Submitted, WaitedFor, vars
  <2> QED
    BY <2>1, <2>2 DEF IInv, ItemOK, vars
<1> QED
  BY <1>3, <1>4, <1>5, Zenon DEF IInv

-----------------------------------------------------------------------------
(* The theorems *)

\* The inductive invariant holds in every reachable state of tpool.c, for
\* every number of threads, callers and items.
THEOREM Invariance == Spec => []IInv
<1>1. Init => IInv
  BY InitIInv, Zenon
<1>2. IInv /\ [Next]_vars => IInv'
  <2> SUFFICES ASSUME IInv, [Next]_vars
               PROVE  IInv'
    BY Zenon
  <2>1. CASE \E c \in Client : CallerStep(c)
    BY <2>1, CallerIInv, Zenon DEF Caller
  <2>2. CASE FinStep
    BY <2>2, CallerIInv, FinIInv, ConstFacts, Zenon DEF FinStep
  <2>3. CASE \E t \in Thread : ThreadStep(t)
    BY <2>3, ThreadIInv, Zenon
  <2>4. CASE UNCHANGED vars
    BY <2>4, StutterIInv, Zenon
  <2> QED
    BY <2>1, <2>2, <2>3, <2>4, Zenon DEF Next
<1> QED
  BY <1>1, <1>2, PTL DEF Spec

\* The variables of tpool.c keep their types: the semaphores stay between 0 and
\* the number of slots, and both indices inside the ring.
THEOREM TypeCorrect == Spec => []TypeOK
<1>1. IInv => TypeOK
  BY Zenon DEF IInv
<1> QED
  BY <1>1, Invariance, PTL

\* At most one caller or thread is between sem_wait and sem_post of tpool_lock.
THEOREM Exclusion ==
  Spec => [](\A p, q \in Proc : pc[p] \in InSection /\ pc[q] \in InSection => p = q)
<1>1. IInv => \A p, q \in Proc : pc[p] \in InSection /\ pc[q] \in InSection => p = q
  BY Zenon DEF IInv, LockInv
<1> QED
  BY <1>1, Invariance, PTL

\* When tpool_finish returns, every item was carried out once, and every thread
\* has exited: pthread_exit is taken only after all items.
THEOREM FinishIsComplete == Spec => []FinishComplete
<1>1. IInv => FinishComplete
  <2> SUFFICES ASSUME IInv, pc[Fin] = "finished"
               PROVE  (\A i \in Item : ran[i] = 1) /\ ran[Exit] = NumThreads
    BY Zenon DEF FinishComplete
  <2>1. (\A t \in Thread : pc[t] = "exited") /\ (\A c \in Client : pc[c] = "left")
    BY Zenon DEF IInv, FinInv
  <2>2. \E t \in Thread : TRUE
    <3>1. Thread # {}
      BY FS_EmptySet, TPoolAssumption DEF NumThreads
    <3> QED
      BY <3>1, Zenon
  <2>3. \A k \in 1 .. Held : Queue[k] = Exit
    BY <2>1, <2>2, Zenon DEF IInv, ExitInv, Leaving
  <2>4. ASSUME NEW i \in Item
        PROVE  ran[i] = 1
    <3>1. i[1] \in Client /\ i # Exit
      BY ItemFacts, Zenon
    <3>2. Submitted(i) /\ Holders(i) = {} /\ Places(i) = {}
      BY <2>1, <2>3, <3>1, Zenon DEF Submitted, Holders, Places
    <3> QED
      BY <3>2, Zenon DEF IInv, ItemOK
  <2>5. ran[Exit] = NumThreads
    <3>1. {t \in Thread : pc[t] \in {"exited"}} = Thread
      BY <2>1, Zenon
    <3> QED
      BY <3>1, Zenon DEF IInv, ExitInv, Count, NumThreads
  <2> QED
    BY <2>4, <2>5, Zenon
<1> QED
  BY <1>1, Invariance, PTL

\* A caller that returns from tpool_wait without being interrupted finds the
\* item carried out.
THEOREM WaitIsSound == Spec => []WaitMeansRan
<1>1. IInv => WaitMeansRan
  BY Zenon DEF IInv, ItemOK, WaitedFor, WaitMeansRan
<1> QED
  BY <1>1, Invariance, PTL

\* No thread signals the handle of an item after it was deleted, unless the
\* caller's wait for that item was interrupted.
THEOREM SignalsAreAlive == Spec => []HandleAlive
<1>1. IInv => HandleAlive
  <2> SUFFICES ASSUME IInv, NEW t \in Thread, pc[t] = "signal"
               PROVE  work[t] \in alive \cup early
    BY Zenon DEF HandleAlive
  <2>1. work[t] \in Item
    BY Zenon DEF IInv, ThreadOK
  <2>2. t \in Holders(work[t])
    BY Zenon DEF Holders
  <2>3. ~WaitedFor(work[t])
    BY <2>1, <2>2, Zenon DEF IInv, ItemOK
  <2> QED
    BY <2>1, <2>3, Zenon DEF IInv, ItemOK, WaitedFor
<1> QED
  BY <1>1, Invariance, PTL

-----------------------------------------------------------------------------
(* The pool implements TaskPool *)

LEMMA QueueIsSeq ==
  Basic => Held \in Nat /\ Queue \in Seq(Work) /\ Len(Queue) = Held
<1> SUFFICES ASSUME Basic
             PROVE  Held \in Nat /\ Queue \in Seq(Work) /\ Len(Queue) = Held
  BY Zenon
<1>1. Held \in Nat
  BY HeldType, ConstFacts DEF Basic
<1>2. DOMAIN Queue = 1 .. Held /\ Queue = [k \in 1 .. Held |-> Queue[k]]
  BY Zenon DEF Queue
<1>3. Queue \in [1 .. Held -> Work]
  BY <1>2, Zenon DEF Basic, QueueInv
<1> QED
  BY <1>1, <1>2, <1>3

LEMMA QueueSteps ==
  ASSUME Basic, Basic', NEW w \in Work
  PROVE  /\ QueueAdds(w) => Queue' = Append(Queue, w)
         /\ QueueTakes(w) => Queue # <<>> /\ Queue' = Tail(Queue) /\ Head(Queue) = w
<1>1. /\ Held \in Nat /\ Queue \in Seq(Work) /\ Len(Queue) = Held
  BY QueueIsSeq, Zenon
<1>2. /\ Held' \in Nat /\ Queue' \in Seq(Work) /\ Len(Queue') = Held'
  <2>1. (Basic => Held \in Nat /\ Queue \in Seq(Work) /\ Len(Queue) = Held)'
    BY QueueIsSeq, PTL
  <2> QED
    BY <2>1, Zenon
<1>3. ASSUME QueueAdds(w)
      PROVE  Queue' = Append(Queue, w)
  <2>1. /\ Append(Queue, w) \in Seq(Work) /\ Len(Append(Queue, w)) = Held + 1
        /\ \A k \in 1 .. Held : Append(Queue, w)[k] = Queue[k]
        /\ Append(Queue, w)[Held + 1] = w
    BY <1>1, AppendProperties
  <2>2. \A k \in 1 .. Held + 1 : Queue'[k] = Append(Queue, w)[k]
    BY <1>1, <1>3, <2>1 DEF QueueAdds
  <2>3. Len(Queue') = Held + 1
    BY <1>2, <1>3, Zenon DEF QueueAdds
  <2> QED
    BY <1>2, <2>1, <2>2, <2>3, SeqEqual, Zenon
<1>4. ASSUME QueueTakes(w)
      PROVE  Queue # <<>> /\ Queue' = Tail(Queue) /\ Head(Queue) = w
  <2>1. Queue # <<>>
    BY <1>1, <1>4 DEF QueueTakes
  <2>2. /\ Tail(Queue) \in Seq(Work) /\ Len(Tail(Queue)) = Held - 1
        /\ \A k \in 1 .. Held - 1 : Tail(Queue)[k] = Queue[k + 1]
        /\ Head(Queue) = Queue[1]
    BY <1>1, <2>1, HeadTailProperties
  <2>3. \A k \in 1 .. Held - 1 : Queue'[k] = Tail(Queue)[k]
    BY <1>4, <2>2, Zenon DEF QueueTakes
  <2>4. Len(Queue') = Held - 1
    BY <1>2, <1>4, Zenon DEF QueueTakes
  <2>5. Queue' = Tail(Queue)
    BY <1>2, <2>2, <2>3, <2>4, SeqEqual, Zenon
  <2> QED
    BY <1>4, <2>1, <2>2, <2>5, Zenon DEF QueueTakes
<1> QED
  BY <1>3, <1>4, Zenon

\* The pool of tpool.c implements the abstract one: adding an item is its
\* submission at the step that advances the put index, taking it the start at
\* the step that advances the pull index, and all other steps are invisible.
THEOREM Refinement == Spec => ImplementsPool
<1>1. Init => Pool!Init
  <2> SUFFICES ASSUME Init
               PROVE  Pool!Init
    BY Zenon
  <2>1. Basic
    BY InitIInv, IInvIs, Zenon
  <2>2. \A t \in Thread : pc[t] = "wait"
    BY Zenon DEF Init
  <2>3. Held = 0
    BY InitCounts, Zenon
  <2>4. Queue = <<>>
    BY <2>1, <2>3, QueueIsSeq
  <2>5. Running = [t \in Thread |-> Nothing]
    BY <2>2, Zenon DEF Running
  <2> QED
    BY <2>4, <2>5, Zenon DEF Pool!Init, Init
<1>2. IInv /\ IInv' /\ [Next]_vars => [Pool!Next]_Pool!vars
  <2> SUFFICES ASSUME IInv, IInv', [Next]_vars
               PROVE  [Pool!Next]_Pool!vars
    BY Zenon
  <2>1. Basic /\ Basic'
    <3>1. (IInv <=> Basic /\ ExitInv /\ \A i \in Item : ItemOK(i))'
      BY IInvIs, PTL
    <3> QED
      BY <3>1, IInvIs, Zenon
  <2>2. \A t \in Thread : t \in Proc
    BY Zenon DEF Proc
  <2>3. ASSUME NEW p \in Proc, NEW q, goto(p, q), UNCHANGED work,
               pc[p] \notin {"post", "run"}, q \notin {"post", "run"}
        PROVE  Running' = Running
    <3>1. pc'[p] = q /\ \A r \in Proc : r # p => pc'[r] = pc[r]
      BY <2>1, <2>3, Moves, Zenon DEF Basic
    <3>2. \A t \in Thread : pc'[t] \in {"post", "run"} <=> pc[t] \in {"post", "run"}
      BY <2>2, <2>3, <3>1, Zenon
    <3> QED
      BY <2>3, <3>2, Zenon DEF Running
  <2>4. ASSUME NEW c \in Caller, CallerStep(c)
        PROVE  [Pool!Next]_Pool!vars
    <3>1. c \in Proc /\ c \notin Thread
      BY ConstFacts, Zenon DEF Proc
    <3>2. CASE add_advance(c)
      <4>1. QueueAdds(Adds(c)) /\ Adds(c) \in Work
        BY <2>1, <3>2, AddBasic, AddsWork, Zenon DEF add_advance, Adding
      <4>2. Queue' = Append(Queue, Adds(c))
        BY <2>1, <4>1, QueueSteps, Zenon
      <4>3. Running' = Running /\ UNCHANGED ran
        BY <2>3, <3>1, <3>2, Zenon DEF add_advance
      <4>4. Pool!Submit(Adds(c))
        BY <4>2, <4>3, Zenon DEF Pool!Submit
      <4> QED
        BY <4>1, <4>4, Zenon DEF Pool!Next
    <3>3. CASE ~add_advance(c)
      <4>1. Queue' = Queue
        BY <2>1, <2>4, <3>3, AddBasic, CallBasic, Zenon DEF CallerStep, QueueSame
      <4>2. UNCHANGED <<work, ran>>
        BY <2>4, Zenon DEF CallerStep, add_room, add_lock, add_slot, add_advance, add_post,
                    tpool_wait, tpool_wait_interrupted, tpool_delete_handles
      <4>3. PICK q : goto(c, q) /\ q \notin {"post", "run"}
        BY <2>4 DEF CallerStep, add_room, add_lock, add_slot, add_advance, add_post,
                    tpool_wait, tpool_wait_interrupted, tpool_delete_handles, Waited
      <4>4. pc[c] \notin {"post", "run"}
        BY <2>4, Zenon DEF CallerStep, add_room, add_lock, add_slot, add_advance, add_post,
                    tpool_wait, tpool_wait_interrupted, tpool_delete_handles
      <4>5. Running' = Running
        BY <2>3, <3>1, <4>2, <4>3, <4>4, Zenon
      <4> QED
        BY <4>1, <4>2, <4>5, Zenon DEF Pool!vars
    <3> QED
      BY <3>2, <3>3, Zenon
  <2>5. CASE tpool_finish \/ finish_join
    <3>1. Queue' = Queue
      BY <2>1, <2>5, ConstFacts, CallBasic, Zenon DEF QueueSame
    <3>2. Running' = Running /\ UNCHANGED ran
      BY <2>3, <2>5, ConstFacts, Zenon DEF tpool_finish, finish_join, Proc
    <3> QED
      BY <3>1, <3>2, Zenon DEF Pool!vars
  <2>6. ASSUME NEW t \in Thread, ThreadStep(t)
        PROVE  [Pool!Next]_Pool!vars
    <3>1. ASSUME NEW q, goto(t, q)
          PROVE  pc'[t] = q /\ \A u \in Thread : u # t => pc'[u] = pc[u]
      BY <2>1, <2>2, <3>1, Moves, Zenon DEF Basic
    <3>2. CASE loop_wait(t)
      BY <2>1, <2>2, <2>3, <3>2, LoopBasic, Zenon DEF loop_wait, QueueSame, Pool!vars
    <3>3. CASE loop_lock(t)
      BY <2>1, <2>2, <2>3, <3>3, LoopBasic, Zenon DEF loop_lock, QueueSame, Pool!vars
    <3>4. CASE loop_slot(t)
      <4>1. goto(t, "advance") /\ pc[t] = "slot" /\ \A u \in Thread : u # t => work'[u] = work[u]
        BY <2>1, <3>4, Zenon DEF loop_slot, Basic, TypeOK
      <4>2. Running' = Running
        BY <3>1, <4>1 DEF Running
      <4> QED
        BY <2>1, <3>4, <4>2, LoopBasic, Zenon DEF loop_slot, QueueSame, Pool!vars
    <3>5. CASE loop_advance(t)
      <4>1. goto(t, "post") /\ pc[t] = "advance" /\ UNCHANGED <<work, ran>>
        BY <3>5, Zenon DEF loop_advance
      <4>2. QueueTakes(work[t])
        BY <2>1, <3>5, LoopBasic, Zenon
      <4>3. work[t] \in Work
        BY <2>1, <3>1, <4>1, Zenon DEF Basic, ThreadOK
      <4>4. Queue # <<>> /\ Queue' = Tail(Queue) /\ Head(Queue) = work[t]
        BY <2>1, <4>2, <4>3, QueueSteps, Zenon
      <4>5. Running[t] = Nothing /\ Running' = [Running EXCEPT ![t] = work[t]]
        BY <3>1, <4>1, Zenon DEF Running
      <4>6. Pool!Start(t)
        BY <4>1, <4>4, <4>5, Zenon DEF Pool!Start
      <4> QED
        BY <4>6, Zenon DEF Pool!Next
    <3>6. CASE loop_post(t)
      <4>1. goto(t, "run") /\ pc[t] = "post" /\ UNCHANGED <<work, ran>>
        BY <3>6, Zenon DEF loop_post
      <4>2. Running' = Running
        BY <3>1, <4>1, Zenon DEF Running
      <4> QED
        BY <2>1, <3>6, <4>1, <4>2, RunBasic, Zenon DEF QueueSame, Pool!vars
    <3>7. CASE loop_run(t)
      <4>1. PICK q \in {"exited", "signal"} : goto(t, q)
        BY <3>7, Zenon DEF loop_run
      <4>2. pc[t] = "run" /\ UNCHANGED work /\ ran' = [ran EXCEPT ![work[t]] = @ + 1]
        BY <3>7, Zenon DEF loop_run
      <4>3. Running[t] = work[t] /\ work[t] # Nothing
        BY <2>1, <4>2, TPoolAssumption, Zenon DEF Running, Basic, ThreadOK
      <4>4. Running' = [Running EXCEPT ![t] = Nothing]
        BY <3>1, <4>1, <4>2, Zenon DEF Running
      <4>5. Queue' = Queue
        BY <2>1, <3>7, RunBasic, Zenon DEF QueueSame
      <4>6. Pool!Finish(t)
        BY <4>2, <4>3, <4>4, <4>5, Zenon DEF Pool!Finish
      <4> QED
        BY <4>6, Zenon DEF Pool!Next
    <3>8. CASE loop_signal(t)
      BY <2>1, <2>2, <2>3, <3>8, RunBasic, Zenon DEF loop_signal, QueueSame, Pool!vars
    <3> QED
      BY <2>6, <3>2, <3>3, <3>4, <3>5, <3>6, <3>7, <3>8, Zenon DEF ThreadStep
  <2>7. CASE UNCHANGED vars
    <3>1. Held' = Held
      BY <2>7, Zenon DEF Held, vars
    <3> QED
      BY <2>7, <3>1, Zenon DEF Queue, Running, vars, Pool!vars
  <2> QED
    BY <2>4, <2>5, <2>6, <2>7, ConstFacts, Zenon DEF Next, FinStep, Caller
<1> QED
  BY <1>1, <1>2, Invariance, PTL DEF Spec, ImplementsPool, Pool!Spec
=============================================================================
