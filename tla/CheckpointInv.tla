----------------------------- MODULE CheckpointInv -----------------------------
(***************************************************************************)
(* Two inductive invariants of Checkpoint, and that the steps of a worker  *)
(* preserve them.                                                          *)
(*                                                                         *)
(* IInv is about the lists, the locks and the contributions at every       *)
(* moment; it needs no assumption.  RInv is about what leaves a parallel   *)
(* region: the order of the used list and of the output, and what the      *)
(* heaps of the checkpoints and of the main process hold.  It is kept as   *)
(* long as a worker that goes round the loop of alloc_checkpoint again     *)
(* after a stall finds that its iteration still has no checkpoint          *)
(* (SearchedAgain): alloc_checkpoint does not look, and may give one       *)
(* iteration two objects.                                                  *)
(***************************************************************************)
EXTENDS Checkpoint, TLAPS

-------------------------------------------------------------------------------
(* The inductive invariant of the lists, locks and contributions *)

\* The workers whose state checkpoint c holds, since it was last recycled.
Filled(c) == IF num_workers[c] = 0 THEN {}
             ELSE {w \in Worker : <<w, iteration[c]>> \in has[c]}

Reading    == {"alphaType", "next", "betaType", "lockAlpha", "lockBeta"}
Holding    == {"combine", "pop"}
Committing == Reading \cup Holding \cup {"first", "unlock"}

\* w has not yet contributed to the checkpoint it is making.
PreFill(w) == \/ pc[w] \in {"ckpt", "get", "stall", "realloc", "lock", "fill"}
              \/ pc[w] \in Committing /\ ret[w] = "stall"

\* What is not in use is free, and nobody has a lock on an unallocated object.
FreeInv == \A c \in Chk :
  /\ c \notin Range(used) => type[c] = "Free"
  /\ c > total => lock[c] = NoWorker

\* num_workers counts the contributors, and all but one type mean all of them.
CountInv == \A c \in Range(used) :
  /\ iteration[c] \in Label
  /\ num_workers[c] = Cardinality(Filled(c))
  /\ type[c] = "Partial" <=> Filled(c) # Worker

\* Contributions are recorded in given.
GivenInv == \A c \in Range(used) : \A w \in Filled(c) : iteration[c] \in given[w]

\* No worker contributes twice to a checkpoint.
GivenOK(w) ==
  /\ PreFill(w) => eff[w] \notin given[w] /\ eff[w] \in {LastIteration, currentIter[w]}
  /\ PreFill(w) \/ pc[w] = "run" \/ (pc[w] \in Committing /\ eff[w] # LastIteration)
       => given[w] \subseteq 0..currentIter[w]

\* The object a worker is about to fill stays partial until it does.
FillOK(w) == pc[w] \in {"lock", "fill"} =>
  cur[w] \in Range(used) /\ type[cur[w]] = "Partial" /\ iteration[cur[w]] = eff[w]

\* The object read from the front of the list is there still, or it has been
\* recycled, and then it cannot be complete before its reader contributes.
AlphaOK(w) == pc[w] \in Reading =>
  /\ alpha[w] \in 1..total
  /\ pc[w] \in {"betaType", "lockAlpha", "lockBeta"} => beta[w] \in 1..total
  /\ \/ alpha[w] = first(used)
     \/ type[alpha[w]] = "Free"
     \/ type[alpha[w]] = "Partial" /\ w \notin Filled(alpha[w])

\* A worker that combines works on the first two objects.
CommitOK(w) == pc[w] \in Holding =>
  /\ Len(used) > 1 /\ used[1] = alpha[w] /\ used[2] = beta[w]
  /\ type[alpha[w]] = "Free" /\ type[beta[w]] = "Complete"

LockOK(w) ==
  /\ pc[w] = "fill" => lock[cur[w]] = w
  /\ pc[w] = "lockBeta" => lock[alpha[w]] = w
  /\ pc[w] \in Holding \cup {"unlock"} =>
       /\ alpha[w] \in 1..total /\ beta[w] \in 1..total
       /\ lock[alpha[w]] = w /\ lock[beta[w]] = w

WorkerOK(w) == GivenOK(w) /\ FillOK(w) /\ AlphaOK(w) /\ CommitOK(w) /\ LockOK(w)

\* The main process works on the list only when every worker is done.
MainInv ==
  /\ mainPc # "join" => \A w \in Worker : pc[w] \in Done
  /\ mainPc = "idle" => used = <<>>

IInv == /\ TypeOK /\ ListsPartition /\ FreeInv /\ CountInv /\ GivenInv /\ MainInv
        /\ \A w \in Worker : WorkerOK(w)

\* What the steps below need to know of Cardinality: CheckpointProofs takes it
\* from the theorems about finite sets.
Counting ==
  /\ Cardinality({}) = 0
  /\ \A S \in SUBSET Worker : \A w \in Worker \ S : Cardinality(S \cup {w}) = Cardinality(S) + 1
  /\ \A S \in SUBSET Worker : Cardinality(S) = Cardinality(Worker) => S = Worker

-------------------------------------------------------------------------------
(* Lists *)

LEMMA SeqFacts ==
  ASSUME NEW S, NEW s \in Seq(S)
  PROVE  /\ Len(s) \in Nat /\ DOMAIN s = 1..Len(s) /\ s \in [1..Len(s) -> S]
         /\ s # <<>> <=> Len(s) > 0
OBVIOUS

LEMMA AppendSeq ==
  ASSUME NEW S, NEW s \in Seq(S), NEW e \in S
  PROVE  /\ Append(s, e) \in Seq(S) /\ Len(Append(s, e)) = Len(s) + 1
         /\ \A i \in 1..Len(s) : Append(s, e)[i] = s[i]
         /\ Append(s, e)[Len(s) + 1] = e
OBVIOUS

LEMMA TailSeq ==
  ASSUME NEW S, NEW s \in Seq(S), s # <<>>
  PROVE  /\ Head(s) \in S /\ Head(s) = s[1]
         /\ Tail(s) \in Seq(S) /\ Len(Tail(s)) = Len(s) - 1
         /\ \A i \in 1..Len(Tail(s)) : Tail(s)[i] = s[i + 1]
OBVIOUS

LEMMA AppendFacts ==
  ASSUME NEW S, NEW s \in Seq(S), NEW e \in S
  PROVE  /\ Append(s, e) \in Seq(S)
         /\ Range(Append(s, e)) = Range(s) \cup {e}
         /\ IsInjective(s) /\ e \notin Range(s) => IsInjective(Append(s, e))
         /\ \A i \in 1..Len(s) : Append(s, e)[i] = s[i]
         /\ Len(Append(s, e)) = Len(s) + 1
<1> DEFINE t == Append(s, e)
<1>1. /\ t \in Seq(S) /\ Len(t) = Len(s) + 1 /\ t[Len(s) + 1] = e
      /\ \A i \in 1..Len(s) : t[i] = s[i]
  BY AppendSeq
<1>2. DOMAIN s = 1..Len(s) /\ DOMAIN t = 1..(Len(s) + 1) /\ Len(s) \in Nat
  BY <1>1, SeqFacts, Zenon
<1> HIDE DEF t
<1>3. Range(t) = Range(s) \cup {e}
  BY <1>1, <1>2 DEF Range
<1>4. IsInjective(s) /\ e \notin Range(s) => IsInjective(t)
  BY <1>1, <1>2 DEF Range, IsInjective
<1>5. QED  BY <1>1, <1>3, <1>4, Zenon DEF t

LEMMA TailFacts ==
  ASSUME NEW S, NEW s \in Seq(S), s # <<>>, IsInjective(s)
  PROVE  /\ Tail(s) \in Seq(S) /\ Head(s) \in S /\ Head(s) \in Range(s)
         /\ Head(s) = s[1]
         /\ Range(Tail(s)) = Range(s) \ {Head(s)}
         /\ IsInjective(Tail(s))
<1> DEFINE t == Tail(s)
<1>1. /\ t \in Seq(S) /\ Len(t) = Len(s) - 1 /\ Head(s) = s[1] /\ Head(s) \in S
      /\ \A i \in 1..Len(t) : t[i] = s[i + 1]
  BY TailSeq, Zenon
<1>2. DOMAIN s = 1..Len(s) /\ DOMAIN t = 1..Len(t) /\ Len(s) \in Nat /\ Len(s) > 0
  BY <1>1, SeqFacts, Zenon
<1> HIDE DEF t
<1>3. IsInjective(t)
  <2>1. \A i \in 1..Len(t) : i + 1 \in 1..Len(s)
    BY <1>1, <1>2
  <2>2. ASSUME NEW i \in 1..Len(t), NEW j \in 1..Len(t), t[i] = t[j] PROVE i = j
    <3>1. s[i + 1] = s[j + 1]
      BY <1>1, <2>2, Zenon
    <3>2. i + 1 = j + 1
      BY <2>1, <3>1, <1>2, Zenon DEF IsInjective
    <3>3. QED  BY <3>2
  <2>3. QED  BY <1>2, <2>2, Zenon DEF IsInjective
<1>4. Head(s) \in Range(s) /\ Range(t) \subseteq Range(s) \ {Head(s)}
  <2>1. Head(s) \in Range(s)
    BY <1>1, <1>2 DEF Range
  <2>2. ASSUME NEW i \in 1..Len(t) PROVE t[i] \in Range(s) \ {Head(s)}
    <3>1. i + 1 \in 1..Len(s) /\ 1 \in 1..Len(s) /\ i + 1 # 1
      BY <1>1, <1>2
    <3>2. s[i + 1] # s[1]
      BY <1>2, <3>1, Zenon DEF IsInjective
    <3>3. QED  BY <1>1, <1>2, <3>1, <3>2, Zenon DEF Range
  <2>3. QED  BY <1>2, <2>1, <2>2, Zenon DEF Range
<1>5. ASSUME NEW x \in Range(s) \ {Head(s)} PROVE x \in Range(t)
  <2>1. PICK i \in 1..Len(s) : x = s[i]
    BY <1>2, Zenon DEF Range
  <2>2. i - 1 \in 1..Len(t) /\ t[i - 1] = x
    BY <2>1, <1>1, <1>2
  <2>3. QED  BY <2>2, <1>2, Zenon DEF Range
<1>6. QED  BY <1>1, <1>3, <1>4, <1>5, Zenon DEF t

LEMMA RangeType ==
  ASSUME NEW S, NEW s \in Seq(S)
  PROVE  Range(s) \subseteq S
BY DEF Range

\* The successor of the first object in use is the second.
LEMMA NextFacts ==
  ASSUME TypeOK, ListsPartition
  PROVE  /\ \A c \in Chk : next(c) \in 0..total
         /\ \A c \in Chk : c \in Range(used) /\ c = first(used) =>
              next(c) = IF Len(used) > 1 THEN used[2] ELSE 0
<1> DEFINE after(list, c) == {list[i + 1] : i \in {j \in 1..(Len(list) - 1) : list[j] = c}}
<1>1. \A c \in Chk : after(used, c) \subseteq 1..total /\ after(free, c) \subseteq 1..total
  <2>1. used \in Seq(Chk) /\ free \in Seq(Chk) /\ Range(used) \cup Range(free) = 1..total
    BY Zenon DEF TypeOK, ListsPartition
  <2>2. \A list \in Seq(Chk) : \A i \in 1..(Len(list) - 1) : list[i + 1] \in Range(list)
    BY DEF Range
  <2>3. QED  BY <2>1, <2>2, Zenon
<1>2. ASSUME NEW c \in Chk PROVE next(c) \in 0..total
  <2>0. total \in Nat /\ next(c) = IF after(used, c) \cup after(free, c) = {} THEN 0
              ELSE CHOOSE d \in after(used, c) \cup after(free, c) : TRUE
    BY BoundAssumption DEF next, TypeOK
  <2> HIDE DEF after
  <2>1. CASE after(used, c) \cup after(free, c) = {}
    BY <2>0, <2>1
  <2>2. CASE after(used, c) \cup after(free, c) # {}
    BY <1>1, <2>0, <2>2
  <2>3. QED  BY <2>1, <2>2, Zenon
<1>3. ASSUME NEW c \in Chk, c \in Range(used), c = first(used)
      PROVE  next(c) = IF Len(used) > 1 THEN used[2] ELSE 0
  <2>1. used # <<>> /\ c = used[1]
    BY <1>3 DEF first, list_empty, Range, TypeOK
  <2>2. after(free, c) = {}
    <3>1. c \notin Range(free)
      BY <1>3, Zenon DEF ListsPartition
    <3>2. \A j \in 1..(Len(free) - 1) : free[j] \in Range(free)
      BY DEF TypeOK, Range
    <3>3. QED  BY <3>1, <3>2, Zenon
  <2>3. after(used, c) = IF Len(used) > 1 THEN {used[2]} ELSE {}
    <3>1. used \in Seq(Chk) /\ IsInjective(used)
      BY Zenon DEF TypeOK, ListsPartition
    <3>2. QED  BY <2>1, <3>1 DEF IsInjective
  <2>4. QED  BY <2>2, <2>3, Zenon DEF next
<1>4. QED  BY <1>2, <1>3, Zenon

LEMMA UsedFacts ==
  ASSUME TypeOK, ListsPartition
  PROVE  /\ total \in Nat /\ 1..total \subseteq Chk
         /\ Range(used) \subseteq 1..total /\ Range(free) \subseteq 1..total
         /\ \A i \in 1..Len(used) : used[i] \in Range(used)
         /\ used # <<>> <=> Len(used) > 0
         /\ used # <<>> => first(used) = used[1] /\ Head(used) = used[1]
         /\ used = <<>> => first(used) = 0
         /\ Len(used) > 1 => used[1] # used[2]
<1>1. total \in Nat /\ total <= MaxChk /\ used \in Seq(Chk)
  BY BoundAssumption DEF TypeOK
<1>2. \A i \in 1..Len(used) : used[i] \in Range(used)
  BY <1>1 DEF Range
<1>3. Len(used) > 1 => used[1] # used[2]
  BY <1>1 DEF ListsPartition, IsInjective
<1>4. used # <<>> <=> Len(used) > 0
  BY <1>1
<1>5. 1..total \subseteq Chk
  BY <1>1, BoundAssumption DEF Chk
<1>6. QED
  BY <1>1, <1>2, <1>3, <1>4, <1>5 DEF ListsPartition, first, list_empty

-------------------------------------------------------------------------------
(* Steps of a worker that change nothing but its own state *)

\* The other workers keep their state.
OthersSame(w) == \A v \in Worker \ {w} :
  /\ pc'[v] = pc[v] /\ currentIter'[v] = currentIter[v] /\ eff'[v] = eff[v]
  /\ cur'[v] = cur[v] /\ alpha'[v] = alpha[v] /\ beta'[v] = beta[v]
  /\ ret'[v] = ret[v] /\ given'[v] = given[v]

\* A worker that is not done: the main process is at the join.
LEMMA AtJoin ==
  ASSUME IInv, NEW w \in Worker, pc[w] \notin Done
  PROVE  mainPc = "join"
BY Zenon DEF IInv, MainInv

\* Worker w may lock free objects, unlock its own, and end the life of
\* complete ones; the other workers' part of the invariant survives.
LEMMA OwnStep ==
  ASSUME IInv, TypeOK', NEW w \in Worker, pc[w] \notin Done, OthersSame(w),
         UNCHANGED <<mgr, iteration, num_workers, given, mainSt>>,
         \A c \in Chk :
           /\ Filled(c)' = Filled(c)
           /\ lock[c] \notin {w, NoWorker} => lock'[c] = lock[c]
           /\ c > total => lock'[c] = NoWorker
           /\ \/ type'[c] = type[c]
              \/ /\ c \in Range(used) /\ lock[c] \in {w, NoWorker}
                 /\ type[c] = "Complete" /\ type'[c] \in {"Free", "Broken"},
         WorkerOK(w)'
  PROVE  IInv'
<1> USE DEF mgr, mainSt
<1>0. TypeOK /\ ListsPartition /\ Range(used) \subseteq Chk /\ 1..total \subseteq Chk
  BY UsedFacts, Zenon DEF IInv
<1>1. ListsPartition' /\ FreeInv'
  BY <1>0, Zenon DEF IInv, ListsPartition, FreeInv
<1>2. CountInv'
  BY <1>0, Zenon DEF IInv, CountInv
<1>3. GivenInv'
  BY <1>0, Zenon DEF IInv, GivenInv
<1>4. MainInv'
  BY AtJoin, Zenon DEF MainInv
<1>5. ASSUME NEW v \in Worker, v # w PROVE WorkerOK(v)'
  <2>1. /\ GivenOK(v) /\ FillOK(v) /\ AlphaOK(v) /\ CommitOK(v) /\ LockOK(v) /\ v # NoWorker
        /\ pc'[v] = pc[v] /\ currentIter'[v] = currentIter[v] /\ eff'[v] = eff[v]
        /\ cur'[v] = cur[v] /\ alpha'[v] = alpha[v] /\ beta'[v] = beta[v]
        /\ ret'[v] = ret[v] /\ given'[v] = given[v]
    BY <1>5, WorkerAssumption, Zenon DEF IInv, WorkerOK, OthersSame
  <2>2. GivenOK(v)'
    BY <2>1, Zenon DEF GivenOK, PreFill
  <2>3. FillOK(v)'
    BY <1>0, <2>1, Zenon DEF FillOK
  <2>4. AlphaOK(v)'
    <3>1. first(used)' = first(used)
      BY Zenon DEF first, list_empty
    <3>2. ASSUME pc[v] \in Reading PROVE AlphaOK(v)'
      <4>1. /\ alpha[v] \in 1..total /\ alpha[v] \in Chk
            /\ pc[v] \in {"betaType", "lockAlpha", "lockBeta"} => beta[v] \in 1..total
        BY <1>0, <2>1, <3>2, Zenon DEF AlphaOK
      <4>2. Filled(alpha[v])' = Filled(alpha[v])
        BY <2>1, <4>1, Zenon
      <4>3. type[alpha[v]] # "Complete" => type'[alpha[v]] = type[alpha[v]]
        BY <4>1, Zenon
      <4>4. QED  BY <2>1, <3>1, <3>2, <4>1, <4>2, <4>3, Zenon DEF AlphaOK
    <3>3. QED  BY <2>1, <3>2, Zenon DEF AlphaOK
  <2>5. \A c \in Chk : lock[c] = v => lock'[c] = v /\ type'[c] = type[c]
    BY <1>5, <2>1, Zenon
  <2>6. LockOK(v)'
    <3>1. pc[v] = "fill" => cur[v] \in Chk
      BY <1>0, <2>1, Zenon DEF FillOK
    <3>2. pc[v] = "lockBeta" => alpha[v] \in Chk
      BY <1>0, <2>1, Zenon DEF AlphaOK, Reading
    <3>3. pc[v] \in Holding \cup {"unlock"} => alpha[v] \in Chk /\ beta[v] \in Chk
      BY <1>0, <2>1, Zenon DEF LockOK
    <3>4. QED  BY <2>1, <2>5, <3>1, <3>2, <3>3, Zenon DEF LockOK
  <2>7. CommitOK(v)'
    <3>1. pc[v] \in Holding => alpha[v] \in Chk /\ beta[v] \in Chk
                               /\ lock[alpha[v]] = v /\ lock[beta[v]] = v
      BY <1>0, <2>1, Zenon DEF LockOK
    <3>2. QED  BY <2>1, <2>5, <3>1, Zenon DEF CommitOK
  <2>8. QED  BY <2>2, <2>3, <2>4, <2>6, <2>7, Zenon DEF WorkerOK
<1>6. QED  BY <1>1, <1>2, <1>3, <1>4, <1>5, Zenon DEF IInv

LEMMA LocalStep ==
  ASSUME IInv, TypeOK', NEW w \in Worker, pc[w] \notin Done, OthersSame(w),
         UNCHANGED <<mgr, objs, given, mainSt>>, WorkerOK(w)'
  PROVE  IInv'
<1>1. UNCHANGED <<mgr, iteration, num_workers, given, mainSt, type, lock, has>>
  BY Zenon DEF objs
<1>2. \A c \in Chk : Filled(c)' = Filled(c)
  BY <1>1, Zenon DEF Filled
<1>3. \A c \in Chk : c > total => lock'[c] = NoWorker
  BY <1>1, Zenon DEF IInv, FreeInv
<1>4. QED  BY <1>1, <1>2, <1>3, OwnStep, Zenon

\* A worker that is not at a checkpoint object has no obligations to it.
LEMMA NoObject ==
  ASSUME NEW w \in Worker, pc'[w] \notin {"lock", "fill", "unlock"} \cup Reading \cup Holding
  PROVE  FillOK(w)' /\ AlphaOK(w)' /\ CommitOK(w)' /\ LockOK(w)'
BY Zenon DEF FillOK, AlphaOK, CommitOK, LockOK, Reading

LEMMA BodySteps ==
  ASSUME IInv, NEW w \in Worker,
         misspec_in_body(w) \/ end_iter_leave(w) \/ end_iter(w) \/ worker_finishes(w)
           \/ perform_checkpoint(w) \/ alloc_stall(w)
  PROVE  IInv'
<1> USE DEF mgr, objs, pcb, locals, mainSt, region, Go
<1>1. TypeOK /\ WorkerOK(w) /\ currentIter[w] \in Iter /\ endIter \in Iter
  BY Zenon DEF IInv, TypeOK
<1>2. \A i \in Label : misspec_at(w, i) => /\ pc' = [pc EXCEPT ![w] = "dead"]
                                           /\ misspec' \in BOOLEAN /\ misspecIter' \in Label
  BY Zenon DEF misspec_at
<1>3. CASE misspec_in_body(w)
  <2>1. TypeOK'
    BY <1>1, <1>2, <1>3, Zenon DEF misspec_in_body, TypeOK, Done, Label
  <2>2. OthersSame(w) /\ pc[w] \notin Done /\ pc'[w] = "dead"
    BY <1>1, <1>2, <1>3, Zenon DEF misspec_in_body, TypeOK, Done, Label, OthersSame
  <2>3. WorkerOK(w)'
    BY <2>2, NoObject, Zenon DEF WorkerOK, GivenOK, PreFill, Reading, Holding, Committing
  <2>4. QED  BY <1>3, <2>1, <2>2, <2>3, LocalStep, Zenon DEF misspec_in_body
<1>4. CASE end_iter_leave(w)
  <2>1. TypeOK'
    BY <1>1, <1>4, Zenon DEF end_iter_leave, TypeOK, Done
  <2>2. OthersSame(w) /\ pc[w] \notin Done /\ pc'[w] = "left"
    BY <1>1, <1>4, Zenon DEF end_iter_leave, TypeOK, Done, OthersSame
  <2>3. WorkerOK(w)'
    BY <2>2, NoObject, Zenon DEF WorkerOK, GivenOK, PreFill, Reading, Holding, Committing
  <2>4. QED  BY <1>4, <2>1, <2>2, <2>3, LocalStep, Zenon DEF end_iter_leave
<1>5. CASE end_iter(w)
  <2>0. currentIter[w] + 1 \in Iter /\ MaxIter \in Nat
    BY <1>1, <1>5, IterAssumption DEF end_iter, Iter
  <2>1. TypeOK'
    BY <1>1, <1>5, <2>0, ZenonT(60) DEF end_iter, TypeOK, Done, Label
  <2>2. OthersSame(w) /\ pc[w] \notin Done
    BY <1>1, <1>5, Zenon DEF end_iter, TypeOK, Done, OthersSame
  <2>3. GivenOK(w)'
    <3>1. given'[w] = given[w] /\ given[w] \subseteq 0..currentIter[w]
          /\ currentIter'[w] = currentIter[w] + 1
      BY <1>1, <1>5, Zenon DEF end_iter, TypeOK, WorkerOK, GivenOK
    <3>2. given'[w] \subseteq 0..currentIter'[w] /\ currentIter[w] + 1 \notin given[w]
      <4>1. currentIter[w] \in Nat
        BY <1>1, IterAssumption DEF Iter
      <4>2. 0..currentIter[w] \subseteq 0..(currentIter[w] + 1)
            /\ currentIter[w] + 1 \notin 0..currentIter[w]
        BY <4>1
      <4>3. QED  BY <3>1, <4>2, Zenon
    <3>3. pc'[w] = "run" \/ (pc'[w] = "ckpt" /\ eff'[w] = currentIter[w] + 1)
      BY <1>1, <1>5, Zenon DEF end_iter, TypeOK
    <3>4. QED  BY <3>1, <3>2, <3>3, Zenon DEF GivenOK, PreFill, Reading, Holding, Committing
  <2>4. WorkerOK(w)'
    <3>1. pc'[w] \in {"run", "ckpt"}
      BY <1>1, <1>5, Zenon DEF end_iter, TypeOK
    <3>2. QED  BY <2>3, <3>1, NoObject, Zenon DEF WorkerOK, Reading, Holding
  <2>5. QED  BY <1>5, <2>1, <2>2, <2>4, LocalStep, Zenon DEF end_iter
<1>6. CASE worker_finishes(w)
  <2>0. LastIteration \in Label /\ LastIteration \notin 0..currentIter[w]
    BY <1>1, IterAssumption DEF Label, Iter
  <2>1. TypeOK'
    BY <1>1, <1>6, <2>0, Zenon DEF worker_finishes, TypeOK, Done
  <2>2. /\ OthersSame(w) /\ pc[w] = "run" /\ pc[w] \notin Done /\ pc'[w] = "ckpt"
        /\ eff'[w] = LastIteration /\ UNCHANGED <<given, currentIter>>
    BY <1>1, <1>6, Zenon DEF worker_finishes, TypeOK, Done, OthersSame
  <2>3. WorkerOK(w)'
    BY <1>1, <2>0, <2>2, NoObject, Zenon DEF WorkerOK, GivenOK, PreFill, Reading, Holding, Committing
  <2>4. QED  BY <1>6, <2>1, <2>2, <2>3, LocalStep, Zenon DEF worker_finishes
<1>7. CASE perform_checkpoint(w)
  <2>1. TypeOK'
    BY <1>1, <1>2, <1>7, ZenonT(60) DEF perform_checkpoint, TypeOK, Done, Label
  <2>2. /\ OthersSame(w) /\ pc[w] = "ckpt" /\ pc[w] \notin Done /\ pc'[w] \in {"get", "dead"}
        /\ UNCHANGED <<eff, given, currentIter>>
    BY <1>1, <1>2, <1>7, Zenon DEF perform_checkpoint, TypeOK, Done, Label, OthersSame
  <2>3. WorkerOK(w)'
    BY <1>1, <2>2, NoObject, Zenon DEF WorkerOK, GivenOK, PreFill, Reading, Holding, Committing
  <2>4. QED  BY <1>7, <2>1, <2>2, <2>3, LocalStep, Zenon DEF perform_checkpoint
<1>8. CASE alloc_stall(w)
  <2>1. TypeOK'
    BY <1>1, <1>2, <1>8, ZenonT(60) DEF alloc_stall, TypeOK, Done, Label
  <2>2. OthersSame(w) /\ pc[w] = "stall" /\ pc[w] \notin Done
    BY <1>1, <1>2, <1>8, Zenon DEF alloc_stall, TypeOK, Done, Label, OthersSame
  <2>3. \/ pc'[w] \in {"realloc", "dead"} /\ ret'[w] = ret[w]
        \/ pc'[w] = "first" /\ ret'[w] = "stall"
    BY <1>1, <1>2, <1>8, Zenon DEF alloc_stall, TypeOK, Label
  <2>4. WorkerOK(w)'
    <3>1. UNCHANGED <<currentIter, eff, given>>
      BY <1>8, Zenon DEF alloc_stall
    <3>2. QED
      BY <1>1, <2>2, <2>3, <3>1, NoObject, Zenon DEF WorkerOK, GivenOK, PreFill, Reading, Holding,
         Committing
  <2>5. QED  BY <1>8, <2>1, <2>2, <2>4, LocalStep, Zenon DEF alloc_stall
<1>9. QED  BY <1>3, <1>4, <1>5, <1>6, <1>7, <1>8, Zenon

LEMMA ReadSteps ==
  ASSUME IInv, NEW w \in Worker,
         commit_first(w) \/ commit_alpha_type(w) \/ commit_next(w) \/ commit_beta_type(w)
  PROVE  IInv'
<1> USE DEF mgr, objs, pcb, locals, mainSt, region, Go
<1>1. TypeOK /\ ListsPartition /\ WorkerOK(w) /\ pc[w] \in Committing /\ pc[w] \notin Done
  BY Zenon DEF IInv, Committing, Reading, Done, commit_first, commit_alpha_type, commit_next,
         commit_beta_type
<1>2. Return(w) => /\ pc' = [pc EXCEPT ![w] = pc'[w]]
                   /\ pc'[w] \in {"stall", "finished", "run"}
                   /\ pc'[w] = "stall" => ret[w] = "stall"
                   /\ pc'[w] = "run" => eff[w] # LastIteration
  BY <1>1, Zenon DEF Return, TypeOK
<1>3. Return(w) /\ UNCHANGED <<mgr, objs, currentIter, eff, cur, ret, given>> => WorkerOK(w)'
  <2> SUFFICES ASSUME Return(w), UNCHANGED <<mgr, objs, currentIter, eff, cur, ret, given>>
               PROVE  WorkerOK(w)'
    BY Zenon
  <2>1. GivenOK(w)'
    BY <1>1, <1>2, Zenon DEF WorkerOK, GivenOK, PreFill, Committing, Reading, Holding
  <2>2. QED  BY <1>2, <2>1, NoObject, Zenon DEF WorkerOK, Reading, Holding
<1>4. CASE commit_first(w)
  <2>1. first(used) \in 0..MaxChk /\ (used # <<>> => first(used) \in 1..total)
    BY <1>1, UsedFacts, BoundAssumption DEF Chk
  <2>2. TypeOK'
    BY <1>1, <1>2, <1>4, <2>1, ZenonT(60) DEF commit_first, TypeOK, Done
  <2>3. OthersSame(w)
    BY <1>1, <1>2, <1>4, Zenon DEF commit_first, TypeOK, OthersSame
  <2>4. WorkerOK(w)'
    <3>1. CASE list_empty(used)
      BY <1>3, <1>4, <3>1, Zenon DEF commit_first
    <3>2. CASE ~list_empty(used)
      <4>1. pc'[w] = "alphaType" /\ alpha'[w] = first(used) /\ pc[w] = "first"
            /\ UNCHANGED <<mgr, objs, currentIter, eff, cur, ret, given, beta>>
        BY <1>1, <1>4, <3>2, Zenon DEF commit_first, TypeOK
      <4>2. alpha'[w] \in 1..total' /\ alpha'[w] = first(used)'
        BY <4>1, <2>1, <3>2, Zenon DEF list_empty, first
      <4>3. QED
        BY <1>1, <4>1, <4>2, Zenon DEF Committing, Reading, Holding, WorkerOK, GivenOK, PreFill, FillOK,
           AlphaOK, CommitOK, LockOK
    <3>3. QED  BY <3>1, <3>2, Zenon
  <2>5. QED  BY <1>1, <1>4, <2>2, <2>3, <2>4, LocalStep, Zenon DEF commit_first
<1>5. CASE commit_alpha_type(w)
  <2>1. TypeOK' /\ OthersSame(w)
    BY <1>1, <1>2, <1>5, ZenonT(60) DEF commit_alpha_type, TypeOK, Done, OthersSame
  <2>2. WorkerOK(w)'
    <3>1. CASE Return(w)
      BY <1>3, <1>5, <3>1, Zenon DEF commit_alpha_type
    <3>2. CASE pc' = [pc EXCEPT ![w] = "next"]
      BY <1>1, <1>5, <3>2, Zenon DEF commit_alpha_type, TypeOK, Committing, Reading, Holding, WorkerOK,
         GivenOK, PreFill, FillOK, AlphaOK, CommitOK, LockOK, Filled, first, list_empty
    <3>3. QED  BY <1>5, <3>1, <3>2, Zenon DEF commit_alpha_type
  <2>3. QED  BY <1>1, <1>5, <2>1, <2>2, LocalStep, Zenon DEF commit_alpha_type
<1>6. CASE commit_next(w)
  <2>0. alpha[w] \in 1..total /\ alpha[w] \in Chk
    BY <1>1, <1>6, UsedFacts, Zenon DEF commit_next, WorkerOK, AlphaOK, Reading
  <2>1. next(alpha[w]) \in 0..total /\ next(alpha[w]) \in 0..MaxChk
    <3>1. next(alpha[w]) \in 0..total
      BY <1>1, <2>0, NextFacts, Zenon
    <3>2. total \in 0..MaxChk
      BY <1>1, Zenon DEF TypeOK
    <3>3. QED  BY <3>1, <3>2, BoundAssumption
  <2>2. TypeOK' /\ OthersSame(w)
    BY <1>1, <1>2, <1>6, <2>1, ZenonT(60) DEF commit_next, TypeOK, Done, OthersSame
  <2>3. WorkerOK(w)'
    <3>1. CASE Return(w)
      BY <1>3, <1>6, <3>1, Zenon DEF commit_next
    <3>2. CASE next(alpha[w]) # 0 /\ pc' = [pc EXCEPT ![w] = "betaType"]
      <4>1. pc'[w] = "betaType" /\ beta'[w] = next(alpha[w]) /\ pc[w] = "next"
            /\ UNCHANGED <<mgr, objs, currentIter, eff, cur, ret, given, alpha>>
        BY <1>1, <1>6, <3>2, Zenon DEF commit_next, TypeOK
      <4>2. beta'[w] \in 1..total'
        <5>1. next(alpha[w]) \in 1..total
          BY <2>1, <3>2
        <5>2. total' = total
          BY <4>1, Zenon
        <5>3. QED  BY <4>1, <5>1, <5>2, Zenon
      <4>3. AlphaOK(w)'
        <5>1. first(used)' = first(used) /\ Filled(alpha[w])' = Filled(alpha[w])
          BY <4>1, Zenon DEF first, list_empty, Filled
        <5>2. AlphaOK(w)
          BY <1>1, Zenon DEF WorkerOK
        <5>3. QED  BY <4>1, <4>2, <5>1, <5>2, Zenon DEF AlphaOK, Reading
      <4>4. GivenOK(w)'
        BY <1>1, <4>1, Zenon DEF WorkerOK, GivenOK, PreFill, Committing, Reading, Holding
      <4>5. QED  BY <4>1, <4>3, <4>4, Zenon DEF WorkerOK, FillOK, CommitOK, LockOK, Holding
    <3>3. QED  BY <1>6, <3>1, <3>2, Zenon DEF commit_next
  <2>4. QED  BY <1>1, <1>6, <2>2, <2>3, LocalStep, Zenon DEF commit_next
<1>7. CASE commit_beta_type(w)
  <2>1. TypeOK' /\ OthersSame(w)
    BY <1>1, <1>2, <1>7, ZenonT(60) DEF commit_beta_type, TypeOK, Done, OthersSame
  <2>2. WorkerOK(w)'
    <3>1. CASE Return(w)
      BY <1>3, <1>7, <3>1, Zenon DEF commit_beta_type
    <3>2. CASE pc' = [pc EXCEPT ![w] = "lockAlpha"]
      BY <1>1, <1>7, <3>2, Zenon DEF commit_beta_type, TypeOK, Committing, Reading, Holding, WorkerOK,
         GivenOK, PreFill, FillOK, AlphaOK, CommitOK, LockOK, Filled, first, list_empty
    <3>3. QED  BY <1>7, <3>1, <3>2, Zenon DEF commit_beta_type
  <2>3. QED  BY <1>1, <1>7, <2>1, <2>2, LocalStep, Zenon DEF commit_beta_type
<1>8. QED  BY <1>4, <1>5, <1>6, <1>7, Zenon

-------------------------------------------------------------------------------
(* Steps of a worker on objects it has locked *)

LEMMA LockSteps ==
  ASSUME IInv, NEW w \in Worker, lock_checkpoint(w) \/ commit_lock_alpha(w)
  PROVE  IInv'
<1> USE DEF mgr, pcb, locals, mainSt, region, Go, acquire_lock
<1>1. /\ TypeOK /\ ListsPartition /\ FreeInv /\ WorkerOK(w) /\ total \in Nat
      /\ 1..total \subseteq Chk /\ Range(used) \subseteq 1..total /\ w # NoWorker
  BY UsedFacts, WorkerAssumption, Zenon DEF IInv
<1>2. \A c \in Chk : Filled(c)' = Filled(c)
  BY Zenon DEF Filled, lock_checkpoint, commit_lock_alpha
<1>3. CASE lock_checkpoint(w)
  <2>1. cur[w] \in 1..total
    BY <1>1, <1>3, Zenon DEF lock_checkpoint, WorkerOK, FillOK
  <2>2. TypeOK' /\ OthersSame(w) /\ pc[w] \notin Done
    BY <1>1, <1>3, Zenon DEF lock_checkpoint, TypeOK, Done, OthersSame
  <2>3. \A c \in Chk : /\ lock[c] \notin {w, NoWorker} => lock'[c] = lock[c]
                       /\ c > total => lock'[c] = NoWorker
    BY <1>1, <1>3, <2>1 DEF lock_checkpoint, TypeOK, FreeInv
  <2>4. WorkerOK(w)'
    BY <1>1, <1>3, <2>1, Zenon DEF lock_checkpoint, TypeOK, Committing, Reading, Holding, WorkerOK,
       GivenOK, PreFill, FillOK, AlphaOK, CommitOK, LockOK
  <2>5. QED  BY <1>2, <1>3, <2>2, <2>3, <2>4, OwnStep, Zenon DEF lock_checkpoint
<1>4. CASE commit_lock_alpha(w)
  <2>1. alpha[w] \in 1..total
    BY <1>1, <1>4, Zenon DEF commit_lock_alpha, WorkerOK, AlphaOK, Reading
  <2>2. TypeOK' /\ OthersSame(w) /\ pc[w] \notin Done
    BY <1>1, <1>4, Zenon DEF commit_lock_alpha, TypeOK, Done, OthersSame
  <2>3. \A c \in Chk : /\ lock[c] \notin {w, NoWorker} => lock'[c] = lock[c]
                       /\ c > total => lock'[c] = NoWorker
    BY <1>1, <1>4, <2>1 DEF commit_lock_alpha, TypeOK, FreeInv
  <2>4. WorkerOK(w)'
    <3>1. Filled(alpha[w])' = Filled(alpha[w]) /\ first(used)' = first(used)
      BY <1>1, <1>2, <1>4, <2>1, Zenon DEF commit_lock_alpha, first, list_empty
    <3>2. QED
      BY <1>1, <1>4, <2>1, <3>1, Zenon DEF commit_lock_alpha, TypeOK, Committing, Reading, Holding,
         WorkerOK, GivenOK, PreFill, FillOK, AlphaOK, CommitOK, LockOK
  <2>5. QED  BY <1>2, <1>4, <2>2, <2>3, <2>4, OwnStep, Zenon DEF commit_lock_alpha
<1>5. QED  BY <1>3, <1>4, Zenon

\* The second test, under both locks: a complete alpha is the front of the
\* list, even if it was recycled in the meantime, and so beta is the second.
LEMMA TestedFront ==
  ASSUME IInv, NEW w \in Worker, pc[w] = "lockBeta", StillComplete(w)
  PROVE  Len(used) > 1 /\ used[1] = alpha[w] /\ used[2] = beta[w]
<1>1. TypeOK /\ ListsPartition /\ AlphaOK(w)
  BY Zenon DEF IInv, WorkerOK
<1>2. alpha[w] = first(used) /\ alpha[w] \in 1..total /\ beta[w] \in 1..total
  BY <1>1, Zenon DEF AlphaOK, Reading, StillComplete
<1>3. used # <<>> /\ alpha[w] = used[1] /\ alpha[w] \in Range(used) /\ alpha[w] \in Chk
  BY <1>1, <1>2, UsedFacts
<1>4. beta[w] = IF Len(used) > 1 THEN used[2] ELSE 0
  BY <1>1, <1>2, <1>3, NextFacts, Zenon DEF StillComplete
<1>5. QED  BY <1>2, <1>3, <1>4

LEMMA TestSteps ==
  ASSUME IInv, NEW w \in Worker, commit_lock_beta(w)
  PROVE  IInv'
<1> USE DEF mgr, pcb, locals, mainSt, region, Go, acquire_lock
<1>1. /\ TypeOK /\ ListsPartition /\ FreeInv /\ WorkerOK(w) /\ total \in Nat
      /\ 1..total \subseteq Chk /\ Range(used) \subseteq 1..total /\ w # NoWorker
      /\ pc[w] = "lockBeta" /\ pc[w] \notin Done
  BY UsedFacts, WorkerAssumption, Zenon DEF IInv, commit_lock_beta, Done
<1>2. \A c \in Chk : Filled(c)' = Filled(c)
  BY Zenon DEF Filled, commit_lock_beta
<1>3. alpha[w] \in 1..total /\ beta[w] \in 1..total /\ lock[alpha[w]] = w
  BY <1>1, Zenon DEF WorkerOK, AlphaOK, LockOK, Reading
<1>4. CASE StillComplete(w)
  <2>1. Len(used) > 1 /\ used[1] = alpha[w] /\ used[2] = beta[w]
    BY <1>1, <1>4, TestedFront, Zenon
  <2>2. alpha[w] \in Range(used) /\ alpha[w] # beta[w]
    <3>1. 1 \in 1..Len(used)
      BY <1>1, <2>1 DEF TypeOK
    <3>2. QED  BY <1>1, <2>1, <3>1, UsedFacts, Zenon
  <2>3. /\ lock[beta[w]] = NoWorker /\ lock' = [lock EXCEPT ![beta[w]] = w]
        /\ type' = [type EXCEPT ![alpha[w]] = "Free"]
        /\ pc' = [pc EXCEPT ![w] = "combine"]
    BY <1>4, Zenon DEF commit_lock_beta
  <2>4. TypeOK' /\ OthersSame(w)
    BY <1>1, <2>3, ZenonT(60) DEF commit_lock_beta, TypeOK, Done, OthersSame, Life
  <2>5. \A c \in Chk : /\ lock[c] \notin {w, NoWorker} => lock'[c] = lock[c]
                       /\ c > total => lock'[c] = NoWorker
    BY <1>1, <1>3, <2>3 DEF TypeOK, FreeInv
  <2>6. \A c \in Chk : \/ type'[c] = type[c]
                       \/ /\ c \in Range(used) /\ lock[c] \in {w, NoWorker}
                          /\ type[c] = "Complete" /\ type'[c] \in {"Free", "Broken"}
    BY <1>1, <1>3, <1>4, <2>2, <2>3, Zenon DEF TypeOK, StillComplete
  <2>7. WorkerOK(w)'
    <3>1. pc'[w] = "combine" /\ type'[alpha[w]] = "Free" /\ type'[beta[w]] = "Complete"
          /\ lock'[alpha[w]] = w /\ lock'[beta[w]] = w
      BY <1>1, <1>3, <1>4, <2>2, <2>3, Zenon DEF TypeOK, StillComplete
    <3>2. GivenOK(w)'
      BY <1>1, <3>1, Zenon DEF commit_lock_beta, WorkerOK, GivenOK, PreFill, Committing, Reading, Holding
    <3>3. QED
      BY <1>1, <1>3, <2>1, <3>1, <3>2, Zenon DEF commit_lock_beta, WorkerOK,
         FillOK, AlphaOK, CommitOK, LockOK, Reading, Holding
  <2>8. QED  BY <1>1, <1>2, <2>4, <2>5, <2>6, <2>7, OwnStep, Zenon DEF commit_lock_beta
<1>5. CASE ~StillComplete(w)
  <2>1. lock' = [lock EXCEPT ![alpha[w]] = NoWorker] /\ Return(w) /\ UNCHANGED type
    BY <1>5, Zenon DEF commit_lock_beta
  <2>2. TypeOK' /\ OthersSame(w)
    BY <1>1, <2>1, Zenon DEF commit_lock_beta, Return, TypeOK, Done, OthersSame
  <2>3. \A c \in Chk : /\ lock[c] \notin {w, NoWorker} => lock'[c] = lock[c]
                       /\ c > total => lock'[c] = NoWorker
    BY <1>1, <1>3, <2>1, Zenon DEF TypeOK, FreeInv
  <2>4. WorkerOK(w)'
    BY <1>1, <2>1, Zenon DEF commit_lock_beta, Return, TypeOK, Committing, Reading, Holding, WorkerOK,
       GivenOK, PreFill, FillOK, AlphaOK, CommitOK, LockOK
  <2>5. QED  BY <1>1, <1>2, <2>1, <2>2, <2>3, <2>4, OwnStep, Zenon DEF commit_lock_beta
<1>6. QED  BY <1>4, <1>5, Zenon

LEMMA CombineSteps ==
  ASSUME IInv, NEW w \in Worker, commit_combine(w) \/ commit_misspec(w) \/ commit_unlock(w)
  PROVE  IInv'
<1> USE DEF mgr, pcb, locals, mainSt, region, Go
<1>1. /\ TypeOK /\ ListsPartition /\ FreeInv /\ CountInv /\ WorkerOK(w) /\ total \in Nat
      /\ 1..total \subseteq Chk /\ Range(used) \subseteq 1..total /\ w # NoWorker
      /\ pc[w] \in {"combine", "unlock"} /\ pc[w] \notin Done
  BY UsedFacts, WorkerAssumption, Zenon
     DEF IInv, commit_combine, commit_misspec, commit_unlock, Done
<1>2. alpha[w] \in 1..total /\ beta[w] \in 1..total /\ lock[alpha[w]] = w /\ lock[beta[w]] = w
  BY <1>1, Zenon DEF WorkerOK, LockOK, Holding
<1>3. pc[w] = "combine" => /\ Len(used) > 1 /\ used[1] = alpha[w] /\ used[2] = beta[w]
                           /\ type[alpha[w]] = "Free" /\ type[beta[w]] = "Complete"
  BY <1>1, Zenon DEF WorkerOK, CommitOK, Holding
<1>4. pc[w] = "combine" => beta[w] \in Range(used) /\ alpha[w] # beta[w]
  <2>1. pc[w] = "combine" => 2 \in 1..Len(used)
    BY <1>1, <1>3 DEF TypeOK
  <2>2. QED  BY <1>1, <1>3, <2>1, UsedFacts, Zenon
<1>5. Unlock(w) => \A c \in Chk : /\ lock[c] \notin {w, NoWorker} => lock'[c] = lock[c]
                                  /\ c > total => lock'[c] = NoWorker
  BY <1>1, <1>2, Zenon DEF Unlock, TypeOK, FreeInv
<1>6. CASE commit_combine(w)
  <2>1. /\ pc[w] = "combine" /\ pc' = [pc EXCEPT ![w] = "pop"]
        /\ has' = [has EXCEPT ![beta[w]] = @ \cup has[alpha[w]]]
        /\ output' = Append(output, iteration[alpha[w]])
    BY <1>6, Zenon DEF commit_combine, combine_checkpoints
  <2>2. Filled(beta[w]) = Worker /\ iteration[alpha[w]] \in Label
    <3>1. alpha[w] \in Range(used)
      <4>1. 1 \in 1..Len(used)
        BY <1>1, <1>3, <2>1 DEF TypeOK
      <4>2. QED  BY <1>1, <1>3, <2>1, <4>1, UsedFacts, Zenon
    <3>2. QED  BY <1>1, <1>3, <1>4, <2>1, <3>1, Zenon DEF CountInv
  <2>3. \A c \in Chk : Filled(c)' = Filled(c)
    <3>1. UNCHANGED <<iteration, num_workers>>
      BY <1>6, Zenon DEF commit_combine
    <3>2. ASSUME NEW c \in Chk, c # beta[w] PROVE Filled(c)' = Filled(c)
      <4>1. has'[c] = has[c]
        BY <1>1, <2>1, <3>2, Zenon DEF TypeOK
      <4>2. QED  BY <3>1, <4>1, Zenon DEF Filled
    <3>3. has[beta[w]] \subseteq has'[beta[w]]
      BY <1>1, <1>2, <2>1, Zenon DEF TypeOK
    <3>4. ASSUME NEW c \in Chk, c = beta[w] PROVE Filled(c)' = Filled(c)
      <4>1. num_workers'[c] # 0 /\ \A v \in Worker : <<v, iteration'[c]>> \in has'[c]
        BY <2>2, <3>1, <3>3, <3>4, WorkerAssumption, Zenon DEF Filled
      <4>2. Filled(c)' = Worker
        BY <4>1, Zenon DEF Filled
      <4>3. QED  BY <2>2, <3>4, <4>2, Zenon
    <3>5. QED  BY <3>2, <3>4, Zenon
  <2>4. TypeOK'
    <3>1. has' \in [Chk -> SUBSET (Worker \X Label)]
      BY <1>1, <1>2, <2>1, Zenon DEF TypeOK
    <3>2. output' \in Seq(Label)
      BY <1>1, <2>1, <2>2 DEF TypeOK
    <3>3. QED  BY <1>1, <1>6, <2>1, <3>1, <3>2, Zenon DEF commit_combine, TypeOK
  <2>5. WorkerOK(w)' /\ OthersSame(w)
    <3>1. OthersSame(w) /\ pc'[w] = "pop"
      BY <1>1, <1>6, <2>1, Zenon DEF commit_combine, TypeOK, OthersSame
    <3>2. UNCHANGED <<mgr, type, lock, currentIter, locals>>
      BY <1>6, Zenon DEF commit_combine
    <3>3. GivenOK(w)'
      BY <1>1, <2>1, <3>1, <3>2, Zenon DEF WorkerOK, GivenOK, PreFill, Committing, Reading, Holding
    <3>4. FillOK(w)' /\ AlphaOK(w)'
      BY <3>1, Zenon DEF FillOK, AlphaOK, Reading
    <3>5. CommitOK(w)' /\ LockOK(w)'
      BY <1>1, <2>1, <3>1, <3>2, Zenon DEF WorkerOK, CommitOK, LockOK, Holding
    <3>6. QED  BY <3>1, <3>3, <3>4, <3>5, Zenon DEF WorkerOK
  <2>6. \A c \in Chk : type'[c] = type[c] /\ lock'[c] = lock[c] /\ (c > total => lock'[c] = NoWorker)
    BY <1>1, <1>6, Zenon DEF commit_combine, FreeInv
  <2>7. QED  BY <1>1, <1>6, <2>3, <2>4, <2>5, <2>6, OwnStep, Zenon DEF commit_combine
<1>7. CASE commit_misspec(w)
  <2>1. /\ pc[w] = "combine" /\ type' = [type EXCEPT ![beta[w]] = "Broken"] /\ Unlock(w)
        /\ pc' = [pc EXCEPT ![w] = "dead"] /\ misspec' = TRUE
        /\ misspecIter' = iteration[beta[w]]
    BY <1>7, Zenon DEF commit_misspec, misspec_at
  <2>2. iteration[beta[w]] \in Label
    BY <1>1, <1>4, <2>1, Zenon DEF CountInv
  <2>3. TypeOK'
    BY <1>1, <1>7, <2>1, <2>2, ZenonT(60) DEF commit_misspec, Unlock, TypeOK, Done, Life
  <2>4. OthersSame(w) /\ WorkerOK(w)'
    <3>1. OthersSame(w) /\ pc'[w] = "dead"
      BY <1>1, <1>7, <2>1, Zenon DEF commit_misspec, TypeOK, OthersSame
    <3>2. WorkerOK(w)'
      BY <3>1, NoObject, Zenon DEF WorkerOK, GivenOK, PreFill, Reading, Holding, Committing
    <3>3. QED  BY <3>1, <3>2, Zenon
  <2>5. \A c \in Chk : \/ type'[c] = type[c]
                       \/ /\ c \in Range(used) /\ lock[c] \in {w, NoWorker}
                          /\ type[c] = "Complete" /\ type'[c] \in {"Free", "Broken"}
    BY <1>1, <1>2, <1>3, <1>4, <2>1, Zenon DEF TypeOK
  <2>6. \A c \in Chk : Filled(c)' = Filled(c)
    BY <1>7, Zenon DEF commit_misspec, Filled
  <2>7. QED  BY <1>1, <1>5, <1>7, <2>1, <2>3, <2>4, <2>5, <2>6, OwnStep, Zenon DEF commit_misspec
<1>8. CASE commit_unlock(w)
  <2>1. TypeOK'
    BY <1>1, <1>8, ZenonT(60) DEF commit_unlock, Unlock, Return, TypeOK, Done
  <2>2. OthersSame(w) /\ WorkerOK(w)'
    <3>1. /\ OthersSame(w) /\ pc[w] = "unlock" /\ UNCHANGED <<currentIter, locals>>
          /\ pc'[w] = IF ret[w] = "stall" THEN "stall"
                      ELSE IF eff[w] = LastIteration THEN "finished" ELSE "run"
      BY <1>1, <1>8, Zenon DEF commit_unlock, Return, TypeOK, OthersSame
    <3>2. GivenOK(w)'
      BY <1>1, <3>1, Zenon DEF WorkerOK, GivenOK, PreFill, Committing, Reading, Holding
    <3>3. QED  BY <3>1, <3>2, NoObject, Zenon DEF WorkerOK, Reading, Holding
  <2>3. \A c \in Chk : Filled(c)' = Filled(c)
    BY <1>8, Zenon DEF commit_unlock, Filled
  <2>4. QED  BY <1>1, <1>5, <1>8, <2>1, <2>2, <2>3, OwnStep, Zenon DEF commit_unlock
<1>9. QED  BY <1>6, <1>7, <1>8, Zenon

-------------------------------------------------------------------------------
(* Steps of a worker that change the lists or fill an object *)

\* What the two ways to obtain object c have in common.
Obtains(c) ==
  /\ ListsPartition' /\ free' \in Seq(Chk)
  /\ total' \in total..MaxChk /\ c <= total' /\ UNCHANGED lock
  /\ has' \in [Chk -> SUBSET (Worker \X Label)]
  /\ \A d \in Chk \ {c} : has'[d] = has[d]
  /\ UNCHANGED <<pcb, currentIter, eff, alpha, beta, ret, given, mainSt, output>>

LEMMA PushStep ==
  ASSUME Counting, IInv, NEW w \in Worker, pc[w] \in {"get", "realloc"},
         NEW c \in Chk, c \notin Range(used), PushPartial(w, c), Obtains(c)
  PROVE  IInv'
<1> USE DEF pcb, mainSt, region, Go
<1>0. /\ ListsPartition' /\ free' \in Seq(Chk)
      /\ total' \in total..MaxChk /\ c <= total' /\ UNCHANGED lock
      /\ has' \in [Chk -> SUBSET (Worker \X Label)]
      /\ \A d \in Chk \ {c} : has'[d] = has[d]
      /\ UNCHANGED <<pcb, currentIter, eff, alpha, beta, ret, given, mainSt, output>>
  BY Zenon DEF Obtains
<1>1. /\ TypeOK /\ ListsPartition /\ FreeInv /\ CountInv /\ GivenInv /\ WorkerOK(w)
      /\ total \in Nat /\ 1..total \subseteq Chk /\ Range(used) \subseteq 1..total
  BY UsedFacts, Zenon DEF IInv
<1>2. /\ used' = Append(used, c) /\ type' = [type EXCEPT ![c] = "Partial"]
      /\ iteration' = [iteration EXCEPT ![c] = eff[w]]
      /\ num_workers' = [num_workers EXCEPT ![c] = 0]
      /\ cur' = [cur EXCEPT ![w] = c] /\ pc' = [pc EXCEPT ![w] = "lock"]
  BY Zenon DEF PushPartial
<1>3. /\ used' \in Seq(Chk) /\ Range(used') = Range(used) \cup {c}
      /\ \A i \in 1..Len(used) : used'[i] = used[i]
      /\ Len(used') = Len(used) + 1
  BY <1>1, <1>2, AppendFacts DEF TypeOK
<1>4. TypeOK'
  <2>1. total' \in 0..MaxChk /\ c \in 0..MaxChk /\ eff[w] \in Label
    BY <1>0, <1>1, BoundAssumption DEF TypeOK, Chk
  <2>2. QED  BY <1>0, <1>1, <1>2, <1>3, <2>1, Zenon DEF TypeOK, Life, Done
<1>5. /\ type'[c] = "Partial" /\ iteration'[c] = eff[w] /\ num_workers'[c] = 0
      /\ cur'[w] = c /\ pc'[w] = "lock" /\ type[c] = "Free" /\ Filled(c)' = {}
  BY <1>0, <1>1, <1>2, Zenon DEF TypeOK, FreeInv, Filled
<1>6. ASSUME NEW d \in Chk, d # c
      PROVE  type'[d] = type[d] /\ iteration'[d] = iteration[d]
             /\ num_workers'[d] = num_workers[d] /\ Filled(d)' = Filled(d)
  BY <1>0, <1>1, <1>2, <1>6, Zenon DEF TypeOK, Filled
<1>7. FreeInv'
  <2>0. total' \in total..MaxChk /\ c <= total' /\ total \in Nat
    BY <1>0, <1>1, Zenon
  <2>1. \A d \in Chk : d > total' => d # c /\ d > total
    BY <2>0, BoundAssumption DEF Chk
  <2>2. \A d \in Chk : d \notin Range(used') => d # c /\ d \notin Range(used)
    BY <1>3, Zenon
  <2>3. \A d \in Chk : d # c => type'[d] = type[d]
    BY <1>6, Zenon
  <2>4. QED  BY <1>0, <1>1, <2>1, <2>2, <2>3, Zenon DEF FreeInv
<1>8. CountInv'
  <2>1. eff[w] \in Label /\ Cardinality({}) = 0 /\ Worker # {}
    BY <1>1, WorkerAssumption, Zenon DEF TypeOK, Counting
  <2>2. \A d \in Range(used) : d # c /\ d \in Chk
    BY <1>1, Zenon
  <2>3. ASSUME NEW d \in Range(used')
        PROVE  /\ iteration'[d] \in Label /\ num_workers'[d] = Cardinality(Filled(d)')
               /\ type'[d] = "Partial" <=> Filled(d)' # Worker
    <3>1. CASE d = c
      BY <1>5, <2>1, <3>1, Zenon
    <3>2. CASE d # c
      BY <1>1, <1>3, <1>6, <2>2, <2>3, <3>2, Zenon DEF CountInv
    <3>3. QED  BY <3>1, <3>2, Zenon
  <2>4. QED  BY <2>3, Zenon DEF CountInv
<1>9. GivenInv'
  BY <1>0, <1>1, <1>3, <1>5, <1>6, Zenon DEF GivenInv
<1>10. MainInv'
  BY <1>0, AtJoin, Zenon DEF MainInv, Done
<1>11. WorkerOK(w)'
  BY <1>0, <1>1, <1>3, <1>5, Zenon DEF WorkerOK, GivenOK, PreFill, FillOK, AlphaOK, CommitOK, LockOK,
     Committing, Reading, Holding
<1>12. ASSUME NEW v \in Worker, v # w PROVE WorkerOK(v)'
  <2>0. 1..total \subseteq 1..total' /\ total \in Nat /\ total' \in Nat
    BY <1>0, <1>1, BoundAssumption
  <2>1. WorkerOK(v) /\ pc'[v] = pc[v] /\ cur'[v] = cur[v]
    BY <1>1, <1>2, <1>12, Zenon DEF IInv, TypeOK
  <2>2. GivenOK(v)' /\ LockOK(v)'
    <3>1. GivenOK(v)'
      BY <1>0, <2>1, Zenon DEF WorkerOK, GivenOK, PreFill
    <3>2. LockOK(v)'
      BY <1>0, <2>0, <2>1, Zenon DEF WorkerOK, LockOK
    <3>3. QED  BY <3>1, <3>2, Zenon
  <2>3. FillOK(v)'
    BY <1>0, <1>1, <1>3, <1>6, <2>1, ZenonT(40) DEF WorkerOK, FillOK
  <2>4. AlphaOK(v)'
    <3>1. ASSUME pc[v] \in Reading, alpha[v] = first(used) PROVE alpha[v] = first(used)'
      <4>1. alpha[v] \in 1..total
        BY <2>1, <3>1, Zenon DEF WorkerOK, AlphaOK
      <4>2. used # <<>> /\ alpha[v] = used[1] /\ 1 \in 1..Len(used) /\ Len(used) \in Nat
        <5>1. used # <<>> /\ alpha[v] = used[1] /\ Len(used) > 0
          BY <1>1, <3>1, <4>1, UsedFacts
        <5>2. Len(used) \in Nat
          BY <1>1 DEF TypeOK
        <5>3. QED  BY <5>1, <5>2
      <4>3. used' # <<>> /\ used'[1] = alpha[v]
        BY <1>3, <4>2
      <4>4. QED  BY <1>3, <4>3 DEF first, list_empty
    <3>2. pc[v] \in Reading => alpha[v] \in 1..total' /\ alpha[v] \in Chk
      BY <1>1, <2>0, <2>1, Zenon DEF WorkerOK, AlphaOK
    <3>3. pc[v] \in {"betaType", "lockAlpha", "lockBeta"} => beta[v] \in 1..total'
      BY <2>0, <2>1, Zenon DEF WorkerOK, AlphaOK, Reading
    <3>4. CASE alpha[v] = c
      BY <1>0, <1>5, <2>1, <3>2, <3>3, <3>4, Zenon DEF AlphaOK
    <3>5. CASE alpha[v] # c
      BY <1>0, <1>6, <2>1, <3>1, <3>2, <3>3, <3>5, Zenon DEF WorkerOK, AlphaOK
    <3>6. QED  BY <3>4, <3>5, Zenon
  <2>5. CommitOK(v)'
    <3>1. ASSUME pc[v] \in Holding PROVE CommitOK(v)'
      <4>1. Len(used) > 1 /\ 1 \in 1..Len(used) /\ 2 \in 1..Len(used) /\ Len(used) \in Nat
        <5>1. Len(used) > 1
          BY <2>1, <3>1, Zenon DEF WorkerOK, CommitOK
        <5>2. Len(used) \in Nat
          BY <1>1 DEF TypeOK
        <5>3. QED  BY <5>1, <5>2
      <4>2. used[1] \in Chk \ {c} /\ used[2] \in Chk \ {c}
        BY <1>1, <4>1, UsedFacts, Zenon
      <4>3. Len(used') > 1 /\ used'[1] = used[1] /\ used'[2] = used[2]
        BY <1>3, <4>1
      <4>4. type'[used[1]] = type[used[1]] /\ type'[used[2]] = type[used[2]]
        BY <1>6, <4>2, Zenon
      <4>5. QED  BY <1>0, <2>1, <3>1, <4>3, <4>4, Zenon DEF WorkerOK, CommitOK
    <3>2. QED  BY <1>0, <2>1, <3>1, Zenon DEF CommitOK
  <2>6. QED  BY <2>2, <2>3, <2>4, <2>5, Zenon DEF WorkerOK
<1>13. QED  BY <1>0, <1>4, <1>7, <1>8, <1>9, <1>10, <1>11, <1>12, Zenon DEF IInv

\* alloc_checkpoint hands out an object that is not in use.
LEMMA AllocStep ==
  ASSUME Counting, IInv, NEW w \in Worker, pc[w] \in {"get", "realloc"}, alloc_checkpoint(w),
         UNCHANGED <<pcb, currentIter, eff, alpha, beta, ret, given, mainSt, output>>
  PROVE  IInv'
<1> USE DEF pcb, mainSt, region
<1>1. /\ TypeOK /\ ListsPartition /\ FreeInv /\ WorkerOK(w) /\ total \in Nat
      /\ 1..total \subseteq Chk /\ Range(used) \subseteq 1..total /\ Range(free) \subseteq 1..total
      /\ used \in Seq(Chk) /\ free \in Seq(Chk) /\ total <= MaxChk
  <2>1. used \in Seq(Chk) /\ free \in Seq(Chk) /\ total <= MaxChk
    BY BoundAssumption DEF IInv, TypeOK
  <2>2. QED  BY <2>1, UsedFacts, Zenon DEF IInv
<1>2. CASE ~list_empty(free) /\ free' = Tail(free) /\ PushPartial(w, Head(free))
           /\ UNCHANGED <<total, lock, has>>
  <2> DEFINE c == Head(free)
  <2>1. /\ free' \in Seq(Chk) /\ c \in Chk /\ c \in Range(free)
        /\ Range(free') = Range(free) \ {c} /\ IsInjective(free')
    BY <1>1, <1>2, TailFacts, Zenon DEF list_empty, ListsPartition
  <2> HIDE DEF c
  <2>2. used' = Append(used, c)
    BY <1>2, Zenon DEF PushPartial, c
  <2>3. c \notin Range(used) /\ c <= total
    BY <1>1, <2>1 DEF ListsPartition
  <2> used \in Seq(Chk) /\ IsInjective(used)
    BY <1>1, Zenon DEF TypeOK, ListsPartition
  <2>4. Range(used') = Range(used) \cup {c} /\ IsInjective(used')
    BY <2>1, <2>2, <2>3, AppendFacts
  <2>5. ListsPartition'
    BY <1>1, <1>2, <2>1, <2>3, <2>4, Zenon DEF ListsPartition
  <2>6. total' \in total..MaxChk /\ c <= total'
    BY <1>1, <1>2, <2>3, BoundAssumption
  <2>7. PushPartial(w, c)
    BY <1>2, Zenon DEF c
  <2>8. UNCHANGED <<lock, has>> /\ has \in [Chk -> SUBSET (Worker \X Label)]
    BY <1>1, <1>2, Zenon DEF TypeOK
  <2>9. Obtains(c)
    BY <2>1, <2>5, <2>6, <2>8, Zenon DEF Obtains
  <2>10. QED  BY <2>1, <2>3, <2>7, <2>9, PushStep, Zenon
<1>3. CASE /\ list_empty(free) /\ ~is_saturated /\ total < MaxChk /\ total' = total + 1
           /\ lock' = [lock EXCEPT ![total + 1] = NoWorker]
           /\ has' = [has EXCEPT ![total + 1] = {}]
           /\ PushPartial(w, total + 1) /\ UNCHANGED free
  <2> DEFINE c == total + 1
  <2>1. c \in Chk /\ c \notin 1..total /\ total' \in total..MaxChk /\ c <= total' /\ c > total
    BY <1>1, <1>3, BoundAssumption DEF Chk
  <2>2. used' = Append(used, c)
    BY <1>3, Zenon DEF PushPartial
  <2>3. PushPartial(w, c) /\ UNCHANGED free
    BY <1>3, Zenon
  <2>4. UNCHANGED lock
    <3>1. lock[c] = NoWorker /\ lock \in [Chk -> Worker \cup {NoWorker}]
      BY <1>1, <2>1, Zenon DEF FreeInv, TypeOK
    <3>2. QED  BY <1>3, <3>1, Zenon
  <2>5. has' \in [Chk -> SUBSET (Worker \X Label)] /\ \A d \in Chk \ {c} : has'[d] = has[d]
    BY <1>1, <1>3, Zenon DEF TypeOK
  <2>6. 1..total' = 1..total \cup {c}
    BY <1>1, <1>3
  <2> HIDE DEF c
  <2>7. c \notin Range(used) /\ c \notin Range(free)
    BY <1>1, <2>1, Zenon
  <2>8. Range(used') = Range(used) \cup {c} /\ IsInjective(used')
    BY <1>1, <2>1, <2>2, <2>7, AppendFacts, Zenon DEF ListsPartition
  <2>9. ListsPartition'
    BY <1>1, <2>3, <2>6, <2>7, <2>8, Zenon DEF ListsPartition
  <2>10. Obtains(c)
    BY <1>1, <2>1, <2>3, <2>4, <2>5, <2>9, Zenon DEF Obtains
  <2>11. QED  BY <2>1, <2>3, <2>7, <2>10, PushStep, Zenon
<1>4. CASE pc' = [pc EXCEPT ![w] = "stall"] /\ UNCHANGED <<mgr, objs, cur>>
  <2>1. TypeOK'
    BY <1>1, <1>4, Zenon DEF TypeOK, mgr, objs, Done
  <2>2. OthersSame(w) /\ WorkerOK(w)' /\ pc[w] \notin Done
    BY <1>1, <1>4, Zenon DEF TypeOK, OthersSame, WorkerOK, GivenOK, mgr, objs, Done,
       PreFill, FillOK, AlphaOK, CommitOK, LockOK, Committing, Reading, Holding
  <2>3. QED  BY <1>4, <2>1, <2>2, LocalStep, Zenon
<1>5. QED  BY <1>2, <1>3, <1>4, Zenon DEF alloc_checkpoint, Go

LEMMA GetSteps ==
  ASSUME Counting, IInv, NEW w \in Worker, get_checkpoint_for_iter(w) \/ alloc_retry(w)
  PROVE  IInv'
<1>1. CASE get_checkpoint_for_iter(w) /\ Match(w) = {} /\ alloc_checkpoint(w)
  BY <1>1, AllocStep, Zenon DEF get_checkpoint_for_iter
<1>2. CASE alloc_retry(w)
  BY <1>2, AllocStep, Zenon DEF alloc_retry
<1>3. ASSUME get_checkpoint_for_iter(w), NEW i \in Match(w),
             cur' = [cur EXCEPT ![w] = used[i]], Go(w, "lock"), UNCHANGED <<mgr, objs>>
      PROVE  IInv'
  <2> USE DEF pcb, mainSt, region, mgr, objs
  <2>1. /\ TypeOK /\ ListsPartition /\ CountInv /\ GivenInv /\ WorkerOK(w) /\ total \in Nat
        /\ 1..total \subseteq Chk /\ Range(used) \subseteq 1..total
        /\ pc[w] = "get" /\ pc' = [pc EXCEPT ![w] = "lock"]
    BY <1>3, UsedFacts, Zenon DEF IInv, get_checkpoint_for_iter, Go
  <2>2. used[i] \in Range(used) /\ used[i] \in Chk /\ iteration[used[i]] = eff[w]
    BY <1>3, <2>1, Zenon DEF Match, Range
  <2>3. TypeOK'
    <3>1. used[i] \in 0..MaxChk
      BY <2>2, BoundAssumption DEF Chk
    <3>2. QED  BY <1>3, <2>1, <3>1, Zenon DEF TypeOK, Done, get_checkpoint_for_iter
  <2>4. type[used[i]] = "Partial"
    <3>1. eff[w] \notin given[w]
      BY <2>1, ZenonT(40) DEF WorkerOK, GivenOK, PreFill
    <3>2. w \notin Filled(used[i])
      BY <2>1, <2>2, <3>1, Zenon DEF GivenInv
    <3>3. QED  BY <2>1, <2>2, <3>2, Zenon DEF CountInv
  <2>5. pc'[w] = "lock" /\ cur'[w] = used[i]
    BY <1>3, <2>1, Zenon DEF TypeOK
  <2>6. WorkerOK(w)'
    BY <1>3, <2>1, <2>2, <2>4, <2>5, Zenon DEF get_checkpoint_for_iter, WorkerOK, GivenOK,
       PreFill, FillOK, AlphaOK, CommitOK, LockOK, Committing, Reading, Holding
  <2>7. OthersSame(w) /\ pc[w] \notin Done
    BY <1>3, <2>1, Zenon DEF get_checkpoint_for_iter, TypeOK, OthersSame, Done
  <2>8. QED  BY <1>3, <2>3, <2>6, <2>7, LocalStep, Zenon DEF get_checkpoint_for_iter
<1>4. QED  BY <1>1, <1>2, <1>3, Zenon DEF get_checkpoint_for_iter

LEMMA FillStep ==
  ASSUME Counting, IInv, NEW w \in Worker, perform_checkpoint_locked(w)
  PROVE  IInv'
<1> USE DEF mgr, pcb, mainSt, region, Go
<1> DEFINE c == cur[w]
<1>1. /\ TypeOK /\ ListsPartition /\ FreeInv /\ CountInv /\ GivenInv /\ WorkerOK(w)
      /\ total \in Nat /\ 1..total \subseteq Chk /\ Range(used) \subseteq 1..total
      /\ pc[w] = "fill" /\ pc[w] \notin Done
  BY UsedFacts, Zenon DEF IInv, perform_checkpoint_locked, Done
<1>2. /\ c \in Range(used) /\ c \in Chk /\ type[c] = "Partial" /\ iteration[c] = eff[w]
      /\ lock[c] = w /\ eff[w] \notin given[w] /\ eff[w] \in {LastIteration, currentIter[w]}
      /\ given[w] \subseteq 0..currentIter[w]
  BY <1>1, Zenon DEF WorkerOK, FillOK, LockOK, GivenOK, PreFill
<1>3. /\ has' = [has EXCEPT ![c] = (IF num_workers[c] = 0 THEN {} ELSE @) \cup {<<w, eff[w]>>}]
      /\ num_workers' = [num_workers EXCEPT ![c] = @ + 1]
      /\ type' = [type EXCEPT ![c] = IF num_workers[c] + 1 = Cardinality(Worker)
                                     THEN "Complete" ELSE @]
      /\ lock' = [lock EXCEPT ![c] = NoWorker]
      /\ given' = [given EXCEPT ![w] = @ \cup {eff[w]}]
      /\ ret' = [ret EXCEPT ![w] = "done"]
      /\ pc' = [pc EXCEPT ![w] = "first"]
      /\ UNCHANGED <<mgr, iteration, pcb, currentIter, eff, cur, alpha, beta, mainSt, output>>
  BY Zenon DEF perform_checkpoint_locked, ClearsHeaps, Completes
<1> HIDE DEF c
<1>4. w \notin Filled(c)
  BY <1>1, <1>2, Zenon DEF GivenInv
<1>5. Filled(c)' = Filled(c) \cup {w}
  <2>1. num_workers'[c] = num_workers[c] + 1 /\ num_workers[c] \in Nat
    BY <1>1, <1>2, <1>3, Zenon DEF TypeOK
  <2>2. \A n \in Nat : n + 1 # 0
    OBVIOUS
  <2>3. num_workers'[c] # 0
    BY <2>1, <2>2, Zenon
  <2>4. has'[c] = (IF num_workers[c] = 0 THEN {} ELSE has[c]) \cup {<<w, iteration[c]>>}
        /\ iteration' = iteration /\ c' = c
    BY <1>1, <1>2, <1>3, Zenon DEF TypeOK, c
  <2>5. QED  BY <2>3, <2>4, Zenon DEF Filled
<1>6. ASSUME NEW d \in Chk, d # c
      PROVE  /\ Filled(d)' = Filled(d) /\ type'[d] = type[d] /\ lock'[d] = lock[d]
             /\ num_workers'[d] = num_workers[d]
  BY <1>1, <1>3, <1>6, Zenon DEF TypeOK, Filled
<1>7. num_workers'[c] = Cardinality(Filled(c) \cup {w}) /\ num_workers[c] + 1 = num_workers'[c]
  <2>1. Filled(c) \in SUBSET Worker
    BY Zenon DEF Filled
  <2>2. Cardinality(Filled(c) \cup {w}) = Cardinality(Filled(c)) + 1
    BY <1>4, <2>1, Zenon DEF Counting
  <2>3. QED  BY <1>1, <1>2, <1>3, <2>2, Zenon DEF CountInv, TypeOK
<1>8. type'[c] = IF Filled(c) \cup {w} = Worker THEN "Complete" ELSE "Partial"
  <2>1. Filled(c) \cup {w} \in SUBSET Worker
    BY Zenon DEF Filled
  <2>2. Cardinality(Filled(c) \cup {w}) = Cardinality(Worker) <=> Filled(c) \cup {w} = Worker
    BY <2>1, Zenon DEF Counting
  <2>3. QED  BY <1>1, <1>2, <1>3, <1>7, <2>2, Zenon DEF TypeOK
<1>9. TypeOK'
  <2>1. num_workers' \in [Chk -> Nat] /\ type' \in [Chk -> Life]
    <3>1. num_workers[c] + 1 \in Nat
      BY <1>1, <1>2 DEF TypeOK
    <3>2. num_workers' \in [Chk -> Nat]
      BY <1>1, <1>3, <3>1, Zenon DEF TypeOK
    <3>3. type' \in [Chk -> Life]
      BY <1>1, <1>2, <1>3, Zenon DEF TypeOK, Life
    <3>4. QED  BY <3>2, <3>3, Zenon
  <2>2. has' \in [Chk -> SUBSET (Worker \X Label)] /\ given' \in [Worker -> SUBSET Label]
    <3>1. eff[w] \in Label
      BY <1>1, Zenon DEF TypeOK
    <3>2. (IF num_workers[c] = 0 THEN {} ELSE has[c]) \cup {<<w, eff[w]>>}
            \in SUBSET (Worker \X Label)
      BY <1>1, <1>2, <3>1 DEF TypeOK
    <3>3. has' \in [Chk -> SUBSET (Worker \X Label)]
      BY <1>1, <1>3, <3>2, Zenon DEF TypeOK
    <3>4. given' \in [Worker -> SUBSET Label]
      BY <1>1, <1>3, <3>1, Zenon DEF TypeOK
    <3>5. QED  BY <3>3, <3>4, Zenon
  <2>3. QED  BY <1>1, <1>2, <1>3, <2>1, <2>2, Zenon DEF TypeOK
<1>10. ListsPartition' /\ FreeInv'
  <2>1. c <= total
    <3>1. c \in 1..total
      BY <1>1, <1>2, Zenon
    <3>2. QED  BY <3>1
  <2>2. ListsPartition'
    BY <1>1, <1>3, Zenon DEF ListsPartition
  <2>3. \A d \in Chk : d > total => d # c
    BY <1>1, <2>1 DEF Chk
  <2>4. \A d \in Chk : d # c => type'[d] = type[d] /\ lock'[d] = lock[d]
    BY <1>6, Zenon
  <2>5. FreeInv'
    BY <1>1, <1>2, <1>3, <2>3, <2>4, ZenonT(40) DEF FreeInv
  <2>6. QED  BY <2>2, <2>5, Zenon
<1>11. CountInv'
  <2>1. ASSUME NEW d \in Range(used)
        PROVE  /\ iteration'[d] \in Label /\ num_workers'[d] = Cardinality(Filled(d)')
               /\ type'[d] = "Partial" <=> Filled(d)' # Worker
    <3>1. CASE d = c
      <4>1. Filled(d)' = Filled(c) \cup {w}
        BY <1>3, <1>5, <3>1, Zenon DEF c
      <4>2. iteration'[d] \in Label
        BY <1>1, <1>2, <1>3, <3>1, Zenon DEF CountInv
      <4>3. QED  BY <1>7, <1>8, <3>1, <4>1, <4>2, Zenon
    <3>2. CASE d # c
      BY <1>1, <1>3, <1>6, <2>1, <3>2, Zenon DEF CountInv
    <3>3. QED  BY <3>1, <3>2, Zenon
  <2>2. QED  BY <1>3, <2>1, Zenon DEF CountInv
<1>12. GivenInv'
  <2>1. ASSUME NEW d \in Range(used), NEW v \in Filled(d)' PROVE iteration'[d] \in given'[v]
    <3>1. v \in Worker /\ \A u \in Worker : given[u] \subseteq given'[u]
      BY <1>1, <1>3, <2>1, Zenon DEF Filled, TypeOK
    <3>2. v \in Filled(d) \/ (d = c /\ v = w)
      <4>1. CASE d = c
        <5>1. Filled(d)' = Filled(c) \cup {w}
          BY <1>3, <1>5, <4>1, Zenon DEF c
        <5>2. QED  BY <2>1, <4>1, <5>1, Zenon
      <4>2. CASE d # c
        BY <1>1, <1>6, <2>1, <4>2, Zenon
      <4>3. QED  BY <4>1, <4>2, Zenon
    <3>3. iteration[c] \in given'[w]
      BY <1>1, <1>2, <1>3, Zenon DEF TypeOK
    <3>4. QED  BY <1>1, <1>3, <2>1, <3>1, <3>2, <3>3, ZenonT(40) DEF GivenInv
  <2>2. QED  BY <1>3, <2>1, Zenon DEF GivenInv
<1>13. MainInv'
  BY <1>1, <1>3, AtJoin, Zenon DEF MainInv
<1>14. WorkerOK(w)'
  <2>1. pc'[w] = "first" /\ ret'[w] = "done" /\ given'[w] = given[w] \cup {eff[w]}
    BY <1>1, <1>3, Zenon DEF TypeOK
  <2>2. GivenOK(w)'
    <3>1. eff[w] # LastIteration => given'[w] \subseteq 0..currentIter[w]
      <4>1. currentIter[w] \in Nat
        BY <1>1, IterAssumption DEF TypeOK, Iter
      <4>2. currentIter[w] \in 0..currentIter[w]
        BY <4>1
      <4>3. QED  BY <1>2, <2>1, <4>2, Zenon
    <3>2. QED
      BY <1>3, <2>1, <3>1, Zenon DEF GivenOK, PreFill, Committing, Reading, Holding
  <2>3. QED  BY <2>1, <2>2, Zenon DEF WorkerOK, FillOK, AlphaOK, CommitOK, LockOK, Reading, Holding
<1>15. ASSUME NEW v \in Worker, v # w PROVE WorkerOK(v)'
  <2>1. WorkerOK(v) /\ pc'[v] = pc[v] /\ given'[v] = given[v] /\ ret'[v] = ret[v]
        /\ v # NoWorker
    BY <1>1, <1>3, <1>15, WorkerAssumption, Zenon DEF IInv, TypeOK
  <2>2. GivenOK(v)'
    BY <1>3, <2>1, Zenon DEF WorkerOK, GivenOK, PreFill
  <2>3. FillOK(v)'
    <3>1. ASSUME pc[v] \in {"lock", "fill"} PROVE type'[cur[v]] = "Partial"
      <4>1. /\ cur[v] \in Range(used) /\ type[cur[v]] = "Partial"
            /\ iteration[cur[v]] = eff[v] /\ eff[v] \notin given[v]
        BY <2>1, <3>1, Zenon DEF WorkerOK, FillOK, GivenOK, PreFill
      <4>2. v \notin Filled(cur[v])
        BY <1>1, <4>1, Zenon DEF GivenInv
      <4>3. CASE cur[v] = c
        BY <1>8, <1>15, <4>2, <4>3, Zenon
      <4>4. CASE cur[v] # c
        BY <1>1, <1>6, <4>1, <4>4, Zenon
      <4>5. QED  BY <4>3, <4>4, Zenon
    <3>2. QED  BY <1>3, <2>1, <3>1, Zenon DEF WorkerOK, FillOK
  <2>4. AlphaOK(v)'
    <3>1. ASSUME pc[v] \in Reading, type[alpha[v]] = "Partial", v \notin Filled(alpha[v])
          PROVE  type'[alpha[v]] = "Partial" /\ v \notin Filled(alpha[v])'
      <4>1. alpha[v] \in Chk /\ alpha' = alpha
        BY <1>1, <1>3, <2>1, <3>1, Zenon DEF WorkerOK, AlphaOK
      <4>2. CASE alpha[v] = c
        <5>1. Filled(alpha[v])' = Filled(c) \cup {w}
          BY <1>3, <1>5, <4>1, <4>2, ZenonT(40) DEF c
        <5>2. QED  BY <1>8, <1>15, <3>1, <4>2, <5>1, Zenon
      <4>3. CASE alpha[v] # c
        <5>1. \A d \in Chk : d # c => Filled(d)' = Filled(d) /\ type'[d] = type[d]
          BY <1>6, Zenon
        <5>2. Filled(alpha[v])' = Filled(alpha[v])
          BY <4>1, <4>3, <5>1, ZenonT(40) DEF Filled
        <5>3. QED  BY <3>1, <4>1, <4>3, <5>1, <5>2, Zenon
      <4>4. QED  BY <4>2, <4>3, Zenon
    <3>2. ASSUME pc[v] \in Reading, type[alpha[v]] = "Free" PROVE type'[alpha[v]] = "Free"
      <4>1. alpha[v] \in Chk
        BY <1>1, <2>1, <3>2, Zenon DEF WorkerOK, AlphaOK
      <4>2. QED  BY <1>2, <1>6, <3>2, <4>1, Zenon
    <3>3. first(used)' = first(used)
      BY <1>3, Zenon DEF first, list_empty
    <3>4. QED  BY <1>3, <2>1, <3>1, <3>2, <3>3, Zenon DEF WorkerOK, AlphaOK
  <2>5. LockOK(v)'
    <3>1. \A d \in Chk : lock[d] = v => lock'[d] = v
      BY <1>2, <1>6, <1>15, ZenonT(40)
    <3>2. pc[v] = "fill" => cur[v] \in Chk
      BY <1>1, <2>1, Zenon DEF WorkerOK, FillOK
    <3>3. pc[v] = "lockBeta" => alpha[v] \in Chk
      BY <1>1, <2>1, Zenon DEF WorkerOK, AlphaOK, Reading
    <3>4. QED  BY <1>1, <1>3, <2>1, <3>1, <3>2, <3>3, Zenon DEF WorkerOK, LockOK
  <2>6. CommitOK(v)'
    <3>1. ASSUME pc[v] \in Holding PROVE type'[alpha[v]] = "Free" /\ type'[beta[v]] = "Complete"
      <4>1. alpha[v] \in Chk /\ beta[v] \in Chk
            /\ type[alpha[v]] = "Free" /\ type[beta[v]] = "Complete"
        BY <1>1, <2>1, <3>1, Zenon DEF WorkerOK, CommitOK, LockOK
      <4>2. QED  BY <1>2, <1>6, <4>1, Zenon
    <3>2. QED  BY <1>3, <2>1, <3>1, Zenon DEF WorkerOK, CommitOK
  <2>7. QED  BY <2>2, <2>3, <2>4, <2>5, <2>6, Zenon DEF WorkerOK
<1>16. QED
  BY <1>9, <1>10, <1>11, <1>12, <1>13, <1>14, <1>15, Zenon DEF IInv

\* Recycling the front of the list, whatever happens to its type.
LEMMA RecycleLists ==
  ASSUME TypeOK, ListsPartition, used # <<>>, Recycle(used[1]), UNCHANGED total
  PROVE  /\ ListsPartition' /\ used' \in Seq(Chk) /\ free' \in Seq(Chk)
         /\ Range(used') = Range(used) \ {used[1]} /\ used[1] \in Range(used)
<1>1. used \in Seq(Chk) /\ free \in Seq(Chk) /\ IsInjective(used) /\ Head(used) = used[1]
      /\ used' = Tail(used) /\ free' = Append(free, used[1])
  BY UsedFacts, Zenon DEF TypeOK, ListsPartition, Recycle
<1>2. /\ used' \in Seq(Chk) /\ used[1] \in Chk /\ used[1] \in Range(used)
      /\ Range(used') = Range(used) \ {used[1]} /\ IsInjective(used')
  BY <1>1, TailFacts
<1>3. used[1] \notin Range(free) /\ IsInjective(free)
  BY <1>2, Zenon DEF ListsPartition
<1>4. free' \in Seq(Chk) /\ Range(free') = Range(free) \cup {used[1]} /\ IsInjective(free')
  <2>1. free \in Seq(Chk) /\ used[1] \in Chk
    BY <1>1, <1>2, Zenon
  <2>2. QED  BY <1>1, <1>3, <2>1, AppendFacts
<1>5. ListsPartition'
  BY <1>2, <1>4, Zenon DEF ListsPartition
<1>6. QED  BY <1>2, <1>4, <1>5, Zenon

LEMMA PopStep ==
  ASSUME IInv, NEW w \in Worker, commit_pop(w)
  PROVE  IInv'
<1> USE DEF objs, pcb, locals, mainSt, region, Go
<1>1. /\ TypeOK /\ ListsPartition /\ FreeInv /\ CountInv /\ GivenInv /\ WorkerOK(w)
      /\ total \in Nat /\ 1..total \subseteq Chk /\ Range(used) \subseteq 1..total
      /\ pc[w] = "pop" /\ pc[w] \notin Done
  BY UsedFacts, Zenon DEF IInv, commit_pop, Done
<1>2. /\ Len(used) > 1 /\ used[1] = alpha[w] /\ type[alpha[w]] = "Free"
      /\ alpha[w] \in 1..total /\ lock[alpha[w]] = w
  BY <1>1, Zenon DEF WorkerOK, CommitOK, LockOK, Holding
<1>3. used # <<>> /\ first(used) = alpha[w]
  <2>1. Len(used) \in Nat
    BY <1>1 DEF TypeOK
  <2>2. QED  BY <1>1, <1>2, <2>1, UsedFacts
<1>4. /\ Recycle(used[1]) /\ pc' = [pc EXCEPT ![w] = "unlock"]
      /\ UNCHANGED <<total, objs, pcb, currentIter, locals, mainSt, output>>
  BY <1>2, Zenon DEF commit_pop
<1>5. /\ ListsPartition' /\ used' \in Seq(Chk) /\ free' \in Seq(Chk)
      /\ Range(used') = Range(used) \ {alpha[w]}
  BY <1>1, <1>2, <1>3, <1>4, RecycleLists, Zenon
<1>6. TypeOK'
  BY <1>1, <1>4, <1>5, Zenon DEF TypeOK
<1>7. \A c \in Chk : Filled(c)' = Filled(c)
  BY <1>4, Zenon DEF Filled
<1>8. FreeInv' /\ CountInv' /\ GivenInv'
  <2>1. FreeInv'
    BY <1>1, <1>2, <1>4, <1>5, <1>7, Zenon DEF FreeInv
  <2>2. CountInv'
    BY <1>1, <1>4, <1>5, <1>7, Zenon DEF CountInv
  <2>3. GivenInv'
    BY <1>1, <1>4, <1>5, <1>7, Zenon DEF GivenInv
  <2>4. QED  BY <2>1, <2>2, <2>3, Zenon
<1>9. MainInv'
  BY <1>1, <1>4, AtJoin, Zenon DEF MainInv
<1>10. WorkerOK(w)'
  BY <1>1, <1>4, Zenon DEF TypeOK, WorkerOK, GivenOK, PreFill, FillOK, AlphaOK, CommitOK, LockOK,
     Committing, Reading, Holding
<1>11. ASSUME NEW v \in Worker, v # w PROVE WorkerOK(v)'
  <2>1. WorkerOK(v) /\ pc'[v] = pc[v]
    BY <1>1, <1>4, <1>11, Zenon DEF IInv, TypeOK
  <2>2. GivenOK(v)' /\ LockOK(v)'
    BY <1>4, <2>1, Zenon DEF WorkerOK, GivenOK, PreFill, LockOK
  <2>3. FillOK(v)'
    BY <1>2, <1>4, <1>5, <2>1, Zenon DEF WorkerOK, FillOK
  <2>4. pc[v] \notin Holding
    BY <1>2, <1>11, <2>1, Zenon DEF WorkerOK, CommitOK, LockOK
  <2>5. AlphaOK(v)'
    BY <1>1, <1>2, <1>3, <1>4, <1>7, <2>1, Zenon DEF WorkerOK, AlphaOK
  <2>6. QED  BY <2>1, <2>2, <2>3, <2>4, <2>5, Zenon DEF WorkerOK, CommitOK
<1>12. QED  BY <1>5, <1>6, <1>8, <1>9, <1>10, <1>11, Zenon DEF IInv

-------------------------------------------------------------------------------
(* The invariant of a region *)

\* After a stall, alloc_checkpoint gives no object to an iteration that has
\* got one meanwhile: what a second search of the list would make sure of.
SearchedAgain == \A w \in Worker : alloc_retry(w) => Match(w) = {}

UpTo(l)   == {k \in Labels : k <= l}
Before(l) == {k \in Labels : k < l}

\* The label of the checkpoint at place i of the list.
At(i) == iteration[used[i]]

\* The labels whose checkpoint is in use, or has been.
Known == Range(output) \cup {iteration[c] : c \in Range(used)}

\* A worker contributes to the checkpoints of the region one by one.
LabelOK(w) ==
  /\ eff[w] \in Labels
  /\ eff[w] = currentIter[w] \/ (eff[w] = LastIteration /\ currentIter[w] = endIter)

TurnOK(w) ==
  /\ currentIter[w] \in firstIter..endIter /\ given[w] \subseteq Labels
  /\ pc[w] = "run" => given[w] = UpTo(currentIter[w])
  /\ PreFill(w) => LabelOK(w) /\ given[w] = Before(eff[w])
  /\ pc[w] \in Committing /\ ret[w] = "done" => LabelOK(w) /\ given[w] = UpTo(eff[w])
  /\ pc[w] = "finished" => given[w] = Labels
  /\ pc[w] \in {"dead", "left"} => misspec

\* A worker has performed the output of the front checkpoint but not yet
\* taken it off the list.
Popping == \E w \in Worker : pc[w] = "pop"

\* The checkpoints in use follow each other, and the output, without gaps.
OrderInv ==
  /\ \A i \in DOMAIN used : At(i) \in Labels
  /\ UsedOrdered
  /\ \A l \in Range(output) : l \in Labels /\ \A w \in Worker : l \in given[w]
  /\ \A l \in Range(output), i \in DOMAIN used :
       l < At(i) \/ (i = 1 /\ l = At(1) /\ Popping)
  /\ Popping => used # <<>> /\ At(1) \in Range(output)
  /\ mainPc \in {"join", "adopt"} => \A l \in Known : Before(l) \subseteq Known
  /\ mainPc = "join" => /\ \A w \in Worker : given[w] \subseteq Known
                        /\ output # <<>> => used # <<>> /\ type[used[1]] # "Partial"
  /\ OutputInOrder

\* Whoever has contributed to a label is in the heaps of its checkpoint.
FilledInv ==
  /\ \A c \in Range(used) : \A w \in Worker : iteration[c] \in given[w] => w \in Filled(c)
  /\ \A c \in Range(used) : type[c] \in {"Free", "Broken"} =>
       misspec \/ \E w \in Worker : pc[w] \in Holding /\ alpha[w] = c

Own(c)   == Filled(c) \X {iteration[c]}
All(c)   == Own(c) \cup (Worker \X Before(iteration[c]))

\* The heaps of a checkpoint hold the contributions to it and, if it is the
\* first, everything before; main's heaps are part of that.
HeapInv == mainPc \in {"join", "adopt"} =>
  \A i \in DOMAIN used : \A c \in Range(used) : c = used[i] /\ num_workers[c] > 0 =>
    /\ i = 1 => adopted \cup has[c] = All(c)
    /\ i = 2 /\ Popping => has[c] = All(c)
    /\ i > 1 /\ ~(i = 2 /\ Popping) => has[c] = Own(c)

\* A failed combination has left the front of the list unusable.
Blocked == used # <<>> /\ type[used[1]] = "Free" /\ \A w \in Worker : pc[w] \notin Holding

\* A worker gave up at the misspeculated iteration, or a combination failed.
FailInv == misspec =>
  /\ mainPc \in {"join", "adopt"} =>
       /\ firstIter <= misspecIter
       /\ Blocked \/ \E w \in Worker : pc[w] = "dead" /\ \A l \in given[w] : l <= misspecIter
  /\ mainPc \in {"adopt", "squash", "idle"} => mainIter <= misspecIter

JoinInv ==
  /\ AdoptedPrefix
  /\ mainPc = "join" => adopted = {} /\ mainIter < firstIter
  /\ mainPc = "adopt" /\ ~misspec =>
       \/ Len(used) = 1 /\ type[used[1]] = "Complete" /\ At(1) = LastIteration
       \/ used = <<>> /\ adopted = Worker \X Labels
  /\ mainPc = "squash" => misspec
  /\ RegionComplete

RInv == /\ firstIter <= endIter
        /\ \A w \in Worker : TurnOK(w)
        /\ OrderInv /\ FilledInv /\ HeapInv /\ FailInv /\ JoinInv

-------------------------------------------------------------------------------
(* Labels and workers *)

LEMMA LabelFacts ==
  ASSUME TypeOK
  PROVE  /\ Labels \subseteq Label /\ Label \subseteq Int /\ LastIteration \in Labels
         /\ firstIter \in Int /\ endIter \in Int /\ endIter < LastIteration
         /\ \A l \in Labels : l = LastIteration \/ (firstIter < l /\ l <= endIter)
         /\ \A i \in Iter : i \in Labels <=> firstIter < i /\ i <= endIter /\ IsCheckpointed(i)
<1>1. firstIter \in Iter /\ endIter \in Iter /\ Iter \subseteq Int /\ LastIteration \in Int
      /\ LastIteration \notin Iter /\ \A i \in Iter : i < LastIteration
  BY IterAssumption DEF TypeOK, Iter
<1> HIDE DEF Iter
<1>2. QED  BY <1>1, Zenon DEF Labels, Label

LEMMA UpToFacts ==
  ASSUME TypeOK
  PROVE  /\ UpTo(LastIteration) = Labels
         /\ Before(LastIteration) = UpTo(endIter)
         /\ UpTo(firstIter) = {}
         /\ \A l \in Labels : UpTo(l) = Before(l) \cup {l} /\ l \notin Before(l)
<1>1. /\ Labels \subseteq Int /\ LastIteration \in Labels
      /\ firstIter \in Int /\ endIter \in Int /\ endIter < LastIteration
      /\ \A l \in Labels : l = LastIteration \/ (firstIter < l /\ l <= endIter)
  BY LabelFacts, Zenon
<1>2. firstIter < LastIteration
  BY IterAssumption DEF TypeOK, Iter
<1> HIDE DEF Labels
<1>3. \A l \in Labels : l <= LastIteration /\ ~(l <= firstIter) /\ (l < LastIteration <=> l <= endIter)
  BY <1>1, <1>2
<1>4. ASSUME NEW l \in Labels PROVE UpTo(l) = Before(l) \cup {l} /\ l \notin Before(l)
  <2>1. \A k \in Labels : k <= l <=> k < l \/ k = l
    BY <1>1
  <2>2. ~(l < l)
    BY <1>1
  <2>3. QED  BY <2>1, <2>2, Zenon DEF UpTo, Before
<1>5. UpTo(LastIteration) = Labels /\ UpTo(firstIter) = {} /\ Before(LastIteration) = UpTo(endIter)
  BY <1>3, Zenon DEF UpTo, Before
<1>6. QED  BY <1>4, <1>5, Zenon

\* The order depends on the lists, their labels and the output only.
LEMMA OutputSame ==
  ASSUME OutputInOrder, output' = output, Labels' = Labels
  PROVE  OutputInOrder'
BY DEF OutputInOrder

LEMMA UsedSame ==
  ASSUME UsedOrdered, used' = used, iteration' = iteration
  PROVE  UsedOrdered'
BY DEF UsedOrdered

LEMMA KnownSame ==
  ASSUME output' = output, used' = used, iteration' = iteration
  PROVE  Known' = Known
BY DEF Known

\* What a step of worker w leaves alone.
LEMMA TurnOthers ==
  ASSUME NEW w \in Worker, OthersSame(w), Labels' = Labels, UNCHANGED region,
         misspec => misspec', \A v \in Worker : TurnOK(v), TurnOK(w)'
  PROVE  \A v \in Worker : TurnOK(v)'
<1> SUFFICES ASSUME NEW v \in Worker, v # w PROVE TurnOK(v)'
  BY Zenon
<1>1. /\ pc'[v] = pc[v] /\ currentIter'[v] = currentIter[v] /\ eff'[v] = eff[v]
      /\ ret'[v] = ret[v] /\ given'[v] = given[v]
  BY Zenon DEF OthersSame
<1>2. PreFill(v)' = PreFill(v)
  BY <1>1, Zenon DEF PreFill
<1>3. TurnOK(v) /\ UNCHANGED <<firstIter, endIter>>
  BY Zenon DEF region
<1> HIDE DEF Labels, PreFill, Committing
<1>4. LabelOK(v)' = LabelOK(v) /\ UpTo(eff[v])' = UpTo(eff[v]) /\ Before(eff[v])' = Before(eff[v])
      /\ UpTo(currentIter[v])' = UpTo(currentIter[v])
  BY <1>1, <1>3, Zenon DEF LabelOK, UpTo, Before
<1>5. QED  BY <1>1, <1>2, <1>3, <1>4, Zenon DEF TurnOK

\* Everything the invariant speaks of beside the workers' own state and the
\* misspeculation flag.
shared == <<used, type, iteration, num_workers, has, given, output, mainSt>>

\* A worker that neither enters nor leaves a combination, and changes nothing
\* but its own state and the flag.
LEMMA LocalRegion ==
  ASSUME IInv, RInv, NEW w \in Worker, pc[w] \notin Done \cup Holding, pc'[w] \notin Holding,
         OthersSame(w), UNCHANGED shared, misspec => misspec', TurnOK(w)', FailInv'
  PROVE  RInv'
<1>0. UNCHANGED <<used, type, iteration, num_workers, has, given, output,
                  mainPc, firstIter, endIter, mainIter, adopted>>
  BY Zenon DEF shared, mainSt, region
<1>1. /\ Labels' = Labels /\ \A c : Filled(c)' = Filled(c)
      /\ \A l : UpTo(l)' = UpTo(l) /\ Before(l)' = Before(l)
  BY <1>0, Zenon DEF Labels, Filled, UpTo, Before, IsCheckpointed
<1>2. \A v \in Worker : TurnOK(v)'
  BY <1>0, <1>1, TurnOthers, Zenon DEF RInv, region
<1>3. /\ \A v \in Worker : pc'[v] \in Holding <=> pc[v] \in Holding
      /\ \A v \in Worker : pc[v] \in Holding => pc'[v] = pc[v] /\ alpha'[v] = alpha[v]
      /\ Popping' <=> Popping
  BY Zenon DEF OthersSame, Holding, Popping, Done
<1>4. mainPc = "join"
  BY AtJoin, Zenon
<1> HIDE DEF Labels, UpTo, Before, Filled
<1>5. OrderInv'
  <2>1. OutputInOrder' /\ UsedOrdered' /\ Known' = Known
    BY <1>0, <1>1, OutputSame, UsedSame, KnownSame, Zenon DEF RInv, OrderInv
  <2>2. QED  BY <1>0, <1>1, <1>3, <2>1, Zenon DEF RInv, OrderInv, At
<1>6. FilledInv'
  BY <1>0, <1>1, <1>3 DEF RInv, FilledInv
<1>7. HeapInv'
  BY <1>0, <1>1, <1>3 DEF RInv, HeapInv, All, Own
<1>8. JoinInv'
  BY <1>0, <1>1, <1>4, Zenon DEF RInv, JoinInv, AdoptedPrefix, RegionComplete
<1>9. QED  BY <1>0, <1>2, <1>5, <1>6, <1>7, <1>8, Zenon DEF RInv

\* The same, if it does not set the flag either.
LEMMA QuietStep ==
  ASSUME IInv, RInv, NEW w \in Worker, pc[w] \notin Done \cup Holding, pc'[w] \notin Holding,
         OthersSame(w), UNCHANGED <<shared, pcb>>, TurnOK(w)'
  PROVE  RInv'
<1>1. UNCHANGED <<used, type, misspec, misspecIter, given, mainPc, firstIter, mainIter>>
  BY Zenon DEF shared, pcb, mainSt, region
<1>2. /\ \A v \in Worker : pc'[v] \in Holding <=> pc[v] \in Holding
      /\ \A v \in Worker : pc[v] = "dead" => pc'[v] = "dead"
  BY Zenon DEF OthersSame, Done
<1>3. FailInv'
  BY <1>1, <1>2, Zenon DEF RInv, FailInv, Blocked
<1>4. QED  BY <1>1, <1>3, LocalRegion, Zenon

\* The same, if it misspeculates in its current iteration: it has contributed
\* to no later checkpoint.
LEMMA DieStep ==
  ASSUME IInv, RInv, NEW w \in Worker, pc[w] \in {"run", "ckpt", "stall"},
         misspec_at(w, currentIter[w]), OthersSame(w), UNCHANGED shared,
         currentIter'[w] = currentIter[w]
  PROVE  RInv'
<1>1. /\ TypeOK /\ TurnOK(w) /\ GivenOK(w) /\ currentIter[w] \in firstIter..endIter
      /\ firstIter \in Int /\ endIter \in Int
  BY LabelFacts, Zenon DEF IInv, WorkerOK, RInv, TurnOK
<1>2. UNCHANGED <<given, mainPc, firstIter, endIter>>
  BY Zenon DEF shared, mainSt, region
<1>3. pc'[w] = "dead" /\ misspec' = TRUE /\ misspecIter' = currentIter[w]
  BY <1>1, Zenon DEF misspec_at, Go, TypeOK
<1>4. \A l \in given[w] : l <= currentIter[w]
  BY <1>1 DEF GivenOK, PreFill
<1>5. TurnOK(w)'
  <2>1. Labels' = Labels
    BY <1>2, Zenon DEF Labels, IsCheckpointed
  <2> HIDE DEF Labels
  <2>2. QED
    BY <1>1, <1>2, <1>3, <2>1, Zenon DEF TurnOK, PreFill, Committing, Reading, Holding
<1>6. mainPc = "join" /\ FailInv'
  <2>1. mainPc = "join"
    BY AtJoin, Zenon DEF Done
  <2>2. firstIter <= currentIter[w]
    BY <1>1
  <2>3. QED  BY <1>2, <1>3, <1>4, <2>1, <2>2, Zenon DEF FailInv
<1>7. QED  BY <1>3, <1>5, <1>6, LocalRegion, Zenon DEF Done, Holding

-------------------------------------------------------------------------------
(* Steps of a worker that change nothing but its own state *)

\* A worker on its way to or from its contribution keeps its turn.
LEMMA KeepTurn ==
  ASSUME IInv, RInv, NEW w \in Worker, UNCHANGED region,
         currentIter'[w] = currentIter[w], eff'[w] = eff[w], given'[w] = given[w],
         \/ PreFill(w) /\ PreFill(w)'
         \/ /\ pc[w] \in Committing /\ ret[w] = "done"
            /\ ret'[w] = "done" /\ pc'[w] \in Committing
  PROVE  TurnOK(w)'
<1>1. TurnOK(w) /\ UNCHANGED <<firstIter, endIter>> /\ Labels' = Labels
  BY Zenon DEF RInv, region, Labels, IsCheckpointed
<1> HIDE DEF Labels
<1>2. LabelOK(w)' = LabelOK(w) /\ UpTo(eff[w])' = UpTo(eff[w]) /\ Before(eff[w])' = Before(eff[w])
  BY <1>1, Zenon DEF LabelOK, UpTo, Before
<1>3. CASE PreFill(w) /\ PreFill(w)'
  <2>1. /\ pc'[w] \notin {"run", "finished", "dead", "left"}
        /\ ~(pc'[w] \in Committing /\ ret'[w] = "done")
    BY <1>3, Zenon DEF PreFill, Committing, Reading, Holding
  <2>2. QED  BY <1>1, <1>2, <1>3, <2>1, Zenon DEF TurnOK
<1>4. CASE /\ pc[w] \in Committing /\ ret[w] = "done"
           /\ ret'[w] = "done" /\ pc'[w] \in Committing
  <2>1. pc'[w] \notin {"run", "finished", "dead", "left"} /\ ~PreFill(w)'
    BY <1>4, Zenon DEF PreFill, Committing, Reading, Holding
  <2>2. QED  BY <1>1, <1>2, <1>4, <2>1, Zenon DEF TurnOK
<1>5. QED  BY <1>3, <1>4, Zenon

\* commit_zero_or_more_checkpoints returns.
LEMMA ReturnTurn ==
  ASSUME IInv, RInv, NEW w \in Worker, UNCHANGED region, pc[w] \in Committing, Return(w),
         currentIter'[w] = currentIter[w], eff'[w] = eff[w], given'[w] = given[w], ret'[w] = ret[w]
  PROVE  TurnOK(w)' /\ pc'[w] \notin Holding
<1>0. TypeOK /\ pc'[w] = (IF ret[w] = "stall" THEN "stall"
                          ELSE IF eff[w] = LastIteration THEN "finished" ELSE "run")
      /\ ret[w] \in {"done", "stall"}
  BY Zenon DEF Return, Go, IInv, TypeOK
<1>1. TurnOK(w) /\ UNCHANGED <<firstIter, endIter>> /\ Labels' = Labels
  BY Zenon DEF RInv, region, Labels, IsCheckpointed
<1> HIDE DEF Labels
<1>2. LabelOK(w)' = LabelOK(w) /\ UpTo(eff[w])' = UpTo(eff[w]) /\ Before(eff[w])' = Before(eff[w])
      /\ UpTo(currentIter[w])' = UpTo(currentIter[w])
  BY <1>1, Zenon DEF LabelOK, UpTo, Before
<1>3. CASE ret[w] = "stall"
  <2>1. pc'[w] = "stall" /\ PreFill(w) /\ PreFill(w)'
    BY <1>0, <1>3, Zenon DEF PreFill
  <2>2. QED  BY <2>1, KeepTurn, Zenon DEF Holding
<1>4. CASE ret[w] = "done"
  <2>1. pc'[w] \in {"run", "finished"} /\ ~PreFill(w)' /\ pc'[w] \notin Committing
        /\ pc'[w] \notin Holding /\ (pc'[w] = "finished" <=> eff[w] = LastIteration)
    BY <1>0, <1>4, Zenon DEF PreFill, Committing, Reading, Holding
  <2>2. given[w] = UpTo(eff[w]) /\ LabelOK(w)
    BY <1>1, <1>4, Zenon DEF TurnOK
  <2>3. UpTo(LastIteration) = Labels
    BY <1>0, UpToFacts, Zenon
  <2>4. QED  BY <1>1, <1>2, <2>1, <2>2, <2>3, Zenon DEF TurnOK, LabelOK
<1>5. QED  BY <1>0, <1>3, <1>4, Zenon

\* The iterations between two checkpoints.
LEMMA IterRegion ==
  ASSUME IInv, RInv, NEW w \in Worker, end_iter(w) \/ end_iter_leave(w) \/ worker_finishes(w)
  PROVE  RInv'
<1> USE DEF mgr, objs, pcb, locals, mainSt, region, Go
<1>1. /\ TypeOK /\ TurnOK(w) /\ currentIter[w] \in Iter /\ endIter \in Iter /\ pc[w] = "run"
      /\ given[w] = UpTo(currentIter[w])
  BY Zenon DEF IInv, TypeOK, RInv, TurnOK, end_iter, end_iter_leave, worker_finishes
<1>2. UNCHANGED <<shared, pcb>> /\ OthersSame(w)
  <2>1. CASE end_iter(w)
    BY <1>1, <2>1, Zenon DEF shared, OthersSame, TypeOK, end_iter
  <2>2. CASE end_iter_leave(w) \/ worker_finishes(w)
    BY <1>1, <2>2, Zenon DEF shared, OthersSame, TypeOK, end_iter_leave, worker_finishes
  <2>3. QED  BY <2>1, <2>2, Zenon
<1>3. UNCHANGED <<firstIter, endIter, given, misspec>> /\ Labels' = Labels
      /\ \A l : UpTo(l)' = UpTo(l) /\ Before(l)' = Before(l)
  BY <1>2, Zenon DEF shared, Labels, IsCheckpointed, UpTo, Before
<1>4. /\ Labels \subseteq Int /\ Before(LastIteration) = UpTo(endIter) /\ LastIteration \in Labels
      /\ \A i \in Iter : i \in Labels <=> firstIter < i /\ i <= endIter /\ IsCheckpointed(i)
  BY <1>1, LabelFacts, UpToFacts, Zenon
<1>5. firstIter \in Int /\ endIter \in Int /\ currentIter[w] \in firstIter..endIter
  BY <1>1, LabelFacts, Zenon DEF TurnOK
<1> HIDE DEF Labels, Iter
<1>6. CASE end_iter(w)
  <2>1. PICK i \in Iter : i = currentIter[w] + 1
    <3>1. currentIter[w] + 1 \in Iter
      BY <1>1, <1>6, IterAssumption DEF end_iter, Iter
    <3>2. QED  BY <3>1, Zenon
  <2>2. i \in firstIter..endIter /\ firstIter < i
    BY <1>5, <1>6, <2>1 DEF end_iter
  <2>3. \A k \in Labels : (k <= currentIter[w] <=> k < i) /\ (k <= i <=> k < i \/ k = i)
    BY <1>4, <1>5, <2>1
  <2>4. currentIter'[w] = i
    BY <1>1, <1>6, <2>1, Zenon DEF end_iter, TypeOK
  <2>5. CASE IsCheckpointed(currentIter[w] + 1)
    <3>1. i \in Labels
      BY <1>4, <2>1, <2>2, <2>5
    <3>2. eff'[w] = i /\ pc'[w] = "ckpt"
      BY <1>1, <1>6, <2>1, <2>5, Zenon DEF end_iter, TypeOK
    <3>3. given'[w] = Before(i)'
      BY <1>1, <1>3, <2>3, Zenon DEF UpTo, Before
    <3>4. TurnOK(w)'
      BY <1>1, <1>3, <2>2, <2>4, <3>1, <3>2, <3>3, Zenon
         DEF TurnOK, LabelOK, PreFill, Committing, Reading, Holding, Before
    <3>5. QED  BY <1>1, <1>2, <3>2, <3>4, QuietStep, Zenon DEF Done, Holding
  <2>6. CASE ~IsCheckpointed(currentIter[w] + 1)
    <3>1. i \notin Labels
      BY <1>4, <2>1, <2>2, <2>6, Zenon
    <3>2. pc'[w] = "run"
      BY <1>1, <1>6, <2>6, Zenon DEF end_iter
    <3>3. given'[w] = UpTo(i)'
      BY <1>1, <1>3, <2>3, <3>1, Zenon DEF UpTo, Before
    <3>4. TurnOK(w)'
      BY <1>1, <1>3, <2>2, <2>4, <3>2, <3>3, Zenon
         DEF TurnOK, PreFill, Committing, Reading, Holding, UpTo
    <3>5. QED  BY <1>1, <1>2, <3>2, <3>4, QuietStep, Zenon DEF Done, Holding
  <2>7. QED  BY <2>5, <2>6, Zenon
<1>7. CASE end_iter_leave(w)
  <2>1. pc'[w] = "left" /\ misspec /\ UNCHANGED currentIter
    BY <1>1, <1>7, Zenon DEF end_iter_leave, TypeOK
  <2>2. TurnOK(w)'
    BY <1>1, <1>3, <2>1, Zenon DEF TurnOK, PreFill, Committing, Reading, Holding
  <2>3. QED  BY <1>1, <1>2, <2>1, <2>2, QuietStep, Zenon DEF Done, Holding
<1>8. CASE worker_finishes(w)
  <2>1. pc'[w] = "ckpt" /\ eff'[w] = LastIteration /\ UNCHANGED currentIter
        /\ currentIter[w] = endIter
    BY <1>1, <1>8, Zenon DEF worker_finishes, TypeOK
  <2>2. given'[w] = Before(LastIteration)'
    BY <1>1, <1>3, <1>4, <2>1, Zenon
  <2>3. TurnOK(w)'
    BY <1>1, <1>3, <1>4, <2>1, <2>2, Zenon
       DEF TurnOK, LabelOK, PreFill, Committing, Reading, Holding, Before
  <2>4. QED  BY <1>1, <1>2, <2>1, <2>3, QuietStep, Zenon DEF Done, Holding
<1>9. QED  BY <1>6, <1>7, <1>8, Zenon

\* Asking for a checkpoint object and waiting for its lock.
LEMMA AskRegion ==
  ASSUME IInv, RInv, NEW w \in Worker,
         \/ perform_checkpoint(w) \/ alloc_stall(w) \/ lock_checkpoint(w)
         \/ (get_checkpoint_for_iter(w) \/ alloc_retry(w)) /\ UNCHANGED <<mgr, objs>>
  PROVE  RInv'
<1> USE DEF mgr, objs, pcb, locals, mainSt, region, Go
<1>1. TypeOK /\ PreFill(w) /\ pc[w] \in {"ckpt", "stall", "lock", "get", "realloc"}
  BY ZenonT(40) DEF IInv, PreFill, perform_checkpoint, alloc_stall, lock_checkpoint, get_checkpoint_for_iter,
         alloc_retry
<1>2. UNCHANGED shared /\ OthersSame(w) /\ UNCHANGED <<eff, currentIter>>
  <2>1. CASE perform_checkpoint(w)
    BY <1>1, <2>1, Zenon DEF shared, OthersSame, TypeOK, perform_checkpoint, misspec_at
  <2>2. CASE alloc_stall(w)
    BY <1>1, <2>2, Zenon DEF shared, OthersSame, TypeOK, alloc_stall, misspec_at
  <2>3. CASE lock_checkpoint(w)
    BY <1>1, <2>3, Zenon DEF shared, OthersSame, TypeOK, lock_checkpoint
  <2>4. CASE (get_checkpoint_for_iter(w) \/ alloc_retry(w)) /\ UNCHANGED <<mgr, objs>>
    <3>1. /\ UNCHANGED <<pcb, currentIter, eff, alpha, beta, ret, given, mainSt, output>>
          /\ \/ alloc_checkpoint(w)
             \/ \E c : cur' = [cur EXCEPT ![w] = c] /\ Go(w, "lock")
      BY <2>4, Zenon DEF get_checkpoint_for_iter, alloc_retry
    <3>2. /\ UNCHANGED cur \/ \E c : cur' = [cur EXCEPT ![w] = c]
          /\ \E p : pc' = [pc EXCEPT ![w] = p]
      BY <3>1, Zenon DEF alloc_checkpoint, PushPartial
    <3>3. QED  BY <1>1, <2>4, <3>1, <3>2, Zenon DEF shared, OthersSame, TypeOK
  <2>5. QED  BY <2>1, <2>2, <2>3, <2>4, Zenon
<1>3. \/ misspec_at(w, currentIter[w]) /\ pc[w] \in {"ckpt", "stall"}
      \/ /\ UNCHANGED pcb
         /\ \/ pc'[w] \in {"get", "realloc", "lock", "fill", "stall"}
            \/ pc'[w] = "first" /\ ret'[w] = "stall"
  BY <1>1, Zenon DEF TypeOK, perform_checkpoint, alloc_stall, lock_checkpoint,
              get_checkpoint_for_iter, alloc_retry, alloc_checkpoint, PushPartial
<1>4. CASE misspec_at(w, currentIter[w]) /\ pc[w] \in {"ckpt", "stall"}
  BY <1>2, <1>4, DieStep, Zenon
<1>5. CASE /\ UNCHANGED pcb
           /\ \/ pc'[w] \in {"get", "realloc", "lock", "fill", "stall"}
              \/ pc'[w] = "first" /\ ret'[w] = "stall"
  <2>1. PreFill(w)' /\ pc'[w] \notin Holding
    BY <1>5, Zenon DEF PreFill, Committing, Holding
  <2>2. TurnOK(w)'
    BY <1>1, <1>2, <2>1, KeepTurn, Zenon DEF shared
  <2>3. QED  BY <1>1, <1>2, <1>5, <2>1, <2>2, QuietStep, Zenon DEF Done, Holding
<1>6. QED  BY <1>3, <1>4, <1>5, Zenon

\* The quick test of commit_zero_or_more_checkpoints, giving up the locks, and
\* unlocking at the end.
LEMMA ReadRegion ==
  ASSUME IInv, RInv, NEW w \in Worker,
         \/ commit_first(w) \/ commit_alpha_type(w) \/ commit_next(w) \/ commit_beta_type(w)
         \/ commit_lock_alpha(w) \/ commit_unlock(w)
         \/ commit_lock_beta(w) /\ UNCHANGED type
  PROVE  RInv'
<1> USE DEF mgr, objs, pcb, locals, mainSt, region, Go
<1>1. TypeOK /\ pc[w] \in Committing /\ pc[w] \notin Done \cup Holding /\ ret[w] \in {"done", "stall"}
  BY Zenon DEF IInv, TypeOK, Committing, Reading, Holding, Done, commit_first, commit_alpha_type,
         commit_next, commit_beta_type, commit_lock_alpha, commit_unlock, commit_lock_beta
<1>2. Return(w) => pc' = [pc EXCEPT ![w] = pc'[w]]
  BY <1>1, ZenonT(40) DEF Return, TypeOK
<1>3. UNCHANGED <<shared, pcb>> /\ OthersSame(w) /\ UNCHANGED <<eff, currentIter, given, ret>>
  <2>1. CASE commit_first(w)
    BY <1>1, <1>2, <2>1, Zenon DEF shared, OthersSame, TypeOK, commit_first
  <2>2. CASE commit_alpha_type(w) \/ commit_beta_type(w)
    BY <1>1, <1>2, <2>2, Zenon DEF shared, OthersSame, TypeOK, commit_alpha_type, commit_beta_type
  <2>3. CASE commit_next(w)
    BY <1>1, <1>2, <2>3, Zenon DEF shared, OthersSame, TypeOK, commit_next
  <2>4. CASE commit_lock_alpha(w) \/ commit_unlock(w)
    BY <1>1, <1>2, <2>4, Zenon DEF shared, OthersSame, TypeOK, commit_lock_alpha, commit_unlock
  <2>5. CASE commit_lock_beta(w) /\ UNCHANGED type
    BY <1>1, <1>2, <2>5, Zenon DEF shared, OthersSame, TypeOK, commit_lock_beta
  <2>6. QED  BY <2>1, <2>2, <2>3, <2>4, <2>5, Zenon
<1>4. Return(w) \/ pc'[w] \in Reading
  <2>1. CASE \/ commit_first(w) \/ commit_alpha_type(w) \/ commit_next(w) \/ commit_beta_type(w)
             \/ commit_lock_alpha(w) \/ commit_unlock(w)
    BY <1>1, <2>1, ZenonT(40) DEF TypeOK, Reading, commit_first, commit_alpha_type, commit_next, commit_beta_type,
                commit_lock_alpha, commit_unlock
  <2>2. commit_lock_beta(w) /\ UNCHANGED type => Return(w)
    <3>1. \/ alpha[w] \in Chk /\ type[alpha[w]] \in Life
          \/ ~commit_lock_beta(w)
      BY UsedFacts, Zenon DEF IInv, WorkerOK, AlphaOK, Reading, TypeOK, commit_lock_beta
    <3>2. QED  BY <1>1, <3>1, Zenon DEF TypeOK, commit_lock_beta, StillComplete
  <2>3. QED  BY <2>1, <2>2, ZenonT(40)
<1>5. CASE Return(w)
  <2>1. TurnOK(w)' /\ pc'[w] \notin Holding
    BY <1>1, <1>3, <1>5, ReturnTurn, Zenon DEF shared
  <2>2. QED  BY <1>1, <1>3, <2>1, QuietStep, Zenon
<1>6. CASE pc'[w] \in Reading
  <2>1. pc'[w] \in Committing /\ pc'[w] \notin Holding
    BY <1>6, Zenon DEF Committing, Reading, Holding
  <2>2. TurnOK(w)'
    BY <1>1, <1>3, <2>1, KeepTurn, Zenon DEF PreFill, shared
  <2>3. QED  BY <1>1, <1>3, <2>1, <2>2, QuietStep, Zenon
<1>7. QED  BY <1>4, <1>5, <1>6, Zenon

LEMMA BodyDies ==
  ASSUME IInv, RInv, NEW w \in Worker, misspec_in_body(w)
  PROVE  RInv'
<1> USE DEF mgr, objs, pcb, locals, mainSt, region, Go
<1>1. UNCHANGED shared /\ OthersSame(w) /\ UNCHANGED currentIter /\ pc[w] = "run"
      /\ misspec_at(w, currentIter[w])
  BY Zenon DEF IInv, TypeOK, shared, OthersSame, misspec_in_body, misspec_at
<1>2. QED  BY <1>1, DieStep, Zenon

-------------------------------------------------------------------------------
(* A checkpoint object for a new label *)

\* Nothing at or after the label a worker asks for is known, if the list has
\* no checkpoint for it.
LEMMA NewLabel ==
  ASSUME IInv, RInv, NEW w \in Worker, pc[w] \in {"get", "realloc"}, Match(w) = {}
  PROVE  /\ eff[w] \in Labels /\ given[w] = Before(eff[w]) /\ Before(eff[w]) \subseteq Known
         /\ \A l \in Known : l < eff[w]
<1>1. /\ TypeOK /\ TurnOK(w) /\ PreFill(w) /\ mainPc = "join" /\ Labels \subseteq Int
      /\ eff[w] \in Labels /\ given[w] = Before(eff[w])
  BY AtJoin, LabelFacts, Zenon DEF IInv, RInv, TurnOK, LabelOK, PreFill, Done
<1>2. given[w] \subseteq Known
  BY <1>1, Zenon DEF RInv, OrderInv
<1>3. eff[w] \notin Before(eff[w])
  BY <1>1, UpToFacts, Zenon
<1> HIDE DEF Labels
<1>4. ASSUME NEW l \in Range(output) PROVE l < eff[w]
  BY <1>1, Zenon DEF RInv, OrderInv, Before
<1>5. ASSUME NEW i \in DOMAIN used PROVE At(i) < eff[w]
  <2>1. At(i) \in Labels /\ At(i) \in Known /\ At(i) # eff[w]
    BY DEF RInv, OrderInv, Match, At, Known, Range
  <2>2. SUFFICES ASSUME eff[w] < At(i) PROVE FALSE
    <3>1. At(i) \in Int /\ eff[w] \in Int
      BY <1>1, <2>1, Zenon
    <3>2. QED  BY <2>1, <3>1
  <2>3. eff[w] \in Known
    <3>1. eff[w] \in Before(At(i))
      BY <1>1, <2>2, Zenon DEF Before
    <3>2. QED  BY <1>1, <2>1, <3>1, Zenon DEF RInv, OrderInv
  <2>4. eff[w] \notin Range(output)
    BY <1>1, <1>3, Zenon DEF RInv, OrderInv
  <2>5. QED  BY <2>3, <2>4, Zenon DEF Known, Match, Range
<1>6. ASSUME NEW l \in Known PROVE l < eff[w]
  <2>1. CASE l \in Range(output)
    BY <1>4, <2>1, Zenon
  <2>2. CASE l \notin Range(output)
    BY <1>5, <2>2, Zenon DEF Known, Range, At
  <2>3. QED  BY <2>1, <2>2, Zenon
<1>7. QED  BY <1>1, <1>2, <1>6, Zenon

LEMMA PushRegion ==
  ASSUME IInv, RInv, NEW w \in Worker, pc[w] \in {"get", "realloc"}, Match(w) = {},
         NEW c \in Chk, c \notin Range(used), PushPartial(w, c), OthersSame(w),
         UNCHANGED <<pcb, currentIter, eff, ret, given, mainSt, output>>,
         \A d \in Chk \ {c} : has'[d] = has[d]
  PROVE  RInv'
<1>0. TypeOK /\ ListsPartition /\ mainPc = "join" /\ used \in Seq(Chk) /\ Len(used) \in Nat
  <2>1. TypeOK /\ ListsPartition /\ mainPc = "join"
    BY AtJoin, Zenon DEF IInv, Done
  <2>2. used \in Seq(Chk)
    BY <2>1, Zenon DEF TypeOK
  <2>3. QED  BY <2>1, <2>2, SeqFacts, Zenon
<1> PICK n \in Nat : n = Len(used)
  BY <1>0, Zenon
<1>1. /\ TypeOK /\ used \in Seq(Chk) /\ DOMAIN used = 1..n /\ mainPc = "join"
      /\ Range(used) \subseteq Chk /\ (used # <<>> <=> n > 0)
      /\ \A i \in 1..n : used[i] \in Range(used) /\ used[i] \in Chk /\ used[i] # c
  <2>1. Range(used) \subseteq Chk /\ (used # <<>> <=> n > 0) /\ DOMAIN used = 1..n
        /\ \A i \in 1..n : used[i] \in Range(used)
    BY <1>0, UsedFacts, RangeType, SeqFacts, Zenon
  <2>2. QED  BY <1>0, <2>1, Zenon
<1>2. /\ UNCHANGED <<misspec, misspecIter, currentIter, eff, ret, given, output, mainPc, firstIter,
                     endIter, mainIter, adopted>>
      /\ Labels' = Labels /\ \A l : UpTo(l)' = UpTo(l) /\ Before(l)' = Before(l)
  BY Zenon DEF pcb, mainSt, region, Labels, IsCheckpointed, UpTo, Before
<1>3. /\ Len(used') = n + 1 /\ DOMAIN used' = 1..(n + 1) /\ used'[n + 1] = c
      /\ \A i \in 1..n : used'[i] = used[i]
      /\ Range(used') = Range(used) \cup {c}
  <2>1. used' = Append(used, c)
    BY Zenon DEF PushPartial
  <2>2. QED  BY <1>1, <2>1, AppendSeq, AppendFacts, SeqFacts
<1>4. /\ pc'[w] = "lock"
      /\ type'[c] = "Partial" /\ iteration'[c] = eff[w] /\ num_workers'[c] = 0
      /\ \A d \in Chk \ {c} : /\ type'[d] = type[d] /\ iteration'[d] = iteration[d]
                              /\ num_workers'[d] = num_workers[d] /\ has'[d] = has[d]
  BY <1>1, Zenon DEF PushPartial, Go, TypeOK
<1>5. /\ \A d \in Chk \ {c} : Filled(d)' = Filled(d)
      /\ \A v \in Worker : pc'[v] \in Holding <=> pc[v] \in Holding
      /\ \A v \in Worker : pc[v] \in Holding \/ pc[v] = "dead" =>
                             pc'[v] = pc[v] /\ alpha'[v] = alpha[v]
      /\ Popping' <=> Popping
  BY <1>4, Zenon DEF Filled, OthersSame, Popping, Holding
<1>6. \A v \in Worker : TurnOK(v)'
  <2>1. PreFill(w) /\ PreFill(w)'
    BY <1>4, Zenon DEF PreFill
  <2>2. TurnOK(w)'
    BY <1>2, <2>1, KeepTurn, Zenon DEF region
  <2>3. QED  BY <1>2, <2>2, TurnOthers, Zenon DEF RInv, region
<1>7. /\ eff[w] \in Labels /\ Before(eff[w]) \subseteq Known
      /\ \A l \in Known : l < eff[w]
  BY NewLabel, Zenon
<1> HIDE DEF Labels, UpTo, Before, Filled
<1>8. Labels \subseteq Int /\ eff[w] \in Int /\ ~(eff[w] < eff[w])
  BY <1>1, <1>7, LabelFacts
<1>9. /\ \A i \in 1..n : At(i)' = At(i) /\ type'[used'[i]] = type[used[i]]
      /\ At(n + 1)' = eff[w]
      /\ Known' = Known \cup {eff[w]} /\ \A i \in 1..n : At(i) \in Known
  <2>1. \A i \in 1..n : At(i)' = At(i) /\ type'[used'[i]] = type[used[i]] /\ At(i) \in Known
    BY <1>1, <1>3, <1>4 DEF At, Known
  <2>2. At(n + 1)' = eff[w]
    BY <1>3, <1>4, Zenon DEF At
  <2>3. \A d \in Range(used) : iteration'[d] = iteration[d]
    BY <1>1, <1>4, ZenonT(40)
  <2>4. Known' = Known \cup {eff[w]}
    BY <1>2, <1>3, <1>4, <2>3 DEF Known
  <2>5. QED  BY <2>1, <2>2, <2>4, Zenon
<1>10. OrderInv'
  <2>1. /\ \A i \in DOMAIN used' : i \in 1..n \/ i = n + 1
        /\ \A i \in 1..n : i \in DOMAIN used' /\ i < n + 1
        /\ ~(n + 1 < n + 1)
    BY <1>1, <1>3
  <2>2. \A i \in DOMAIN used' : At(i)' \in Labels
    BY <1>1, <1>7, <1>9, <2>1 DEF RInv, OrderInv
  <2>3. UsedOrdered'
    <3>1. SUFFICES ASSUME NEW i \in DOMAIN used', NEW j \in DOMAIN used', i < j
                   PROVE  At(i)' < At(j)'
      BY Zenon DEF UsedOrdered, At
    <3>2. i \in 1..n
      BY <1>1, <1>3, <3>1
    <3>3. CASE j = n + 1
      BY <1>7, <1>9, <3>2, <3>3, Zenon
    <3>4. CASE j \in 1..n
      BY <1>1, <1>9, <3>1, <3>2, <3>4, Zenon DEF RInv, OrderInv, UsedOrdered, At
    <3>5. QED  BY <2>1, <3>3, <3>4, Zenon
  <2>4. ASSUME NEW l \in Range(output), NEW i \in DOMAIN used'
        PROVE  l < At(i)' \/ (i = 1 /\ l = At(1)' /\ Popping')
    <3>1. CASE i \in 1..n
      <4>1. l < At(i) \/ (i = 1 /\ l = At(1) /\ Popping)
        BY <1>1, <3>1, Zenon DEF RInv, OrderInv
      <4>2. QED  BY <1>5, <1>9, <3>1, <4>1, Zenon
    <3>2. CASE i = n + 1
      BY <1>7, <1>9, <3>2, Zenon DEF Known
    <3>3. QED  BY <2>1, <3>1, <3>2, Zenon
  <2>5. Popping' => used' # <<>> /\ At(1)' \in Range(output)'
    <3>1. used # <<>> => 1 \in 1..n
      BY <1>1
    <3>2. used' # <<>>
      BY <1>1, <1>3, <2>1, n + 1 \in DOMAIN used'
    <3>3. QED  BY <1>2, <1>5, <1>9, <3>1, <3>2, Zenon DEF RInv, OrderInv
  <2>6. ASSUME NEW l \in Known' PROVE Before(l)' \subseteq Known'
    BY <1>1, <1>2, <1>7, <1>9, Zenon DEF RInv, OrderInv
  <2>7. /\ \A v \in Worker : given'[v] \subseteq Known'
        /\ output' # <<>> => used' # <<>> /\ type'[used'[1]] # "Partial"
    <3>1. used # <<>> => 1 \in 1..n
      BY <1>1
    <3>2. used' # <<>>
      BY <1>1, <1>3, <2>1, n + 1 \in DOMAIN used'
    <3>3. QED  BY <1>1, <1>2, <1>9, <3>1, <3>2, Zenon DEF RInv, OrderInv
  <2>8. OutputInOrder'
    BY <1>2, OutputSame, Zenon DEF RInv, OrderInv
  <2>9. QED
    BY <1>2, <2>2, <2>3, <2>4, <2>5, <2>6, <2>7, <2>8, ZenonT(40) DEF RInv, OrderInv
<1>11. FilledInv'
  <2>1. \A d \in Range(used) : Filled(d)' = Filled(d) /\ iteration'[d] = iteration[d]
                               /\ type'[d] = type[d]
    BY <1>1, <1>4, <1>5, Zenon
  <2>2. \A v \in Worker : eff[w] \notin given[v]
    BY <1>1, <1>7, <1>8, Zenon DEF RInv, OrderInv
  <2>3. ASSUME NEW d \in Range(used'), NEW v \in Worker, iteration'[d] \in given'[v]
        PROVE  v \in Filled(d)'
    <3>1. d \in Range(used)
      BY <1>2, <1>3, <1>4, <2>2, <2>3, ZenonT(40)
    <3>2. QED  BY <1>2, <2>1, <2>3, <3>1, Zenon DEF RInv, FilledInv
  <2>4. ASSUME NEW d \in Range(used'), type'[d] \in {"Free", "Broken"}
        PROVE  misspec' \/ \E v \in Worker : pc'[v] \in Holding /\ alpha'[v] = d
    <3>1. d \in Range(used)
      BY <1>3, <1>4, <2>4, ZenonT(40)
    <3>2. misspec \/ \E v \in Worker : pc[v] \in Holding /\ alpha[v] = d
      BY <2>1, <2>4, <3>1, Zenon DEF RInv, FilledInv
    <3>3. QED  BY <1>2, <1>5, <3>2, Zenon
  <2>5. QED  BY <2>3, <2>4, Zenon DEF FilledInv
<1>12. HeapInv'
  <2>1. SUFFICES ASSUME NEW i \in DOMAIN used', NEW d \in Range(used'),
                        d = used'[i], num_workers'[d] > 0
                 PROVE  /\ i = 1 => adopted' \cup has'[d] = All(d)'
                        /\ i = 2 /\ Popping' => has'[d] = All(d)'
                        /\ i > 1 /\ ~(i = 2 /\ Popping') => has'[d] = Own(d)'
    BY Zenon DEF HeapInv
  <2>2. d # c
    <3>1. num_workers'[c] = 0 /\ ~(0 > 0)
      BY <1>4
    <3>2. QED  BY <2>1, <3>1, Zenon
  <2>3. i \in 1..n /\ d = used[i] /\ d \in Range(used) /\ d \in Chk
    BY <1>1, <1>3, <2>1, <2>2
  <2>4. /\ num_workers[d] > 0 /\ has'[d] = has[d]
        /\ Own(d)' = Own(d) /\ All(d)' = All(d)
    BY <1>2, <1>4, <1>5, <2>1, <2>2, <2>3, Zenon DEF Own, All
  <2>5. QED  BY <1>1, <1>2, <1>5, <2>3, <2>4, ZenonT(40) DEF RInv, HeapInv
<1>13. FailInv'
  <2>1. Blocked => Blocked'
    <3>1. used # <<>> => 1 \in 1..n /\ used' # <<>>
      BY <1>1, <1>3, n + 1 \in DOMAIN used'
    <3>2. QED  BY <1>5, <1>9, <3>1, Zenon DEF Blocked
  <2>2. QED  BY <1>2, <1>5, <2>1, Zenon DEF RInv, FailInv
<1>14. JoinInv'
  BY <1>1, <1>2, Zenon DEF RInv, JoinInv, AdoptedPrefix, RegionComplete
<1>15. QED  BY <1>2, <1>6, <1>10, <1>11, <1>12, <1>13, <1>14, Zenon DEF RInv

\* get_checkpoint_for_iter: all it may do, and going round in alloc_checkpoint.
LEMMA GetRegion ==
  ASSUME IInv, RInv, NEW w \in Worker,
         get_checkpoint_for_iter(w) \/ (alloc_retry(w) /\ Match(w) = {})
  PROVE  RInv'
<1> USE DEF mgr, objs, locals
<1>1. /\ TypeOK /\ ListsPartition /\ pc[w] \in {"get", "realloc"} /\ total \in Nat /\ total <= MaxChk
      /\ Range(used) \subseteq 1..total /\ Range(used) \cap Range(free) = {} /\ free \in Seq(Chk)
      /\ UNCHANGED <<pcb, currentIter, eff, alpha, beta, ret, given, mainSt, output>>
  <2>1. TypeOK /\ ListsPartition
    BY Zenon DEF IInv
  <2>2. total \in Nat /\ total <= MaxChk /\ free \in Seq(Chk)
    BY <2>1, BoundAssumption DEF TypeOK
  <2>3. QED  BY <2>1, <2>2, UsedFacts, Zenon DEF get_checkpoint_for_iter, alloc_retry, ListsPartition
<1>2. ASSUME NEW c, PushPartial(w, c) PROVE OthersSame(w)
  BY <1>1, <1>2, Zenon DEF PushPartial, Go, OthersSame, TypeOK
<1>3. CASE UNCHANGED <<mgr, objs>>
  BY <1>3, AskRegion, Zenon
<1>4. CASE Match(w) = {} /\ ~list_empty(free) /\ PushPartial(w, Head(free)) /\ UNCHANGED has
  <2>1. PICK c \in Chk : c = Head(free) /\ c \in Range(free)
    BY <1>1, <1>4, TailFacts, Zenon DEF list_empty, ListsPartition
  <2>2. QED  BY <1>1, <1>2, <1>4, <2>1, PushRegion, Zenon
<1>5. CASE /\ Match(w) = {} /\ total < MaxChk /\ PushPartial(w, total + 1)
           /\ has' = [has EXCEPT ![total + 1] = {}]
  <2>1. PICK c \in Chk : c = total + 1
    <3>1. total + 1 \in Chk
      BY <1>1, <1>5, BoundAssumption DEF Chk
    <3>2. QED  BY <3>1, Zenon
  <2>2. c \notin Range(used)
    BY <1>1, <2>1
  <2>3. \A d \in Chk \ {c} : has'[d] = has[d]
    BY <1>1, <1>5, <2>1, Zenon DEF TypeOK
  <2>4. QED  BY <1>1, <1>2, <1>5, <2>1, <2>2, <2>3, PushRegion, Zenon
<1>6. QED  BY <1>3, <1>4, <1>5, Zenon DEF get_checkpoint_for_iter, alloc_retry, alloc_checkpoint

-------------------------------------------------------------------------------
(* Adding a worker's state to a checkpoint *)

\* The list in use, place by place.
LEMMA Places ==
  ASSUME IInv, RInv
  PROVE  /\ used \in Seq(Chk) /\ Len(used) \in Nat /\ DOMAIN used = 1..Len(used)
         /\ (used # <<>> <=> Len(used) > 0) /\ Range(used) \subseteq Chk
         /\ \A i \in DOMAIN used : used[i] \in Range(used) /\ used[i] \in Chk /\ At(i) \in Labels
                                   /\ At(i) \in Int /\ At(i) \in Known
         /\ \A c \in Range(used) : \E i \in DOMAIN used : c = used[i]
         /\ \A i, j \in DOMAIN used : At(i) = At(j) => i = j
<1>1. TypeOK /\ ListsPartition
  BY Zenon DEF IInv
<1>2. used \in Seq(Chk)
  BY <1>1, Zenon DEF TypeOK
<1>3. Len(used) \in Nat /\ DOMAIN used = 1..Len(used) /\ (used # <<>> <=> Len(used) > 0)
  BY <1>2, SeqFacts, Zenon
<1>4. Range(used) \subseteq Chk /\ \A i \in DOMAIN used : used[i] \in Range(used)
  BY <1>2, RangeType, Zenon DEF Range
<1>5. \A i \in DOMAIN used : At(i) \in Labels /\ At(i) \in Int
  BY <1>1, LabelFacts, Zenon DEF RInv, OrderInv
<1>6. \A i, j \in DOMAIN used : i < j => At(i) < At(j)
  BY Zenon DEF RInv, OrderInv, UsedOrdered, At
<1>7. \A i, j \in DOMAIN used : At(i) = At(j) => i = j
  <2>1. SUFFICES ASSUME NEW i \in 1..Len(used), NEW j \in 1..Len(used), At(i) = At(j), i # j
                 PROVE  FALSE
    BY <1>3, Zenon
  <2>2. i < j \/ j < i
    BY <1>3, <2>1
  <2>3. At(i) \in Int /\ (At(i) < At(j) \/ At(j) < At(i))
    BY <1>3, <1>5, <1>6, <2>2, Zenon
  <2>4. QED  BY <2>1, <2>3
<1>8. \A i \in DOMAIN used : At(i) \in Known
  BY <1>4, Zenon DEF At, Known
<1>9. \A c \in Range(used) : \E i \in DOMAIN used : c = used[i]
  BY Zenon DEF Range
<1>10. QED  BY <1>2, <1>3, <1>4, <1>5, <1>7, <1>8, <1>9, Zenon

\* Everything before the front checkpoint has been output, everything before
\* the second is the front or before it.
LEMMA FrontLabels ==
  ASSUME IInv, RInv, mainPc \in {"join", "adopt"}, used # <<>>
  PROVE  /\ Before(At(1)) \subseteq Range(output)
         /\ ~Popping => Range(output) = Before(At(1))
         /\ Len(used) > 1 => Before(At(2)) = UpTo(At(1))
<1>1. /\ Len(used) \in Nat /\ Len(used) > 0 /\ DOMAIN used = 1..Len(used)
      /\ \A i \in DOMAIN used : At(i) \in Labels /\ At(i) \in Int /\ At(i) \in Known
      /\ \A i, j \in DOMAIN used : i < j => At(i) < At(j)
      /\ \A c \in Range(used) : \E i \in DOMAIN used : c = used[i]
  BY Places, Zenon DEF RInv, OrderInv, UsedOrdered, At
<1>2. \A l \in Known : l \in Range(output) \/ \E i \in DOMAIN used : l = At(i)
  BY <1>1 DEF Known, At
<1>3. 1 \in DOMAIN used /\ (Len(used) > 1 => 2 \in DOMAIN used)
  BY <1>1
<1>4. Labels \subseteq Int
  BY LabelFacts, Zenon DEF IInv
<1>5. \A l \in Known : Before(l) \subseteq Known
  BY Zenon DEF RInv, OrderInv
<1> HIDE DEF Labels
<1>6. ASSUME NEW k \in Before(At(1)) PROVE k \in Range(output)
  <2>1. k \in Known /\ k \in Int /\ k < At(1)
    BY <1>1, <1>3, <1>4, <1>5, Zenon DEF Before
  <2>2. ASSUME NEW i \in DOMAIN used, k = At(i) PROVE FALSE
    <3>1. i = 1 \/ 1 < i
      BY <1>1, <2>2
    <3>2. At(1) = At(i) \/ At(1) < At(i)
      BY <1>1, <1>3, <3>1, Zenon
    <3>3. QED  BY <1>1, <1>3, <2>1, <2>2, <3>2
  <2>3. QED  BY <1>2, <2>1, <2>2, Zenon
<1>7. ASSUME ~Popping, NEW l \in Range(output) PROVE l \in Before(At(1))
  BY <1>3, <1>7, Zenon DEF RInv, OrderInv, Before
<1>8. ASSUME Len(used) > 1, NEW k \in Before(At(2)) PROVE k \in UpTo(At(1))
  <2>1. k \in Known /\ k \in Int /\ k < At(2) /\ k \in Labels
    BY <1>1, <1>3, <1>4, <1>5, <1>8, Zenon DEF Before
  <2>2. ASSUME NEW i \in DOMAIN used, k = At(i) PROVE i = 1
    <3>1. i = 1 \/ i = 2 \/ 2 < i
      BY <1>1, <2>2
    <3>2. 2 < i => At(2) < At(i)
      BY <1>1, <1>3, <1>8, <3>1, Zenon
    <3>3. QED  BY <1>1, <1>3, <1>8, <2>1, <2>2, <3>1, <3>2
  <2>3. CASE k \in Range(output)
    <3>1. k <= At(1)
      BY <1>1, <1>3, <2>1, <2>3 DEF RInv, OrderInv
    <3>2. QED  BY <2>1, <3>1, Zenon DEF UpTo
  <2>4. CASE k \notin Range(output)
    <3>1. k = At(1)
      BY <1>2, <2>1, <2>2, <2>4, Zenon
    <3>2. QED  BY <2>1, <3>1 DEF UpTo
  <2>5. QED  BY <2>3, <2>4, Zenon
<1>9. ASSUME Len(used) > 1, NEW k \in UpTo(At(1)) PROVE k \in Before(At(2))
  <2>1. At(1) < At(2) /\ k \in Labels /\ k \in Int /\ k <= At(1)
    BY <1>1, <1>3, <1>4, <1>9 DEF UpTo
  <2>2. k < At(2)
    BY <1>1, <1>3, <1>9, <2>1
  <2>3. QED  BY <2>1, <2>2, Zenon DEF Before
<1>10. QED  BY <1>6, <1>7, <1>8, <1>9, Zenon

\* What a contribution does to the object it goes to.
Fills(w, c) ==
  /\ c \in Range(used) /\ type[c] = "Partial" /\ iteration[c] = eff[w]
  /\ pc'[w] = "first" /\ ret'[w] = "done" /\ OthersSame(w)
  /\ given'[w] = given[w] \cup {eff[w]}
  /\ num_workers'[c] > 0 /\ type'[c] \in {"Partial", "Complete"}
  /\ has'[c] = (IF num_workers[c] > 0 THEN has[c] ELSE {}) \cup {<<w, eff[w]>>}
  /\ Filled(c)' = Filled(c) \cup {w}
  /\ num_workers[c] = 0 => Filled(c) = {}
  /\ \A d \in Chk \ {c} : /\ type'[d] = type[d] /\ num_workers'[d] = num_workers[d]
                          /\ has'[d] = has[d] /\ Filled(d)' = Filled(d)

LEMMA FillFacts ==
  ASSUME IInv, RInv, NEW w \in Worker, perform_checkpoint_locked(w),
         NEW c \in Chk, c = cur[w]
  PROVE  Fills(w, c)
<1> USE DEF mgr, objs, locals, Go
<1>1. TypeOK /\ FillOK(w) /\ pc[w] = "fill"
  BY Zenon DEF IInv, WorkerOK, perform_checkpoint_locked
<1>2. /\ c \in Range(used) /\ type[c] = "Partial" /\ iteration[c] = eff[w] /\ num_workers[c] \in Nat
  BY <1>1, Zenon DEF FillOK, TypeOK
<1>3. pc'[w] = "first" /\ ret'[w] = "done" /\ OthersSame(w) /\ given'[w] = given[w] \cup {eff[w]}
      /\ UNCHANGED iteration
  BY <1>1, Zenon DEF perform_checkpoint_locked, TypeOK, OthersSame
<1>4. /\ num_workers'[c] = num_workers[c] + 1 /\ type'[c] \in {"Partial", "Complete"}
      /\ has'[c] = (IF num_workers[c] = 0 THEN {} ELSE has[c]) \cup {<<w, eff[w]>>}
      /\ \A d \in Chk \ {c} : /\ type'[d] = type[d] /\ num_workers'[d] = num_workers[d]
                              /\ has'[d] = has[d]
  BY <1>1, <1>2, Zenon DEF perform_checkpoint_locked, TypeOK, ClearsHeaps
<1>5. num_workers'[c] > 0 /\ num_workers'[c] # 0 /\ (num_workers[c] > 0 <=> num_workers[c] # 0)
  BY <1>2, <1>4
<1>6. \A d \in Chk \ {c} : Filled(d)' = Filled(d)
  BY <1>3, <1>4, Zenon DEF Filled
<1>7. Filled(c)' = Filled(c) \cup {w}
  <2>1. Filled(c)' = {v \in Worker : <<v, eff[w]>> \in has'[c]}
    BY <1>2, <1>3, <1>5, Zenon DEF Filled
  <2>2. \A v \in Worker : <<v, eff[w]>> = <<w, eff[w]>> <=> v = w
    BY Zenon
  <2>3. CASE num_workers[c] = 0
    BY <1>4, <2>1, <2>2, <2>3, Zenon DEF Filled
  <2>4. CASE num_workers[c] # 0
    BY <1>2, <1>4, <2>1, <2>2, <2>4, Zenon DEF Filled
  <2>5. QED  BY <2>3, <2>4, Zenon
<1>8. num_workers[c] = 0 => Filled(c) = {}
  BY Zenon DEF Filled
<1>9. QED  BY <1>2, <1>3, <1>4, <1>5, <1>6, <1>7, <1>8, Zenon DEF Fills

LEMMA FillHeaps ==
  ASSUME IInv, RInv, NEW w \in Worker, perform_checkpoint_locked(w)
  PROVE  HeapInv'
<1>1. PICK c \in Chk : c = cur[w] /\ c \in Range(used)
  <2>1. pc[w] = "fill" /\ FillOK(w) /\ TypeOK /\ ListsPartition
    BY Zenon DEF IInv, WorkerOK, perform_checkpoint_locked
  <2>2. QED  BY <2>1, UsedFacts, Zenon DEF FillOK
<1>2. /\ c \in Range(used) /\ type[c] = "Partial" /\ iteration[c] = eff[w]
      /\ pc'[w] = "first" /\ OthersSame(w) /\ num_workers'[c] > 0
      /\ has'[c] = (IF num_workers[c] > 0 THEN has[c] ELSE {}) \cup {<<w, eff[w]>>}
      /\ Filled(c)' = Filled(c) \cup {w}
      /\ num_workers[c] = 0 => Filled(c) = {}
      /\ \A d \in Chk \ {c} : /\ num_workers'[d] = num_workers[d]
                              /\ has'[d] = has[d] /\ Filled(d)' = Filled(d)
  <2>1. Fills(w, c)
    BY <1>1, FillFacts, Zenon
  <2>2. QED  BY <2>1, Zenon DEF Fills
<1>3. /\ UNCHANGED <<used, iteration, mainPc, firstIter, endIter, adopted>>
      /\ Labels' = Labels /\ \A l : Before(l)' = Before(l)
      /\ pc[w] = "fill" /\ mainPc = "join" /\ adopted = {}
  BY AtJoin, Zenon DEF perform_checkpoint_locked, mgr, mainSt, region, Labels, IsCheckpointed, Before,
                Done, RInv, JoinInv
<1>4. Popping' <=> Popping
  BY <1>2, <1>3, Zenon DEF Popping, OthersSame
<1>5. Range(used) \subseteq Chk /\ 1 \in DOMAIN used /\ Len(used) > 0 /\ used # <<>>
  BY <1>2, Places
<1> HIDE DEF Labels, Before, Filled
<1>6. \A d \in Chk \ {c} : Own(d)' = Own(d) /\ All(d)' = All(d)
  BY <1>2, <1>3, Zenon DEF Own, All
<1>7. Own(c)' = Own(c) \cup {<<w, eff[w]>>} /\ All(c)' = All(c) \cup {<<w, eff[w]>>}
  BY <1>2, <1>3 DEF Own, All
<1>8. c = used[1] => Before(eff[w]) = {}
  <2>1. c = used[1] => Range(output) = {}
    <3>1. output # <<>> => type[used[1]] # "Partial"
      BY <1>3, <1>5, Zenon DEF RInv, OrderInv
    <3>2. output = <<>> => Range(output) = {}
      BY DEF Range
    <3>3. QED  BY <1>2, <3>1, <3>2, Zenon
  <2>2. c = used[1] => At(1) = eff[w]
    BY <1>2, Zenon DEF At
  <2>3. Before(At(1)) \subseteq Range(output)
    BY <1>3, <1>5, FrontLabels, Zenon
  <2>4. QED  BY <2>1, <2>2, <2>3, Zenon
<1>9. Popping => c # used[2]
  BY <1>2, Zenon DEF IInv, WorkerOK, CommitOK, Popping, Holding
<1>10. SUFFICES ASSUME NEW i \in DOMAIN used, NEW d \in Range(used),
                       d = used[i], num_workers'[d] > 0
                PROVE  /\ i = 1 => adopted' \cup has'[d] = All(d)'
                       /\ i = 2 /\ Popping' => has'[d] = All(d)'
                       /\ i > 1 /\ ~(i = 2 /\ Popping') => has'[d] = Own(d)'
  BY <1>3, ZenonT(40) DEF HeapInv
<1>11. CASE d # c
  <2>1. d \in Chk \ {c} /\ d \in Range(used) /\ i \in DOMAIN used /\ d = used[i]
        /\ num_workers[d] > 0
    BY <1>2, <1>3, <1>5, <1>10, <1>11, Zenon
  <2>2. /\ i = 1 => adopted \cup has[d] = All(d)
        /\ i = 2 /\ Popping => has[d] = All(d)
        /\ i > 1 /\ ~(i = 2 /\ Popping) => has[d] = Own(d)
    BY <1>3, <2>1, Zenon DEF RInv, HeapInv
  <2>3. has'[d] = has[d] /\ Own(d)' = Own(d) /\ All(d)' = All(d) /\ adopted' = adopted
    BY <1>2, <1>3, <1>6, <2>1, Zenon
  <2>4. QED  BY <1>4, <2>2, <2>3, Zenon
<1>12. CASE d = c /\ num_workers[c] > 0
  <2>1. /\ i = 1 => has[c] = All(c)
        /\ i > 1 => ~(i = 2 /\ Popping) /\ has[c] = Own(c)
    BY <1>2, <1>3, <1>9, <1>10, <1>12, ZenonT(40) DEF RInv, HeapInv
  <2>2. has'[c] = has[c] \cup {<<w, eff[w]>>}
    BY <1>2, <1>12, Zenon
  <2>3. i = 2 => ~Popping
    BY <1>9, <1>10, <1>12, Zenon
  <2>4. QED  BY <1>3, <1>4, <1>7, <1>12, <2>1, <2>2, <2>3, ZenonT(40)
<1>13. CASE d = c /\ ~(num_workers[c] > 0)
  <2>1. num_workers[c] = 0
    <3>1. num_workers[c] \in Nat
      BY Zenon DEF IInv, TypeOK
    <3>2. QED  BY <1>13, <3>1
  <2>2. has'[c] = {<<w, eff[w]>>} /\ Own(c) = {}
    BY <1>2, <1>13, <2>1, Zenon DEF Own
  <2>3. i = 1 => All(c) = {}
    BY <1>2, <1>8, <1>10, <1>13, <2>2, Zenon DEF All
  <2>4. i = 2 => ~Popping
    BY <1>9, <1>10, <1>13, Zenon
  <2>5. QED  BY <1>3, <1>4, <1>7, <1>13, <2>2, <2>3, <2>4, Zenon
<1>14. QED  BY <1>11, <1>12, <1>13, Zenon

LEMMA FillRegion ==
  ASSUME IInv, RInv, NEW w \in Worker, perform_checkpoint_locked(w)
  PROVE  RInv'
<1>1. PICK c \in Chk : c = cur[w] /\ c \in Range(used)
  <2>1. pc[w] = "fill" /\ FillOK(w) /\ TypeOK /\ ListsPartition
    BY Zenon DEF IInv, WorkerOK, perform_checkpoint_locked
  <2>2. QED  BY <2>1, UsedFacts, Zenon DEF FillOK
<1>2. /\ type[c] = "Partial" /\ iteration[c] = eff[w]
      /\ pc'[w] = "first" /\ ret'[w] = "done" /\ OthersSame(w)
      /\ given'[w] = given[w] \cup {eff[w]}
      /\ type'[c] \in {"Partial", "Complete"} /\ Filled(c)' = Filled(c) \cup {w}
      /\ \A d \in Chk \ {c} : type'[d] = type[d] /\ Filled(d)' = Filled(d)
  <2>1. Fills(w, c)
    BY <1>1, FillFacts, Zenon
  <2>2. QED  BY <2>1, Zenon DEF Fills
<1>3. /\ UNCHANGED <<used, iteration, misspec, misspecIter, currentIter, eff, alpha, output,
                     mainPc, firstIter, endIter, mainIter, adopted>>
      /\ Labels' = Labels /\ \A l : UpTo(l)' = UpTo(l) /\ Before(l)' = Before(l)
      /\ pc[w] = "fill" /\ mainPc = "join"
  BY AtJoin, Zenon DEF perform_checkpoint_locked, mgr, pcb, mainSt, region, Labels, IsCheckpointed,
                UpTo, Before, Done
<1>4. /\ \A v \in Worker : pc'[v] \in Holding <=> pc[v] \in Holding
      /\ \A v \in Worker : pc[v] \in Holding \/ pc[v] = "dead" => v # w /\ pc'[v] = pc[v]
      /\ Popping' <=> Popping
      /\ \A v \in Worker : v # w => given'[v] = given[v]
      /\ \A v \in Worker : given[v] \subseteq given'[v]
  BY <1>2, <1>3, Zenon DEF OthersSame, Holding, Popping
<1>5. Range(used) \subseteq Chk /\ \A d \in Range(used) : d # c => iteration[d] # eff[w]
  <2>1. SUFFICES ASSUME NEW d \in Range(used), iteration[d] = eff[w] PROVE d = c
    BY Places, Zenon
  <2>2. PICK i \in DOMAIN used : d = used[i]
    BY <2>1, Places, Zenon
  <2>3. PICK j \in DOMAIN used : c = used[j]
    BY <1>1, Places, Zenon
  <2>4. At(i) = At(j)
    BY <1>2, <2>1, <2>2, <2>3, Zenon DEF At
  <2>5. QED  BY <2>2, <2>3, <2>4, Places, Zenon
<1> HIDE DEF Labels, UpTo, Before, Filled
<1>6. \A v \in Worker : TurnOK(v)'
  <2>1. TurnOK(w) /\ PreFill(w) /\ TypeOK
    BY <1>3, Zenon DEF RInv, PreFill, IInv
  <2>2. LabelOK(w) /\ given[w] = Before(eff[w])
    BY <2>1, Zenon DEF TurnOK
  <2>3. eff[w] \in Labels /\ UpTo(eff[w]) = Before(eff[w]) \cup {eff[w]}
    BY <2>1, <2>2, UpToFacts, Zenon DEF LabelOK
  <2>4. given'[w] = UpTo(eff[w]) /\ UpTo(eff[w])' = UpTo(eff[w]) /\ LabelOK(w)'
    BY <1>2, <1>3, <2>2, <2>3, Zenon DEF LabelOK, UpTo
  <2>5. ~PreFill(w)'
    BY <1>2, Zenon DEF PreFill, Committing
  <2>6. TurnOK(w)'
    BY <1>2, <1>3, <2>1, <2>4, <2>5, Zenon DEF TurnOK, UpTo
  <2>7. QED  BY <1>2, <1>3, <2>6, TurnOthers, Zenon DEF RInv, region
<1>7. OrderInv'
  <2>1. OutputInOrder' /\ UsedOrdered' /\ Known' = Known
    BY <1>3, OutputSame, UsedSame, KnownSame, Zenon DEF RInv, OrderInv
  <2>2. eff[w] \in Known
    BY <1>1, <1>2, Zenon DEF Known
  <2>3. output # <<>> => used # <<>> /\ type'[used[1]] # "Partial"
    <3>1. output # <<>> => used # <<>> /\ type[used[1]] # "Partial"
      BY <1>3, Zenon DEF RInv, OrderInv
    <3>2. used # <<>> => used[1] \in Chk
      BY Places
    <3>3. QED  BY <1>2, <3>1, <3>2, Zenon
  <2>4. \A v \in Worker : given'[v] \subseteq Known
    <3>1. \A v \in Worker : given[v] \subseteq Known
      BY <1>3, Zenon DEF RInv, OrderInv
    <3>2. QED  BY <1>2, <1>4, <2>2, <3>1, Zenon
  <2>5. \A l \in Range(output) : l \in Labels /\ \A v \in Worker : l \in given'[v]
    BY <1>4, Zenon DEF RInv, OrderInv
  <2>6. QED  BY <1>3, <1>4, <2>1, <2>3, <2>4, <2>5, ZenonT(40) DEF RInv, OrderInv, At
<1>8. FilledInv'
  <2>1. ASSUME NEW d \in Range(used), NEW v \in Worker, iteration[d] \in given'[v]
        PROVE  v \in Filled(d)'
    <3>1. CASE v = w /\ d = c
      BY <1>2, <3>1, Zenon
    <3>2. CASE ~(v = w /\ d = c)
      <4>1. iteration[d] \in given[v]
        <5>1. CASE v # w
          BY <1>4, <2>1, <5>1, Zenon
        <5>2. CASE v = w
          <6>1. iteration[d] # eff[w]
            BY <1>5, <3>2, <5>2, Zenon
          <6>2. QED  BY <1>2, <2>1, <5>2, <6>1, Zenon
        <5>3. QED  BY <5>1, <5>2, Zenon
      <4>2. v \in Filled(d)
        BY <4>1, Zenon DEF RInv, FilledInv
      <4>3. QED  BY <1>2, <1>5, <4>2, ZenonT(40)
    <3>3. QED  BY <3>1, <3>2, Zenon
  <2>2. ASSUME NEW d \in Range(used), type'[d] \in {"Free", "Broken"}
        PROVE  misspec \/ \E v \in Worker : pc'[v] \in Holding /\ alpha[v] = d
    <3>1. type[d] \in {"Free", "Broken"}
      BY <1>2, <1>5, <2>2, Zenon
    <3>2. QED  BY <1>4, <3>1, Zenon DEF RInv, FilledInv
  <2>3. QED  BY <1>3, <2>1, <2>2, Zenon DEF FilledInv
<1>9. HeapInv'
  BY FillHeaps, Zenon
<1>10. FailInv'
  <2>1. Blocked => Blocked'
    <3>1. used # <<>> => used[1] \in Chk
      BY Places
    <3>2. QED  BY <1>2, <1>3, <1>4, <3>1, Zenon DEF Blocked
  <2>2. QED  BY <1>3, <1>4, <2>1, Zenon DEF RInv, FailInv
<1>11. JoinInv'
  BY <1>3, Zenon DEF RInv, JoinInv, AdoptedPrefix, RegionComplete
<1>12. QED  BY <1>3, <1>6, <1>7, <1>8, <1>9, <1>10, <1>11, Zenon DEF RInv
===============================================================================
