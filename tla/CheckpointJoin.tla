---------------------------- MODULE CheckpointJoin ----------------------------
(***************************************************************************)
(* Combining checkpoints, and what the main process does with them,        *)
(* preserve the invariant of a region.                                     *)
(***************************************************************************)
EXTENDS CheckpointInv

-------------------------------------------------------------------------------
(* Combining two checkpoints *)

\* Only one worker combines, and it works on two complete checkpoints.
LEMMA Holder ==
  ASSUME IInv, NEW w \in Worker, pc[w] \in Holding
  PROVE  /\ mainPc = "join" /\ Len(used) > 1 /\ used # <<>> /\ 1 \in DOMAIN used /\ 2 \in DOMAIN used
         /\ alpha[w] = used[1] /\ beta[w] = used[2] /\ used[1] # used[2]
         /\ type[used[1]] = "Free" /\ type[used[2]] = "Complete"
         /\ Filled(used[1]) = Worker /\ Filled(used[2]) = Worker
         /\ num_workers[used[1]] > 0 /\ num_workers[used[2]] > 0
         /\ \A v \in Worker : pc[v] \in Holding => v = w
<1>1. /\ TypeOK /\ ListsPartition /\ CountInv /\ mainPc = "join"
      /\ \A v \in Worker : CommitOK(v) /\ LockOK(v)
  BY AtJoin, Zenon DEF IInv, WorkerOK, Holding, Done
<1>2. used \in Seq(Chk) /\ num_workers \in [Chk -> Nat]
  BY <1>1, Zenon DEF TypeOK
<1>3. /\ Len(used) > 1 /\ alpha[w] = used[1] /\ beta[w] = used[2]
      /\ type[used[1]] = "Free" /\ type[used[2]] = "Complete"
  BY <1>1, Zenon DEF CommitOK
<1>4. 1 \in DOMAIN used /\ 2 \in DOMAIN used /\ used # <<>>
  BY <1>2, <1>3, SeqFacts
<1>5. used[1] \in Range(used) /\ used[2] \in Range(used) /\ used[1] \in Chk /\ used[2] \in Chk
      /\ used[1] # used[2]
  BY <1>1, <1>2, <1>3, <1>4, UsedFacts, RangeType DEF Range
<1>6. Filled(used[1]) = Worker /\ Filled(used[2]) = Worker
  BY <1>1, <1>3, <1>5, Zenon DEF CountInv
<1>7. num_workers[used[1]] > 0 /\ num_workers[used[2]] > 0
  <2>1. num_workers[used[1]] # 0 /\ num_workers[used[2]] # 0
    BY <1>6, WorkerAssumption, Zenon DEF Filled
  <2>2. QED  BY <1>2, <1>5, <2>1
<1>8. ASSUME NEW v \in Worker, pc[v] \in Holding PROVE v = w
  <2>1. alpha[v] = used[1] /\ lock[alpha[v]] = v /\ lock[alpha[w]] = w
    BY <1>1, <1>8, Zenon DEF CommitOK, LockOK
  <2>2. QED  BY <1>3, <2>1, Zenon
<1>9. QED  BY <1>1, <1>3, <1>4, <1>5, <1>6, <1>7, <1>8, Zenon

\* Both are locked and complete: alpha is taken out of service.
LEMMA LockBetaRegion ==
  ASSUME IInv, IInv', RInv, NEW w \in Worker, commit_lock_beta(w), StillComplete(w)
  PROVE  RInv'
<1> USE DEF mgr, objs, pcb, locals, mainSt, region, Go
<1>1. /\ TypeOK /\ ListsPartition /\ pc[w] = "lockBeta" /\ AlphaOK(w) /\ mainPc = "join"
      /\ alpha[w] \in Chk
  <2>1. TypeOK /\ ListsPartition /\ pc[w] = "lockBeta" /\ AlphaOK(w) /\ mainPc = "join"
    BY AtJoin, Zenon DEF IInv, WorkerOK, commit_lock_beta, Done
  <2>2. QED  BY <2>1, UsedFacts, Zenon DEF AlphaOK, Reading
<1>2. PICK c \in Chk : c = alpha[w] /\ type[c] = "Complete"
  BY <1>1, Zenon DEF StillComplete
<1>3. /\ UNCHANGED <<used, iteration, num_workers, has, misspec, misspecIter, given, output, eff,
                     ret, alpha, currentIter, mainPc, firstIter, endIter, mainIter, adopted>>
      /\ OthersSame(w) /\ pc'[w] = "combine"
      /\ type'[c] = "Free" /\ \A d \in Chk \ {c} : type'[d] = type[d]
  BY <1>1, <1>2, Zenon DEF commit_lock_beta, TypeOK, OthersSame
<1>4. used # <<>> /\ used[1] = c /\ c \in Range(used)
  <2>1. alpha[w] = first(used)
    BY <1>1, <1>2, Zenon DEF AlphaOK, Reading
  <2>2. used # <<>>
    BY <1>2, <2>1, BoundAssumption DEF first, list_empty, Chk
  <2>3. QED  BY <1>1, <1>2, <2>1, <2>2, UsedFacts, Places
<1>5. /\ Labels' = Labels /\ \A d : Filled(d)' = Filled(d)
      /\ \A l : UpTo(l)' = UpTo(l) /\ Before(l)' = Before(l)
  BY <1>3, Zenon DEF Labels, Filled, UpTo, Before, IsCheckpointed
<1>6. /\ \A v \in Worker : pc[v] \in Holding \/ pc[v] = "dead" => pc'[v] = pc[v]
      /\ Popping' <=> Popping
  BY <1>1, <1>3, Zenon DEF OthersSame, Holding, Popping
<1>7. \A v \in Worker : TurnOK(v)'
  <2>1. \/ PreFill(w) /\ PreFill(w)'
        \/ pc[w] \in Committing /\ ret[w] = "done" /\ ret'[w] = "done" /\ pc'[w] \in Committing
    BY <1>1, <1>3, Zenon DEF PreFill, Committing, Reading, Holding, TypeOK
  <2>2. TurnOK(w)'
    BY <1>3, <2>1, KeepTurn, Zenon
  <2>3. QED  BY <1>3, <1>5, <2>2, TurnOthers, Zenon DEF RInv
<1> HIDE DEF Labels, UpTo, Before, Filled
<1>8. OrderInv'
  <2>1. OutputInOrder' /\ UsedOrdered' /\ Known' = Known
    BY <1>3, <1>5, OutputSame, UsedSame, KnownSame, Zenon DEF RInv, OrderInv
  <2>2. QED  BY <1>3, <1>4, <1>5, <1>6, <2>1, Zenon DEF RInv, OrderInv, At
<1>9. FilledInv'
  <2>1. ASSUME NEW d \in Range(used), type'[d] \in {"Free", "Broken"}
        PROVE  misspec \/ \E v \in Worker : pc'[v] \in Holding /\ alpha[v] = d
    <3>1. CASE d = c
      BY <1>2, <1>3, <3>1, Zenon DEF Holding
    <3>2. CASE d # c
      <4>1. type[d] \in {"Free", "Broken"}
        BY <1>3, <2>1, <3>2, Places, Zenon
      <4>2. QED  BY <1>6, <4>1, Zenon DEF RInv, FilledInv
    <3>3. QED  BY <3>1, <3>2, Zenon
  <2>2. QED  BY <1>3, <1>5, <2>1, Zenon DEF RInv, FilledInv
<1>10. HeapInv'
  BY <1>3, <1>5, <1>6 DEF RInv, HeapInv, All, Own
<1>11. FailInv'
  <2>1. ~Blocked
    BY <1>2, <1>4, Zenon DEF Blocked
  <2>2. QED  BY <1>3, <1>6, <2>1, Zenon DEF RInv, FailInv
<1>12. JoinInv'
  BY <1>1, <1>3, <1>5, Zenon DEF RInv, JoinInv, AdoptedPrefix, RegionComplete
<1>13. QED  BY <1>3, <1>7, <1>8, <1>9, <1>10, <1>11, <1>12, Zenon DEF RInv

\* The two disagree: the front of the list stays blocked.
LEMMA CombineFails ==
  ASSUME IInv, RInv, NEW w \in Worker, commit_misspec(w)
  PROVE  RInv'
<1> USE DEF mgr, objs, pcb, locals, mainSt, region, Go
<1>1. TypeOK /\ pc[w] = "combine" /\ pc[w] \in Holding /\ TurnOK(w)
  BY Zenon DEF IInv, RInv, commit_misspec, Holding
<1>2. /\ mainPc = "join" /\ used # <<>> /\ 1 \in DOMAIN used /\ 2 \in DOMAIN used
      /\ alpha[w] = used[1] /\ beta[w] = used[2] /\ used[1] # used[2]
      /\ type[used[1]] = "Free"
      /\ \A v \in Worker : pc[v] \in Holding => v = w
  BY <1>1, Holder, Zenon
<1>3. PICK c \in Chk : c = used[2]
  BY <1>2, Places, Zenon
<1>4. /\ UNCHANGED <<used, iteration, num_workers, has, given, output, currentIter, mainPc,
                     firstIter, endIter, mainIter, adopted>>
      /\ OthersSame(w) /\ pc'[w] = "dead" /\ misspec' = TRUE /\ misspecIter' = At(2)
      /\ \A d \in Chk \ {c} : type'[d] = type[d]
  BY <1>1, <1>2, <1>3, Zenon DEF commit_misspec, misspec_at, TypeOK, OthersSame, At
<1>5. /\ Labels' = Labels /\ \A d : Filled(d)' = Filled(d)
      /\ \A l : UpTo(l)' = UpTo(l) /\ Before(l)' = Before(l)
  BY <1>4, Zenon DEF Labels, Filled, UpTo, Before, IsCheckpointed
<1>6. ~Popping /\ ~Popping' /\ \A v \in Worker : pc'[v] \notin Holding
  BY <1>1, <1>2, <1>4, Zenon DEF OthersSame, Holding, Popping
<1> HIDE DEF Labels, UpTo, Before, Filled
<1>7. \A v \in Worker : TurnOK(v)'
  <2>1. TurnOK(w)'
    BY <1>1, <1>4, <1>5, Zenon DEF TurnOK, PreFill, Committing, Reading, Holding
  <2>2. QED  BY <1>4, <1>5, <2>1, TurnOthers, Zenon DEF RInv
<1>8. type'[used[1]] = "Free"
  <2>1. used[1] \in Chk \ {c}
    BY <1>2, <1>3, Places, Zenon
  <2>2. QED  BY <1>2, <1>4, <2>1, Zenon
<1>9. OrderInv'
  <2>1. OutputInOrder' /\ UsedOrdered' /\ Known' = Known
    BY <1>4, <1>5, OutputSame, UsedSame, KnownSame, Zenon DEF RInv, OrderInv
  <2>2. QED  BY <1>2, <1>4, <1>5, <1>6, <1>8, <2>1, Zenon DEF RInv, OrderInv, At
<1>10. FilledInv'
  BY <1>4, <1>5, Zenon DEF RInv, FilledInv
<1>11. HeapInv'
  BY <1>4, <1>5, <1>6, Zenon DEF RInv, HeapInv, All, Own
<1>12. FailInv'
  <2>1. firstIter <= At(2)
    <3>1. At(2) \in Labels /\ At(2) \in Int
      BY <1>2, Places, Zenon
    <3>2. firstIter \in Int /\ firstIter < LastIteration
      BY <1>1, IterAssumption DEF TypeOK, Iter
    <3>3. At(2) = LastIteration \/ firstIter < At(2)
      BY <1>1, <3>1, LabelFacts, Zenon
    <3>4. QED  BY <3>1, <3>2, <3>3, IterAssumption
  <2>2. Blocked'
    BY <1>2, <1>4, <1>6, <1>8, Zenon DEF Blocked
  <2>3. QED  BY <1>2, <1>4, <2>1, <2>2, Zenon DEF FailInv
<1>13. JoinInv'
  BY <1>2, <1>4, <1>5, Zenon DEF RInv, JoinInv, AdoptedPrefix, RegionComplete
<1>14. QED  BY <1>4, <1>7, <1>9, <1>10, <1>11, <1>12, <1>13, Zenon DEF RInv

\* What the heaps up to the front checkpoint hold, and with the second one.
LEMMA FrontHeap ==
  ASSUME IInv, RInv, mainPc \in {"join", "adopt"}, used # <<>>, ~Popping,
         Filled(used[1]) = Worker, num_workers[used[1]] > 0
  PROVE  /\ \A w \in Worker : At(1) \in given[w]
         /\ adopted \cup has[used[1]] = Worker \X UpTo(At(1))
         /\ Len(used) > 1 /\ num_workers[used[2]] > 0 =>
              adopted \cup has[used[1]] \cup has[used[2]] = All(used[2])
<1>1. /\ 1 \in DOMAIN used /\ used[1] \in Range(used) /\ At(1) \in Labels
      /\ Len(used) > 1 => 2 \in DOMAIN used /\ used[2] \in Range(used)
  <2>1. 1 \in DOMAIN used /\ (Len(used) > 1 => 2 \in DOMAIN used)
    BY Places
  <2>2. QED  BY <2>1, Places, Zenon
<1>2. \A w \in Worker : At(1) \in given[w]
  BY <1>1, Zenon DEF IInv, GivenInv, At
<1>3. UpTo(At(1)) = Before(At(1)) \cup {At(1)}
  BY <1>1, UpToFacts, Zenon DEF IInv
<1>4. Len(used) > 1 => Before(At(2)) = UpTo(At(1))
  BY FrontLabels, Zenon
<1> HIDE DEF UpTo, Before, Filled
<1>5. adopted \cup has[used[1]] = Worker \X UpTo(At(1))
  <2>1. adopted \cup has[used[1]] = All(used[1])
    BY <1>1, Zenon DEF RInv, HeapInv
  <2>2. All(used[1]) = (Worker \X {At(1)}) \cup (Worker \X Before(At(1)))
    BY Zenon DEF All, Own, At
  <2>3. QED  BY <1>3, <2>1, <2>2, Zenon
<1>6. ASSUME Len(used) > 1, num_workers[used[2]] > 0
      PROVE  adopted \cup has[used[1]] \cup has[used[2]] = All(used[2])
  <2>1. has[used[2]] = Own(used[2])
    BY <1>1, <1>6 DEF RInv, HeapInv
  <2>2. All(used[2]) = Own(used[2]) \cup (Worker \X UpTo(At(1)))
    BY <1>4, <1>6, Zenon DEF All, At
  <2>3. QED  BY <1>5, <2>1, <2>2, Zenon
<1>7. QED  BY <1>2, <1>5, <1>6, Zenon

\* The output gets the label that is due.
LEMMA AppendOutput ==
  ASSUME TypeOK, OutputInOrder, NEW l \in Labels, Range(output) = Before(l),
         output' = Append(output, l), UNCHANGED region
  PROVE  OutputInOrder' /\ Range(output') = Range(output) \cup {l}
<1>1. output \in Seq(Label) /\ l \in Label /\ Labels' = Labels
  <2>1. l \in Label
    BY LabelFacts, Zenon
  <2>2. QED  BY <2>1, Zenon DEF TypeOK, region, Labels, IsCheckpointed
<1> PICK n \in Nat : n = Len(output)
  BY <1>1, SeqFacts, Zenon
<1>2. /\ DOMAIN output = 1..n /\ DOMAIN output' = 1..(n + 1)
      /\ output'[n + 1] = l /\ \A i \in 1..n : output'[i] = output[i]
      /\ Range(output') = Range(output) \cup {l}
  BY <1>1, AppendSeq, AppendFacts, SeqFacts
<1> HIDE DEF Labels
<1>3. ASSUME NEW i \in 1..(n + 1)
      PROVE  {output'[j] : j \in 1..(i - 1)} = {k \in Labels : k < output'[i]}
  <2>1. {output'[j] : j \in 1..(i - 1)} = {output[j] : j \in 1..(i - 1)}
    <3>1. \A j \in 1..(i - 1) : j \in 1..n
      OBVIOUS
    <3>2. QED  BY <1>2, <3>1, Zenon
  <2>2. CASE i = n + 1
    <3>1. i - 1 = n
      BY <2>2
    <3>2. {output[j] : j \in 1..n} = Before(l)
      BY <1>2, Zenon DEF Range
    <3>3. QED  BY <1>2, <2>1, <2>2, <3>1, <3>2 DEF Before
  <2>3. CASE i \in 1..n
    BY <1>2, <2>1, <2>3, Zenon DEF OutputInOrder
  <2>4. QED  BY <2>2, <2>3
<1>4. QED  BY <1>1, <1>2, <1>3, Zenon DEF OutputInOrder

\* The list without its front.
LEMMA TailPlaces ==
  ASSUME IInv, RInv, used # <<>>, used' = Tail(used), UNCHANGED <<iteration, region>>
  PROVE  /\ \A i \in DOMAIN used' : /\ i \in Nat /\ i > 0 /\ i + 1 \in DOMAIN used
                                    /\ used'[i] = used[i + 1] /\ At(i)' = At(i + 1)
                                    /\ At(i)' \in Labels /\ At(1) < At(i)'
         /\ Range(used') = Range(used) \ {used[1]}
         /\ used' # <<>> <=> Len(used) > 1
         /\ used' # <<>> => used'[1] = used[2] /\ 1 \in DOMAIN used'
         /\ UsedOrdered'
         /\ {iteration[c] : c \in Range(used)} = {iteration'[c] : c \in Range(used')} \cup {At(1)}
<1>1. /\ used \in Seq(Chk) /\ Len(used) \in Nat /\ Len(used) > 0 /\ DOMAIN used = 1..Len(used)
      /\ IsInjective(used) /\ \A i \in DOMAIN used : At(i) \in Labels
      /\ used[1] \in Range(used)
  <2>1. IsInjective(used)
    BY Zenon DEF IInv, ListsPartition
  <2>2. 1 \in DOMAIN used
    BY Places
  <2>3. QED  BY <2>1, <2>2, Places, Zenon
<1>2. /\ used' \in Seq(Chk) /\ Len(used') = Len(used) - 1
      /\ \A i \in 1..Len(used') : used'[i] = used[i + 1]
  BY <1>1, TailSeq, Zenon
<1>3. DOMAIN used' = 1..(Len(used) - 1) /\ (used' # <<>> <=> Len(used) > 1)
  BY <1>1, <1>2, SeqFacts
<1>4. Range(used') = Range(used) \ {used[1]}
  BY <1>1, TailFacts, Zenon
<1>5. \A i, j \in DOMAIN used : i < j => At(i) < At(j)
  BY Zenon DEF RInv, OrderInv, UsedOrdered, At
<1>6. ASSUME NEW i \in DOMAIN used'
      PROVE  /\ i \in Nat /\ i > 0 /\ i + 1 \in DOMAIN used
             /\ used'[i] = used[i + 1] /\ At(i)' = At(i + 1)
             /\ At(i)' \in Labels /\ At(1) < At(i)'
  <2>1. i \in Nat /\ i > 0 /\ i + 1 \in DOMAIN used /\ 1 \in DOMAIN used /\ 1 < i + 1
        /\ i \in 1..Len(used')
    BY <1>1, <1>2, <1>3
  <2>2. used'[i] = used[i + 1] /\ At(i)' = At(i + 1)
    BY <1>2, <2>1, Zenon DEF At
  <2>3. QED  BY <1>1, <1>5, <2>1, <2>2, Zenon
<1>7. UsedOrdered'
  <2>1. SUFFICES ASSUME NEW i \in DOMAIN used', NEW j \in DOMAIN used', i < j
                 PROVE  At(i)' < At(j)'
    BY Zenon DEF UsedOrdered, At
  <2>2. i + 1 \in DOMAIN used /\ j + 1 \in DOMAIN used /\ i + 1 < j + 1
    BY <1>6, <2>1
  <2>3. QED  BY <1>5, <1>6, <2>2, Zenon
<1>8. used' # <<>> => used'[1] = used[2] /\ 1 \in DOMAIN used'
  <2>1. ASSUME used' # <<>> PROVE 1 \in 1..Len(used') /\ 1 \in DOMAIN used'
    BY <1>1, <1>2, <1>3, <2>1
  <2>2. QED  BY <1>2, <2>1
<1>9. {iteration[c] : c \in Range(used)} = {iteration'[c] : c \in Range(used')} \cup {At(1)}
  BY <1>1, <1>4, Zenon DEF At
<1>10. QED  BY <1>3, <1>4, <1>6, <1>7, <1>8, <1>9, Zenon

\* Taking the front off the list keeps it in step with the output.
LEMMA PopOrder ==
  ASSUME IInv, RInv, used # <<>>, used' = Tail(used), UNCHANGED <<iteration, given, region>>,
         mainPc \in {"join", "adopt"}, mainPc' = "join" => mainPc = "join",
         mainPc' = "join" => Len(used) > 1 /\ type'[used[2]] # "Partial",
         ~Popping', OutputInOrder', Range(output') = Range(output) \cup {At(1)},
         \A w \in Worker : At(1) \in given[w]
  PROVE  OrderInv'
<1>1. /\ Labels' = Labels /\ \A l : Before(l)' = Before(l)
  BY Zenon DEF region, Labels, Before, IsCheckpointed
<1>2. /\ \A i \in DOMAIN used' : /\ i \in Nat /\ i > 0 /\ i + 1 \in DOMAIN used
                                 /\ At(i)' = At(i + 1) /\ At(i)' \in Labels /\ At(1) < At(i)'
      /\ used' # <<>> <=> Len(used) > 1
      /\ used' # <<>> => used'[1] = used[2]
      /\ UsedOrdered'
  BY TailPlaces, Zenon
<1>3. Known' = Known
  <2>1. {iteration[c] : c \in Range(used)} = {iteration'[c] : c \in Range(used')} \cup {At(1)}
    BY TailPlaces, Zenon
  <2>2. QED  BY <2>1, Zenon DEF Known
<1>4. At(1) \in Labels
  <2>1. 1 \in DOMAIN used
    BY Places
  <2>2. QED  BY <2>1, Places, Zenon
<1> HIDE DEF Labels, Before
<1>5. ASSUME NEW l \in Range(output') PROVE l \in Labels' /\ \A w \in Worker : l \in given'[w]
  BY <1>1, <1>4, Zenon DEF RInv, OrderInv
<1>6. ASSUME NEW l \in Range(output'), NEW i \in DOMAIN used' PROVE l < At(i)'
  <2>1. CASE l = At(1)
    BY <1>2, <2>1, Zenon
  <2>2. CASE l \in Range(output)
    <3>1. i + 1 # 1
      BY <1>2
    <3>2. QED  BY <1>2, <2>2, <3>1 DEF RInv, OrderInv
  <2>3. QED  BY <2>1, <2>2, Zenon
<1>7. /\ \A l \in Known' : Before(l)' \subseteq Known'
      /\ mainPc' = "join" => /\ \A w \in Worker : given'[w] \subseteq Known'
                             /\ used' # <<>> /\ type'[used'[1]] # "Partial"
  BY <1>1, <1>2, <1>3, Zenon DEF RInv, OrderInv
<1>8. QED  BY <1>1, <1>2, <1>5, <1>6, <1>7, Zenon DEF OrderInv

\* The next checkpoint becomes the one whose heaps hold everything.
LEMMA PopHeap ==
  ASSUME IInv, RInv, used # <<>>, used' = Tail(used),
         UNCHANGED <<iteration, num_workers, region>>,
         mainPc \in {"join", "adopt"}, ~Popping',
         \A c \in Range(used') : Filled(c)' = Filled(c),
         \A c \in Range(used') : c # used[2] => has'[c] = has[c],
         Len(used) > 1 /\ num_workers[used[2]] > 0 => adopted' \cup has'[used[2]] = All(used[2])
  PROVE  HeapInv'
<1>1. SUFFICES ASSUME NEW i \in DOMAIN used', NEW c \in Range(used'),
                      c = used'[i], num_workers'[c] > 0
               PROVE  /\ i = 1 => adopted' \cup has'[c] = All(c)'
                      /\ i > 1 => has'[c] = Own(c)'
  BY Zenon DEF HeapInv
<1>2. /\ i \in Nat /\ i > 0 /\ i + 1 \in DOMAIN used /\ c = used[i + 1] /\ c \in Range(used)
      /\ Range(used') \subseteq Range(used) /\ Len(used) > 1
  BY <1>1, TailPlaces
<1>3. Own(c)' = Own(c) /\ All(c)' = All(c) /\ num_workers[c] > 0
  BY <1>1, Zenon DEF Own, All, Before, Labels, IsCheckpointed, region
<1>4. CASE i = 1
  <2>1. c = used[2]
    BY <1>2, <1>4
  <2>2. adopted' \cup has'[c] = All(c)'
    BY <1>2, <1>3, <2>1, Zenon
  <2>3. QED  BY <1>4, <2>2
<1>5. CASE i > 1
  <2>1. i + 1 > 2 /\ i + 1 # 2 /\ i + 1 > 1
    BY <1>2, <1>5
  <2>2. c # used[2]
    <3>1. 2 \in DOMAIN used
      BY <1>2, Places
    <3>2. c = used[2] => At(i + 1) = At(2)
      BY <1>2, Zenon DEF At
    <3>3. QED  BY <1>2, <2>1, <3>1, <3>2, Places, Zenon
  <2>3. has[c] = Own(c)
    BY <1>2, <1>3, <2>1, Zenon DEF RInv, HeapInv
  <2>4. QED  BY <1>3, <1>5, <2>2, <2>3
<1>6. QED  BY <1>2, <1>4, <1>5, Zenon

\* The older checkpoint is added to the newer, and its output performed.
LEMMA CombineRegion ==
  ASSUME IInv, RInv, NEW w \in Worker, commit_combine(w)
  PROVE  RInv'
<1> USE DEF mgr, objs, pcb, locals, mainSt, region, Go
<1>1. TypeOK /\ pc[w] = "combine" /\ pc[w] \in Holding /\ TurnOK(w) /\ has \in [Chk -> SUBSET (Worker \X Label)]
      /\ OutputInOrder
  BY Zenon DEF IInv, RInv, OrderInv, commit_combine, Holding, TypeOK
<1>2. /\ mainPc = "join" /\ used # <<>> /\ Len(used) > 1 /\ 1 \in DOMAIN used /\ 2 \in DOMAIN used
      /\ alpha[w] = used[1] /\ beta[w] = used[2] /\ used[1] # used[2]
      /\ type[used[1]] = "Free" /\ Filled(used[1]) = Worker /\ Filled(used[2]) = Worker
      /\ num_workers[used[1]] > 0 /\ num_workers[used[2]] > 0
      /\ \A v \in Worker : pc[v] \in Holding => v = w
  BY <1>1, Holder, Zenon
<1>3. PICK a \in Chk, b \in Chk : a = used[1] /\ b = used[2] /\ a # b
                                  /\ a \in Range(used) /\ b \in Range(used)
  BY <1>2, Places, Zenon
<1>4. /\ UNCHANGED <<used, iteration, num_workers, type, given, misspec, misspecIter, alpha, ret, eff,
                     currentIter, mainPc, firstIter, endIter, mainIter, adopted>>
      /\ OthersSame(w) /\ pc'[w] = "pop" /\ output' = Append(output, At(1))
      /\ has'[b] = has[b] \cup has[a] /\ \A c \in Chk \ {b} : has'[c] = has[c]
  BY <1>1, <1>2, <1>3, Zenon DEF commit_combine, combine_checkpoints, TypeOK, OthersSame, At
<1>5. /\ Labels' = Labels /\ \A l : UpTo(l)' = UpTo(l) /\ Before(l)' = Before(l)
  BY <1>4, Zenon DEF Labels, UpTo, Before, IsCheckpointed
<1>6. /\ ~Popping /\ Popping' /\ pc'[w] \in Holding
      /\ \A v \in Worker : pc'[v] \in Holding <=> pc[v] \in Holding
      /\ \A v \in Worker : pc[v] = "dead" => pc'[v] = "dead"
  BY <1>1, <1>2, <1>4, Zenon DEF OthersSame, Holding, Popping
<1>7. \A c \in Range(used) : Filled(c)' = Filled(c)
  <2>1. ASSUME NEW c \in Chk, c # b PROVE Filled(c)' = Filled(c)
    BY <1>4, <2>1, Zenon DEF Filled
  <2>2. Filled(b)' = Filled(b)
    BY <1>2, <1>3, <1>4, Zenon DEF Filled
  <2>3. QED  BY <2>1, <2>2, Places, Zenon
<1>8. /\ At(1) \in Labels /\ At(1) \in Known /\ At(1) \in Int
      /\ Range(output) = Before(At(1))
      /\ \A v \in Worker : At(1) \in given[v]
      /\ adopted \cup has[a] = Worker \X UpTo(At(1))
      /\ adopted \cup has[a] \cup has[b] = All(b)
  BY <1>2, <1>3, <1>6, Places, FrontLabels, FrontHeap, Zenon
<1> HIDE DEF Labels, UpTo, Before, Filled
<1>9. \A v \in Worker : TurnOK(v)'
  <2>1. pc[w] \in Committing /\ pc'[w] \in Committing /\ ret'[w] = ret[w] /\ ret[w] \in {"done", "stall"}
    BY <1>1, <1>4, Zenon DEF Committing, Holding, TypeOK
  <2>2. TurnOK(w)'
    <3>1. \/ PreFill(w) /\ PreFill(w)'
          \/ pc[w] \in Committing /\ ret[w] = "done" /\ ret'[w] = "done" /\ pc'[w] \in Committing
      BY <2>1, Zenon DEF PreFill
    <3>2. QED  BY <1>4, <3>1, KeepTurn, Zenon
  <2>3. QED  BY <1>4, <1>5, <2>2, TurnOthers, Zenon DEF RInv
<1>10. OutputInOrder' /\ Range(output') = Range(output) \cup {At(1)}
  BY <1>1, <1>4, <1>8, AppendOutput, Zenon
<1>11. OrderInv'
  <2>1. /\ \A i \in DOMAIN used : At(i)' = At(i) /\ At(i)' \in Labels'
        /\ UsedOrdered' /\ Known' = Known
    <3>1. \A i \in DOMAIN used : At(i)' = At(i) /\ At(i)' \in Labels'
      BY <1>4, <1>5, Zenon DEF At, RInv, OrderInv
    <3>2. UsedOrdered'
      BY <1>4, UsedSame, Zenon DEF RInv, OrderInv
    <3>3. Known' = Known
      BY <1>4, <1>8, <1>10 DEF Known
    <3>4. QED  BY <3>1, <3>2, <3>3, Zenon
  <2>2. ASSUME NEW l \in Range(output') PROVE l \in Labels' /\ \A v \in Worker : l \in given'[v]
    BY <1>4, <1>5, <1>8, <1>10, Zenon DEF RInv, OrderInv
  <2>3. ASSUME NEW l \in Range(output'), NEW i \in DOMAIN used
        PROVE  l < At(i)' \/ (i = 1 /\ l = At(1)' /\ Popping')
    <3>1. CASE l \in Range(output)
      BY <1>6, <2>1, <3>1, Zenon DEF RInv, OrderInv
    <3>2. CASE l = At(1) /\ i # 1
      <4>1. 1 < i
        BY <3>2, Places
      <4>2. QED  BY <1>2, <2>1, <3>2, <4>1, Zenon DEF RInv, OrderInv, UsedOrdered, At
    <3>3. CASE l = At(1) /\ i = 1
      BY <1>2, <1>6, <2>1, <3>3, Zenon
    <3>4. QED  BY <1>10, <3>1, <3>2, <3>3, Zenon
  <2>4. used' # <<>> /\ At(1)' \in Range(output')
    BY <1>2, <1>4, <1>10, <2>1, Zenon
  <2>5. /\ \A l \in Known' : Before(l)' \subseteq Known'
        /\ \A v \in Worker : given'[v] \subseteq Known'
        /\ type'[used'[1]] # "Partial"
    BY <1>2, <1>4, <1>5, <2>1, ZenonT(40) DEF RInv, OrderInv
  <2>6. QED  BY <1>4, <1>10, <2>1, <2>2, <2>3, <2>4, <2>5, ZenonT(40) DEF OrderInv
<1>12. FilledInv'
  <2>1. Range(used') = Range(used)
    BY <1>4, Zenon
  <2>2. \A c \in Range(used) : \A v \in Worker : iteration'[c] \in given'[v] => v \in Filled(c)'
    BY <1>4, <1>7, Zenon DEF RInv, FilledInv
  <2>3. ASSUME NEW c \in Range(used), type'[c] \in {"Free", "Broken"}
        PROVE  misspec' \/ \E v \in Worker : pc'[v] \in Holding /\ alpha'[v] = c
    BY <1>4, <1>6, <2>3, Zenon DEF RInv, FilledInv
  <2>4. QED  BY <2>1, <2>2, <2>3, Zenon DEF FilledInv
<1>13. HeapInv'
  <2>1. SUFFICES ASSUME NEW i \in DOMAIN used, NEW c \in Range(used), c = used[i], num_workers[c] > 0
                 PROVE  /\ i = 1 => adopted \cup has'[c] = All(c)'
                        /\ i = 2 => has'[c] = All(c)'
                        /\ i > 1 /\ i # 2 => has'[c] = Own(c)'
    BY <1>4, <1>6, ZenonT(40) DEF HeapInv
  <2>2. All(c)' = All(c) /\ Own(c)' = Own(c) /\ c \in Chk
    BY <1>4, <1>5, <1>7, Places, Zenon DEF All, Own
  <2>3. i # 2 => c # b
    BY <1>2, <1>3, <2>1, Places, Zenon DEF At
  <2>4. i # 2 => has'[c] = has[c]
    BY <1>4, <2>2, <2>3, Zenon
  <2>5. i = 2 => has'[c] = All(c)
    <3>1. adopted = {}
      BY <1>2, Zenon DEF RInv, JoinInv
    <3>2. QED  BY <1>3, <1>4, <1>8, <2>1, <3>1, Zenon
  <2>6. /\ i = 1 => adopted \cup has[c] = All(c)
        /\ i > 1 => has[c] = Own(c)
    BY <1>2, <1>6, <2>1, Zenon DEF RInv, HeapInv
  <2>7. 1 # 2
    OBVIOUS
  <2>8. QED  BY <2>2, <2>4, <2>5, <2>6, <2>7, Zenon
<1>14. FailInv'
  BY <1>4, <1>6, Zenon DEF RInv, FailInv, Blocked
<1>15. JoinInv'
  BY <1>2, <1>4, <1>5, Zenon DEF RInv, JoinInv, AdoptedPrefix, RegionComplete
<1>16. QED  BY <1>4, <1>9, <1>11, <1>12, <1>13, <1>14, <1>15, Zenon DEF RInv

\* The combined checkpoint leaves the list.
LEMMA PopRegion ==
  ASSUME IInv, RInv, NEW w \in Worker, commit_pop(w)
  PROVE  RInv'
<1> USE DEF mgr, objs, pcb, locals, mainSt, region, Go
<1>1. TypeOK /\ pc[w] = "pop" /\ pc[w] \in Holding /\ TurnOK(w) /\ Popping
  BY Zenon DEF IInv, RInv, commit_pop, Holding, Popping
<1>2. /\ mainPc = "join" /\ used # <<>> /\ Len(used) > 1 /\ 1 \in DOMAIN used /\ 2 \in DOMAIN used
      /\ used[1] # used[2] /\ type[used[2]] = "Complete"
      /\ num_workers[used[2]] > 0 /\ alpha[w] = used[1]
      /\ \A v \in Worker : pc[v] \in Holding => v = w
  BY <1>1, Holder, Zenon
<1>3. /\ UNCHANGED <<iteration, num_workers, has, type, given, misspec, misspecIter, alpha, ret, eff,
                     currentIter, mainPc, firstIter, endIter, mainIter, adopted, output>>
      /\ OthersSame(w) /\ pc'[w] = "unlock" /\ used' = Tail(used)
  BY <1>1, Zenon DEF commit_pop, Recycle, TypeOK, OthersSame
<1>4. /\ Labels' = Labels /\ \A c : Filled(c)' = Filled(c)
      /\ \A l : UpTo(l)' = UpTo(l) /\ Before(l)' = Before(l)
  BY <1>3, Zenon DEF Labels, Filled, UpTo, Before, IsCheckpointed
<1>5. /\ ~Popping' /\ \A v \in Worker : pc'[v] \notin Holding
      /\ \A v \in Worker : pc[v] = "dead" => pc'[v] = "dead"
  BY <1>1, <1>2, <1>3, Zenon DEF OthersSame, Holding, Popping
<1>6. Range(used') = Range(used) \ {used[1]}
  BY <1>2, <1>3, TailPlaces, Zenon
<1> HIDE DEF Labels, UpTo, Before, Filled
<1>7. \A v \in Worker : TurnOK(v)'
  <2>1. pc[w] \in Committing /\ pc'[w] \in Committing /\ ret'[w] = ret[w] /\ ret[w] \in {"done", "stall"}
    BY <1>1, <1>3, Zenon DEF Committing, Holding, TypeOK
  <2>2. TurnOK(w)'
    <3>1. \/ PreFill(w) /\ PreFill(w)'
          \/ pc[w] \in Committing /\ ret[w] = "done" /\ ret'[w] = "done" /\ pc'[w] \in Committing
      BY <2>1, Zenon DEF PreFill
    <3>2. QED  BY <1>3, <3>1, KeepTurn, Zenon
  <2>3. QED  BY <1>3, <1>4, <2>2, TurnOthers, Zenon DEF RInv
<1>8. OrderInv'
  <2>1. At(1) \in Range(output) /\ OutputInOrder' /\ \A v \in Worker : At(1) \in given[v]
    <3>1. At(1) \in Range(output) /\ OutputInOrder /\ \A v \in Worker : At(1) \in given[v]
      BY <1>1, Zenon DEF RInv, OrderInv
    <3>2. OutputInOrder'
      BY <1>3, <1>4, <3>1, OutputSame, Zenon
    <3>3. QED  BY <3>1, <3>2, Zenon
  <2>2. Range(output') = Range(output) \cup {At(1)}
    BY <1>3, <2>1, Zenon
  <2>3. QED  BY <1>2, <1>3, <1>5, <2>1, <2>2, PopOrder, Zenon
<1>9. FilledInv'
  <2>1. ASSUME NEW c \in Range(used'), type'[c] \in {"Free", "Broken"} PROVE misspec
    <3>1. c \in Range(used) /\ c # used[1]
      BY <1>6, <2>1, Zenon
    <3>2. \A v \in Worker : pc[v] \in Holding => alpha[v] # c
      BY <1>2, <3>1, Zenon
    <3>3. QED  BY <1>3, <2>1, <3>1, <3>2, Zenon DEF RInv, FilledInv
  <2>2. QED  BY <1>3, <1>4, <1>6, <2>1, Zenon DEF RInv, FilledInv
<1>10. HeapInv'
  <2>1. adopted \cup has[used[2]] = All(used[2])
    <3>1. adopted = {} /\ used[2] \in Range(used)
      BY <1>2, Places, Zenon DEF RInv, JoinInv
    <3>2. QED  BY <1>1, <1>2, <3>1, Zenon DEF RInv, HeapInv
  <2>2. QED  BY <1>2, <1>3, <1>4, <1>5, <2>1, PopHeap, Zenon
<1>11. FailInv'
  <2>1. ~Blocked
    BY <1>1, Zenon DEF Blocked
  <2>2. QED  BY <1>3, <1>5, <2>1, Zenon DEF RInv, FailInv
<1>12. JoinInv'
  BY <1>2, <1>3, <1>4, Zenon DEF RInv, JoinInv, AdoptedPrefix, RegionComplete
<1>13. QED  BY <1>3, <1>7, <1>8, <1>9, <1>10, <1>11, <1>12, Zenon DEF RInv

-------------------------------------------------------------------------------
(* The main process *)

\* While main is at work, the workers and the region stay as they are.
LEMMA MainTurn ==
  ASSUME RInv, UNCHANGED <<pc, currentIter, eff, ret, given, region>>, misspec => misspec'
  PROVE  \A w \in Worker : TurnOK(w)'
<1>1. \A l : UpTo(l)' = UpTo(l) /\ Before(l)' = Before(l)
  BY Zenon DEF region, UpTo, Before, Labels, IsCheckpointed
<1>2. Labels' = Labels
  BY Zenon DEF region, Labels, IsCheckpointed
<1> HIDE DEF Labels, UpTo, Before
<1>3. ASSUME NEW w \in Worker PROVE TurnOK(w)'
  <2>1. (PreFill(w)' <=> PreFill(w)) /\ (LabelOK(w)' <=> LabelOK(w))
    BY <1>2, Zenon DEF PreFill, LabelOK, region
  <2>2. TurnOK(w)
    BY Zenon DEF RInv
  <2>3. QED  BY <1>1, <1>2, <2>1, <2>2, Zenon DEF TurnOK, region
<1>4. QED  BY <1>3, Zenon

\* At the join of a region that did not misspeculate there is one checkpoint,
\* the final one, and it is complete.
LEMMA CleanJoin ==
  ASSUME IInv, RInv, mainPc = "join", Joined, ~misspec
  PROVE  /\ Len(used) = 1 /\ used # <<>> /\ At(1) = LastIteration
         /\ type[used[1]] = "Complete" /\ Filled(used[1]) = Worker
<1>1. used # <<>> /\ Head(used) = used[1] /\ iteration[Head(used)] = LastIteration
  BY UsedFacts, Zenon DEF Joined, list_empty, IInv
<1>2. At(1) = LastIteration /\ 1 \in DOMAIN used /\ used[1] \in Range(used)
  <2>1. 1 \in DOMAIN used
    BY <1>1, Places
  <2>2. QED  BY <1>1, <2>1, Places, Zenon DEF At
<1>3. Len(used) = 1
  <2>1. SUFFICES ASSUME 2 \in DOMAIN used PROVE FALSE
    BY <1>1, Places
  <2>2. At(1) < At(2) /\ At(2) \in Labels /\ At(2) \in Int
    BY <1>2, <2>1, Places DEF RInv, OrderInv, UsedOrdered, At
  <2>3. LastIteration < At(2)
    BY <1>2, <2>2, Zenon
  <2>4. At(2) = LastIteration \/ At(2) <= endIter
    BY <2>2, LabelFacts, Zenon DEF IInv
  <2>5. endIter \in Int /\ endIter < LastIteration
    BY LabelFacts, Zenon DEF IInv
  <2>6. QED  BY <2>2, <2>3, <2>4, <2>5, IterAssumption
<1>4. \A w \in Worker : pc[w] = "finished" /\ given[w] = Labels
  <2>1. \A w \in Worker : pc[w] = "finished"
    BY Zenon DEF Joined, RInv, TurnOK, Done
  <2>2. QED  BY <2>1, Zenon DEF RInv, TurnOK
<1>5. Filled(used[1]) = Worker
  <2>1. \A w \in Worker : iteration[used[1]] \in given[w]
    BY <1>2, <1>4, Places, Zenon DEF At
  <2>2. Filled(used[1]) \subseteq Worker
    BY Zenon DEF Filled
  <2>3. \A w \in Worker : w \in Filled(used[1])
    BY <1>2, <2>1, Zenon DEF RInv, FilledInv
  <2>4. QED  BY <2>2, <2>3, Zenon
<1>6. type[used[1]] = "Complete"
  <2>1. type[used[1]] \in Life /\ type[used[1]] # "Partial"
    BY <1>2, <1>5, Places, Zenon DEF IInv, CountInv, TypeOK
  <2>2. type[used[1]] \notin {"Free", "Broken"}
    BY <1>2, <1>4, Zenon DEF RInv, FilledInv, Holding
  <2>3. QED  BY <2>1, <2>2, Zenon DEF Life
<1>7. QED  BY <1>1, <1>2, <1>3, <1>5, <1>6, Zenon

LEMMA CompleteFacts ==
  ASSUME IInv, RInv, NEW c \in Range(used), type[c] = "Complete"
  PROVE  Filled(c) = Worker /\ num_workers[c] > 0
<1>1. Filled(c) = Worker /\ num_workers[c] \in Nat
  BY Places, Zenon DEF IInv, CountInv, TypeOK
<1>2. num_workers[c] # 0
  BY <1>1, WorkerAssumption, Zenon DEF Filled
<1>3. QED  BY <1>1, <1>2

\* Nothing has been adopted at the join, so recovery is behind nothing.
LEMMA JoinFails ==
  ASSUME IInv, RInv, mainPc = "join", misspec
  PROVE  firstIter <= misspecIter /\ mainIter <= misspecIter
<1>1. firstIter \in Int /\ misspecIter \in Int /\ mainIter \in Int
  BY IterAssumption DEF IInv, TypeOK, Iter, Label
<1>2. firstIter <= misspecIter /\ mainIter < firstIter
  BY Zenon DEF RInv, FailInv, JoinInv
<1>3. QED  BY <1>1, <1>2

\* Main commits once more: there is no pair to combine.
LEMMA CommitNothing ==
  ASSUME IInv, RInv, distill_commit, ~CompletePair
  PROVE  RInv'
<1> USE DEF mgr, objs, pcb, locals, mainSt, region
<1>1. /\ mainPc = "join" /\ Joined /\ mainPc' = "adopt"
      /\ UNCHANGED <<used, iteration, num_workers, has, type, given, misspec, misspecIter, alpha, ret,
                     eff, pc, currentIter, firstIter, endIter, mainIter, adopted, output>>
  BY Zenon DEF distill_commit
<1>2. /\ Labels' = Labels /\ \A c : Filled(c)' = Filled(c) /\ Own(c)' = Own(c) /\ All(c)' = All(c)
      /\ \A l : Before(l)' = Before(l)
  BY <1>1, Zenon DEF Labels, Filled, Before, Own, All, IsCheckpointed
<1>3. \A w \in Worker : TurnOK(w)'
  BY <1>1, MainTurn, Zenon
<1> HIDE DEF Labels, Before, Filled
<1>4. OrderInv' /\ FilledInv' /\ HeapInv'
  <2>1. (Popping' <=> Popping) /\ Known' = Known /\ OutputInOrder' /\ UsedOrdered'
    BY <1>1, <1>2, OutputSame, UsedSame, KnownSame, Zenon DEF Popping, RInv, OrderInv
  <2>2. OrderInv'
    BY <1>1, <1>2, <2>1, Zenon DEF RInv, OrderInv, At
  <2>3. FilledInv'
    BY <1>1, <1>2, Zenon DEF RInv, FilledInv
  <2>4. HeapInv'
    BY <1>1, <1>2, <2>1, ZenonT(40) DEF RInv, HeapInv
  <2>5. QED  BY <2>2, <2>3, <2>4, Zenon
<1>5. FailInv'
  BY <1>1, JoinFails, Zenon DEF RInv, FailInv, Blocked
<1>6. JoinInv'
  <2>1. adopted = {}
    BY <1>1, Zenon DEF RInv, JoinInv
  <2>2. ~misspec => Len(used) = 1 /\ type[used[1]] = "Complete" /\ At(1) = LastIteration
    BY <1>1, CleanJoin, Zenon
  <2>3. At(1)' = At(1)
    BY <1>1, Zenon DEF At
  <2>4. QED  BY <1>1, <2>1, <2>2, <2>3, Zenon DEF JoinInv, AdoptedPrefix, RegionComplete
<1>7. QED  BY <1>1, <1>3, <1>4, <1>5, <1>6, Zenon DEF RInv

\* Main commits once more: the two oldest checkpoints are complete.
LEMMA CommitPair ==
  ASSUME IInv, RInv, distill_commit, CompletePair
  PROVE  RInv'
<1> USE DEF mgr, objs, pcb, locals, mainSt, region
<1>1. /\ mainPc = "join" /\ Joined /\ Len(used) > 1 /\ used # <<>>
      /\ 1 \in DOMAIN used /\ 2 \in DOMAIN used
      /\ type[used[1]] = "Complete" /\ type[used[2]] = "Complete"
      /\ TypeOK /\ OutputInOrder /\ misspec /\ adopted = {} /\ has \in [Chk -> SUBSET (Worker \X Label)]
  <2>1. mainPc = "join" /\ Joined /\ CompletePair
    BY Zenon DEF distill_commit
  <2>2. used # <<>> /\ 1 \in DOMAIN used /\ 2 \in DOMAIN used /\ Len(used) # 1
    BY <2>1, Places DEF CompletePair
  <2>3. QED  BY <2>1, <2>2, CleanJoin, Zenon DEF CompletePair, IInv, RInv, OrderInv, JoinInv, TypeOK
<1>2. PICK a \in Chk, b \in Chk : a = used[1] /\ b = used[2] /\ a # b
                                  /\ a \in Range(used) /\ b \in Range(used)
  <2>1. used[1] # used[2]
    BY <1>1, UsedFacts, Zenon DEF IInv
  <2>2. QED  BY <1>1, <2>1, Places, Zenon
<1>3. /\ UNCHANGED <<iteration, num_workers, given, misspec, misspecIter, alpha, ret,
                     eff, pc, currentIter, firstIter, endIter, mainIter, adopted>>
      /\ mainPc' = "adopt" /\ output' = Append(output, At(1)) /\ used' = Tail(used)
      /\ has'[b] = has[b] \cup has[a] /\ \A c \in Chk \ {b} : has'[c] = has[c]
      /\ \A c \in Chk \ {a} : type'[c] = type[c]
  BY <1>1, <1>2, Zenon DEF distill_commit, CompletePair, combine_checkpoints, Recycle, At, TypeOK
<1>4. ~Popping /\ ~Popping'
  BY <1>1, <1>3, Zenon DEF Joined, Done, Popping
<1>5. /\ Filled(a) = Worker /\ num_workers[a] > 0 /\ Filled(b) = Worker /\ num_workers[b] > 0
  BY <1>1, <1>2, CompleteFacts, Zenon
<1>6. /\ At(1) \in Labels /\ Range(output) = Before(At(1))
      /\ \A v \in Worker : At(1) \in given[v]
      /\ adopted \cup has[a] \cup has[b] = All(b)
  BY <1>1, <1>2, <1>4, <1>5, Places, FrontLabels, FrontHeap, Zenon
<1>7. OutputInOrder' /\ Range(output') = Range(output) \cup {At(1)}
  BY <1>1, <1>3, <1>6, AppendOutput, Zenon
<1>8. Range(used') = Range(used) \ {a} /\ Range(used) \subseteq Chk
  BY <1>1, <1>2, <1>3, TailPlaces, Places, Zenon
<1>9. \A c \in Range(used') : Filled(c)' = Filled(c)
  <2>1. ASSUME NEW c \in Chk, c # b PROVE Filled(c)' = Filled(c)
    BY <1>3, <2>1, Zenon DEF Filled
  <2>2. Filled(b)' = Filled(b)
    BY <1>3, <1>5, Zenon DEF Filled
  <2>3. QED  BY <1>8, <2>1, <2>2, Zenon
<1>10. \A w \in Worker : TurnOK(w)'
  BY <1>3, MainTurn, Zenon
<1> HIDE DEF Filled, Labels, Before
<1>11. OrderInv'
  BY <1>1, <1>3, <1>4, <1>6, <1>7, PopOrder, ZenonT(40)
<1>12. FilledInv'
  BY <1>1, <1>3, <1>8, <1>9 DEF RInv, FilledInv
<1>13. HeapInv'
  <2>1. \A c \in Range(used') : c # used[2] => has'[c] = has[c]
    BY <1>2, <1>3, <1>8, Zenon
  <2>2. adopted' \cup has'[used[2]] = All(used[2])
    BY <1>1, <1>2, <1>3, <1>6, Zenon
  <2>3. QED  BY <1>1, <1>3, <1>4, <1>9, <2>1, <2>2, PopHeap, Zenon
<1>14. FailInv'
  <2>1. ~Blocked
    BY <1>1, Zenon DEF Blocked
  <2>2. QED  BY <1>1, <1>3, <2>1, JoinFails, Zenon DEF RInv, FailInv
<1>15. JoinInv'
  BY <1>1, <1>3, Zenon DEF JoinInv, AdoptedPrefix, RegionComplete
<1>16. QED  BY <1>3, <1>10, <1>11, <1>12, <1>13, <1>14, <1>15, Zenon DEF RInv

\* The combination fails in the main process.
LEMMA CommitCrashes ==
  ASSUME IInv, RInv, distill_misspec
  PROVE  RInv'
<1> USE DEF mgr, objs, pcb, locals, mainSt, region
<1>1. /\ mainPc = "join" /\ mainPc' = "crashed" /\ misspec' = TRUE
      /\ UNCHANGED <<used, iteration, num_workers, has, given, alpha, ret,
                     eff, pc, currentIter, firstIter, endIter, mainIter, adopted, output>>
  BY Zenon DEF distill_misspec
<1>2. Labels' = Labels /\ \A c : Filled(c)' = Filled(c)
  BY <1>1, Zenon DEF Labels, Filled, IsCheckpointed
<1>3. \A w \in Worker : TurnOK(w)'
  BY <1>1, MainTurn, Zenon
<1> HIDE DEF Labels, Filled
<1>4. OrderInv'
  <2>1. (Popping' <=> Popping) /\ OutputInOrder' /\ UsedOrdered'
    BY <1>1, <1>2, OutputSame, UsedSame, Zenon DEF Popping, RInv, OrderInv
  <2>2. QED  BY <1>1, <1>2, <2>1, ZenonT(40) DEF RInv, OrderInv, At
<1>5. FilledInv' /\ HeapInv' /\ FailInv'
  BY <1>1, <1>2, Zenon DEF RInv, FilledInv, HeapInv, FailInv
<1>6. JoinInv'
  BY <1>1, Zenon DEF RInv, JoinInv, AdoptedPrefix, RegionComplete
<1>7. QED  BY <1>1, <1>3, <1>4, <1>5, <1>6, Zenon DEF RInv

\* Main adopts the front checkpoint: everything up to its label.
LEMMA AdoptRegion ==
  ASSUME IInv, RInv, distill_adopt
  PROVE  /\ RInv' /\ At(1) \in Labels /\ Range(output) = Before(At(1))
         /\ output' = Append(output, At(1)) /\ adopted' = Worker \X UpTo(At(1))
         /\ \A w \in Worker : At(1) \in given[w]
<1> USE DEF mgr, objs, pcb, locals, mainSt, region
<1>1. /\ TypeOK /\ OutputInOrder /\ mainPc = "adopt" /\ used # <<>> /\ 1 \in DOMAIN used
      /\ Head(used) = used[1] /\ used[1] \in Chk /\ used[1] \in Range(used)
      /\ type[used[1]] = "Complete"
  <2>1. used # <<>> /\ mainPc = "adopt"
    BY Zenon DEF distill_adopt, list_empty
  <2>2. 1 \in DOMAIN used
    BY <2>1, Places
  <2>3. Head(used) = used[1]
    BY <2>1, UsedFacts, Zenon DEF IInv
  <2>4. QED  BY <2>1, <2>2, <2>3, Places, Zenon DEF distill_adopt, IInv, RInv, OrderInv
<1>2. PICK a \in Chk : a = used[1]
  BY <1>1, Zenon
<1>3. /\ UNCHANGED <<iteration, num_workers, has, given, misspec, misspecIter, alpha, ret,
                     eff, pc, currentIter, firstIter, endIter, mainPc>>
      /\ output' = Append(output, At(1)) /\ used' = Tail(used)
      /\ adopted' = adopted \cup has[a] /\ mainIter' = At(1)
      /\ \A c \in Chk \ {a} : type'[c] = type[c]
  BY <1>1, <1>2, Zenon DEF distill_adopt, Recycle, At, TypeOK
<1>4. ~Popping /\ ~Popping'
  BY <1>1, <1>3, Zenon DEF IInv, MainInv, Done, Popping
<1>5. Filled(a) = Worker /\ num_workers[a] > 0
  BY <1>1, <1>2, CompleteFacts, Zenon
<1>6. /\ At(1) \in Labels /\ Range(output) = Before(At(1))
      /\ \A v \in Worker : At(1) \in given[v]
      /\ adopted' = Worker \X UpTo(At(1))
      /\ Len(used) > 1 /\ num_workers[used[2]] > 0 => adopted' \cup has[used[2]] = All(used[2])
  BY <1>1, <1>2, <1>3, <1>4, <1>5, Places, FrontLabels, FrontHeap, Zenon
<1>7. OutputInOrder' /\ Range(output') = Range(output) \cup {At(1)}
  BY <1>1, <1>3, <1>6, AppendOutput, Zenon
<1>8. Range(used') = Range(used) \ {a} /\ Range(used) \subseteq Chk /\ (used' # <<>> <=> Len(used) > 1)
  BY <1>1, <1>2, <1>3, TailPlaces, Places, Zenon
<1>9. /\ Labels' = Labels /\ \A c : Filled(c)' = Filled(c)
      /\ UpTo(LastIteration) = Labels
  BY <1>1, <1>3, UpToFacts, Zenon DEF Filled, Labels, IsCheckpointed
<1>10. \A w \in Worker : TurnOK(w)'
  BY <1>3, MainTurn, Zenon
<1> HIDE DEF Filled, Labels, Before, UpTo
<1>11. OrderInv'
  BY <1>1, <1>3, <1>4, <1>6, <1>7, PopOrder, Zenon
<1>12. FilledInv'
  <2>1. ASSUME NEW c \in Range(used'), type'[c] \in {"Free", "Broken"} PROVE misspec
    <3>1. c \in Range(used) /\ type[c] = type'[c]
      BY <1>3, <1>8, Zenon
    <3>2. \A v \in Worker : pc[v] \notin Holding
      BY <1>1, Zenon DEF IInv, MainInv, Done, Holding
    <3>3. QED  BY <2>1, <3>1, <3>2, Zenon DEF RInv, FilledInv
  <2>2. QED  BY <1>3, <1>8, <1>9, <2>1, Zenon DEF RInv, FilledInv
<1>13. HeapInv'
  BY <1>1, <1>3, <1>4, <1>6, <1>9, PopHeap, Zenon
<1>14. FailInv'
  <2>1. SUFFICES ASSUME misspec PROVE FailInv'
    BY <1>3, Zenon DEF FailInv
  <2>2. ~Blocked
    BY <1>1, Zenon DEF Blocked
  <2>3. firstIter <= misspecIter
        /\ \E w \in Worker : pc[w] = "dead" /\ \A l \in given[w] : l <= misspecIter
    BY <1>1, <2>1, <2>2, Zenon DEF RInv, FailInv
  <2>4. At(1) <= misspecIter
    BY <1>6, <2>3, Zenon
  <2>5. QED  BY <1>3, <2>3, <2>4, Zenon DEF FailInv
<1>15. JoinInv'
  <2>1. AdoptedPrefix'
    BY <1>3, <1>6, <1>9, Zenon DEF AdoptedPrefix, UpTo
  <2>2. ~misspec => used' = <<>> /\ adopted' = Worker \X Labels
    <3>1. ~misspec => Len(used) = 1 /\ At(1) = LastIteration
      BY <1>1, Zenon DEF RInv, JoinInv
    <3>2. Len(used) = 1 => ~(Len(used) > 1)
      OBVIOUS
    <3>3. QED  BY <1>6, <1>8, <1>9, <3>1, <3>2, Zenon
  <2>3. QED  BY <1>1, <1>3, <1>9, <2>1, <2>2, Zenon DEF JoinInv, RegionComplete
<1>16. QED  BY <1>3, <1>6, <1>10, <1>11, <1>12, <1>13, <1>14, <1>15, Zenon DEF RInv

\* Main squashes a checkpoint, which only a misspeculation makes it do.
LEMMA SquashRegion ==
  ASSUME IInv, RInv, distill_squash
  PROVE  RInv' /\ misspec
<1> USE DEF mgr, objs, pcb, locals, mainSt, region
<1>1. /\ mainPc \in {"adopt", "squash"} /\ used # <<>> /\ Head(used) = used[1] /\ used[1] \in Chk
      /\ mainPc = "adopt" => type[used[1]] # "Complete"
  <2>1. used # <<>> /\ mainPc \in {"adopt", "squash"}
    BY Zenon DEF distill_squash, list_empty
  <2>2. Head(used) = used[1]
    BY <2>1, UsedFacts, Zenon DEF IInv
  <2>3. 1 \in DOMAIN used
    BY <2>1, Places
  <2>4. QED  BY <2>1, <2>2, <2>3, Places, Zenon DEF distill_squash
<1>2. misspec
  BY <1>1, Zenon DEF RInv, JoinInv
<1>3. /\ UNCHANGED <<iteration, num_workers, has, given, misspec, misspecIter, alpha, ret,
                     eff, pc, currentIter, firstIter, endIter, mainIter, adopted, output>>
      /\ used' = Tail(used) /\ mainPc' = "squash"
  BY Zenon DEF distill_squash, Recycle
<1>4. /\ \A i \in DOMAIN used' : /\ i \in Nat /\ i > 0 /\ i + 1 \in DOMAIN used
                                 /\ At(i)' = At(i + 1) /\ At(i)' \in Labels
      /\ UsedOrdered' /\ Range(used') \subseteq Range(used)
  BY <1>1, <1>3, TailPlaces, Zenon
<1>5. ~Popping'
  BY <1>1, <1>3, Zenon DEF IInv, MainInv, Done, Popping
<1>6. Labels' = Labels /\ \A c : Filled(c)' = Filled(c)
  BY <1>3, Zenon DEF Labels, Filled, IsCheckpointed
<1>7. \A w \in Worker : TurnOK(w)'
  BY <1>3, MainTurn, Zenon
<1> HIDE DEF Labels, Filled
<1>8. OrderInv'
  <2>1. ASSUME NEW l \in Range(output'), NEW i \in DOMAIN used' PROVE l < At(i)'
    <3>1. i + 1 # 1
      BY <1>4
    <3>2. QED  BY <1>3, <1>4, <2>1, <3>1 DEF RInv, OrderInv
  <2>2. OutputInOrder' /\ \A l \in Range(output') : l \in Labels' /\ \A w \in Worker : l \in given'[w]
    BY <1>3, <1>6, OutputSame, Zenon DEF RInv, OrderInv
  <2>3. QED  BY <1>3, <1>4, <1>5, <1>6, <2>1, <2>2, Zenon DEF OrderInv
<1>9. FilledInv' /\ HeapInv'
  BY <1>2, <1>3, <1>4, <1>6, Zenon DEF RInv, FilledInv, HeapInv
<1>10. FailInv' /\ JoinInv'
  BY <1>1, <1>2, <1>3, <1>6, Zenon DEF RInv, FailInv, JoinInv, AdoptedPrefix, RegionComplete
<1>11. QED  BY <1>2, <1>3, <1>7, <1>8, <1>9, <1>10, Zenon DEF RInv

\* The region is over.
LEMMA EndRegion ==
  ASSUME IInv, RInv, distill_end
  PROVE  RInv'
<1> USE DEF mgr, objs, pcb, locals, mainSt, region
<1>1. /\ mainPc \in {"adopt", "squash"} /\ used = <<>> /\ mainPc' = "idle"
      /\ UNCHANGED <<used, iteration, num_workers, has, given, misspec, misspecIter, alpha, ret, type,
                     eff, pc, currentIter, firstIter, endIter, mainIter, adopted, output>>
  BY Zenon DEF distill_end, list_empty
<1>2. Labels' = Labels /\ \A c : Filled(c)' = Filled(c)
  BY <1>1, Zenon DEF Labels, Filled, IsCheckpointed
<1>3. \A w \in Worker : TurnOK(w)'
  BY <1>1, MainTurn, Zenon
<1> HIDE DEF Labels, Filled
<1>4. OrderInv'
  <2>1. (Popping' <=> Popping) /\ OutputInOrder' /\ UsedOrdered'
    BY <1>1, <1>2, OutputSame, UsedSame, Zenon DEF Popping, RInv, OrderInv
  <2>2. QED  BY <1>1, <1>2, <2>1, Zenon DEF RInv, OrderInv, At
<1>5. FilledInv' /\ HeapInv' /\ FailInv'
  BY <1>1, <1>2, Zenon DEF RInv, FilledInv, HeapInv, FailInv
<1>6. JoinInv'
  <2>1. Len(<<>>) # 1
    OBVIOUS
  <2>2. ~misspec => adopted = Worker \X Labels
    BY <1>1, <2>1, Zenon DEF RInv, JoinInv
  <2>3. QED  BY <1>1, <1>2, <2>2, Zenon DEF RInv, JoinInv, AdoptedPrefix, RegionComplete
<1>7. QED  BY <1>1, <1>3, <1>4, <1>5, <1>6, Zenon DEF RInv

-------------------------------------------------------------------------------
(* Starting a region *)

Fresh ==
  /\ used = <<>> /\ output = <<>> /\ adopted = {} /\ misspec = FALSE /\ mainPc = "join"
  /\ firstIter \in Iter /\ endIter \in firstIter..MaxIter /\ mainIter < firstIter
  /\ \A w \in Worker : pc[w] = "run" /\ currentIter[w] = firstIter /\ given[w] = {}

LEMMA FreshRegion == Fresh => RInv
<1> SUFFICES ASSUME Fresh PROVE RInv
  BY Zenon
<1>1. firstIter \in Int /\ endIter \in Int /\ firstIter <= endIter /\ firstIter <= MaxIter
      /\ firstIter \in firstIter..endIter
  BY IterAssumption DEF Fresh, Iter
<1>2. UpTo(firstIter) = {}
  <2>1. \A l \in Labels : ~(l <= firstIter)
    BY <1>1, IterAssumption DEF Labels, Iter
  <2>2. QED  BY <2>1, Zenon DEF UpTo
<1>3. \A w \in Worker : TurnOK(w)
  BY <1>1, <1>2, Zenon DEF Fresh, TurnOK, PreFill, Committing, Reading, Holding
<1>4. Range(used) = {} /\ Range(output) = {} /\ DOMAIN used = {} /\ DOMAIN output = {} /\ Known = {}
  BY DEF Fresh, Range, Known
<1>5. ~Popping
  BY Zenon DEF Fresh, Popping
<1>6. OrderInv
  BY <1>4, <1>5, Zenon DEF Fresh, OrderInv, UsedOrdered, OutputInOrder
<1>7. FilledInv /\ HeapInv
  BY <1>4, Zenon DEF FilledInv, HeapInv
<1>8. FailInv /\ JoinInv
  BY Zenon DEF Fresh, FailInv, JoinInv, AdoptedPrefix, RegionComplete
<1>9. QED  BY <1>1, <1>3, <1>6, <1>7, <1>8, Zenon DEF RInv

LEMMA StartRegion ==
  ASSUME IInv, begin_invocation \/ recovery_finished
  PROVE  RInv' /\ Fresh'
<1>1. mainPc = "idle" /\ UNCHANGED used /\ used = <<>> /\ misspecIter \in Label
  BY Zenon DEF begin_invocation, recovery_finished, mgr, IInv, MainInv, TypeOK
<1>2. PICK i \in Iter : StartWorkers(i) /\ mainIter' < i /\ misspec' = FALSE
  <2>1. CASE begin_invocation
    <3>1. 0 \in Iter /\ -1 < 0
      BY IterAssumption DEF Iter
    <3>2. QED  BY <2>1, <3>1, Zenon DEF begin_invocation
  <2>2. CASE recovery_finished
    <3>1. misspecIter < MaxIter /\ mainIter' = misspecIter /\ StartWorkers(misspecIter + 1)
          /\ misspec' = FALSE
      BY <2>2, Zenon DEF recovery_finished
    <3>2. misspecIter \in Int /\ misspecIter + 1 \in Iter /\ misspecIter < misspecIter + 1
      BY <1>1, <3>1, IterAssumption DEF Label, Iter
    <3>3. QED  BY <3>1, <3>2, Zenon
  <2>3. QED  BY <2>1, <2>2, Zenon
<1>3. Fresh'
  BY <1>1, <1>2, Zenon DEF StartWorkers, Fresh
<1>4. QED  BY <1>3, FreshRegion, PTL

LEMMA InitRInv == Init => RInv
<1>1. Init => Fresh
  <2>1. 0 \in Iter /\ -1 < 0 /\ Iter = 0..MaxIter
    BY IterAssumption DEF Iter
  <2>2. QED  BY <2>1, ZenonT(40) DEF Init, Fresh
<1>2. QED  BY <1>1, FreshRegion, Zenon

-------------------------------------------------------------------------------
(* All steps *)

LEMMA NextRInv == IInv /\ IInv' /\ RInv /\ [SearchedAgain]_vars /\ [Next]_vars => RInv'
<1> SUFFICES ASSUME IInv, IInv', RInv, [SearchedAgain]_vars, [Next]_vars PROVE RInv'
  BY Zenon
<1>1. ASSUME NEW w \in Worker, WorkerStep(w), ~UNCHANGED vars PROVE RInv'
  <2>1. CASE alloc_retry(w) /\ ~UNCHANGED vars
    BY <2>1, GetRegion, Zenon DEF SearchedAgain
  <2>2. CASE commit_lock_beta(w)
    <3>1. StillComplete(w) \/ UNCHANGED type
      BY <2>2, Zenon DEF commit_lock_beta
    <3>2. QED  BY <2>2, <3>1, LockBetaRegion, ReadRegion, Zenon
  <2>3. CASE misspec_in_body(w) \/ commit_misspec(w)
    BY <2>3, BodyDies, CombineFails, Zenon
  <2>4. CASE commit_zero_or_more_checkpoints(w)
    BY <2>2, <2>4, ReadRegion, CombineRegion, PopRegion, Zenon DEF commit_zero_or_more_checkpoints
  <2>5. CASE \/ end_iter(w) \/ end_iter_leave(w) \/ worker_finishes(w) \/ perform_checkpoint(w)
             \/ get_checkpoint_for_iter(w) \/ alloc_stall(w) \/ lock_checkpoint(w)
             \/ perform_checkpoint_locked(w)
    BY <2>5, IterRegion, AskRegion, GetRegion, FillRegion, Zenon
  <2>6. QED  BY <1>1, <2>1, <2>3, <2>4, <2>5, Zenon DEF WorkerStep, Progress
<1>2. CASE MainStep
  <2>1. CASE distill_commit
    BY <2>1, CommitNothing, CommitPair, Zenon
  <2>2. CASE distill_misspec \/ distill_adopt
    BY <2>2, CommitCrashes, AdoptRegion, Zenon
  <2>3. CASE distill_squash \/ distill_end
    BY <2>3, SquashRegion, EndRegion, Zenon
  <2>4. CASE begin_invocation \/ recovery_finished
    BY <2>4, StartRegion, Zenon
  <2>5. QED  BY <1>2, <2>1, <2>2, <2>3, <2>4, Zenon DEF MainStep, distill_checkpoints_into_liveout
<1>3. CASE UNCHANGED vars
  <2> USE <1>3 DEF vars, mgr, objs, pcb, locals, mainSt, region
  <2>1. /\ Labels' = Labels /\ \A c : Filled(c)' = Filled(c) /\ Own(c)' = Own(c) /\ All(c)' = All(c)
        /\ \A l : Before(l)' = Before(l)
    BY ZenonT(40) DEF Labels, Filled, Before, Own, All, IsCheckpointed
  <2>2. \A w \in Worker : TurnOK(w)'
    BY MainTurn, Zenon
  <2> HIDE DEF Labels, Filled, Before
  <2>3. (Popping' <=> Popping) /\ Known' = Known /\ OutputInOrder' /\ UsedOrdered'
    BY <2>1, OutputSame, UsedSame, KnownSame, Zenon DEF Popping, RInv, OrderInv
  <2>4. OrderInv'
    BY <2>1, <2>3, ZenonT(40) DEF RInv, OrderInv, At
  <2>5. FilledInv' /\ HeapInv'
    BY <2>1, <2>3, ZenonT(40) DEF RInv, FilledInv, HeapInv
  <2>6. FailInv' /\ JoinInv'
    BY <2>1, Zenon DEF RInv, FailInv, Blocked, JoinInv, At, AdoptedPrefix, RegionComplete
  <2>7. QED  BY <2>2, <2>4, <2>5, <2>6, Zenon DEF RInv
<1>4. QED  BY <1>1, <1>2, <1>3, Zenon DEF Next
===============================================================================
