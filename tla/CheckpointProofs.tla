--------------------------- MODULE CheckpointProofs ---------------------------
(***************************************************************************)
(* Proofs about Checkpoint, for every number of workers, iterations and    *)
(* checkpoint objects, every granularity and every memory limit.           *)
(***************************************************************************)
EXTENDS CheckpointJoin, FiniteSetTheorems

-------------------------------------------------------------------------------
(* Steps of the main process *)

\* A worker that is done has no obligations.
LEMMA DoneOK ==
  ASSUME \A w \in Worker : pc'[w] \in Done
  PROVE  \A w \in Worker : WorkerOK(w)'
BY Zenon DEF Done, WorkerOK, GivenOK, PreFill, FillOK, AlphaOK, CommitOK, LockOK, Committing,
       Reading, Holding

\* The main process takes the front off the list.
LEMMA MainRecycle ==
  ASSUME IInv, TypeOK', \A w \in Worker : pc[w] \in Done, used # <<>>, Recycle(used[1]),
         type' = [type EXCEPT ![used[1]] = "Free"], mainPc' # "idle",
         \A c \in Chk : Filled(c)' = Filled(c),
         UNCHANGED <<total, iteration, num_workers, lock, pc, given>>
  PROVE  IInv'
<1>1. /\ TypeOK /\ ListsPartition /\ FreeInv /\ CountInv /\ GivenInv
      /\ total \in Nat /\ 1..total \subseteq Chk /\ Range(used) \subseteq 1..total
  BY UsedFacts, Zenon DEF IInv
<1>2. /\ ListsPartition' /\ Range(used') = Range(used) \ {used[1]} /\ used[1] \in Range(used)
  BY <1>1, RecycleLists, Zenon
<1>3. \A c \in Chk : type'[c] = IF c = used[1] THEN "Free" ELSE type[c]
  BY <1>1, Zenon DEF TypeOK
<1>4. FreeInv' /\ CountInv' /\ GivenInv'
  BY <1>1, <1>2, <1>3 DEF FreeInv, CountInv, GivenInv
<1>5. MainInv'
  BY Zenon DEF MainInv
<1>6. QED  BY <1>2, <1>4, <1>5, DoneOK, Zenon DEF IInv

LEMMA DistillSteps ==
  ASSUME IInv, distill_commit \/ distill_adopt \/ distill_squash \/ distill_end \/ distill_misspec
  PROVE  IInv'
<1> USE DEF mgr, objs, pcb, locals, mainSt, region
<1>1. /\ TypeOK /\ ListsPartition /\ FreeInv /\ CountInv /\ GivenInv /\ MainInv
      /\ total \in Nat /\ 1..total \subseteq Chk /\ Range(used) \subseteq 1..total
      /\ \A w \in Worker : pc[w] \in Done
      /\ used # <<>> => Head(used) = used[1] /\ used[1] \in Range(used)
  <2>1. \A w \in Worker : pc[w] \in Done
    BY Zenon DEF IInv, MainInv, distill_commit, distill_adopt, distill_squash, distill_end,
           distill_misspec, Joined
  <2>2. used # <<>> => 1 \in 1..Len(used)
    <3>1. Len(used) \in Nat
      BY DEF IInv, TypeOK
    <3>2. QED  BY <3>1, UsedFacts DEF IInv
  <2>3. QED  BY <2>1, <2>2, UsedFacts, Zenon DEF IInv
<1>2. CompletePair => /\ used # <<>> /\ used[2] \in Range(used) /\ used[1] # used[2]
                      /\ Filled(used[2]) = Worker
  <2>1. CompletePair => 2 \in 1..Len(used) /\ Len(used) > 0
    <3>1. Len(used) \in Nat
      BY <1>1, used \in Seq(Chk), SeqFacts, Zenon DEF TypeOK
    <3>2. QED  BY <3>1 DEF CompletePair
  <2>2. CompletePair => used # <<>> /\ used[2] \in Range(used) /\ used[1] # used[2]
    BY <1>1, <2>1, UsedFacts, Zenon DEF CompletePair
  <2>3. QED  BY <1>1, <2>2, Zenon DEF CompletePair, CountInv
<1>3. CASE distill_commit /\ CompletePair
  <2>1. /\ has' = [has EXCEPT ![used[2]] = @ \cup has[used[1]]]
        /\ output' = Append(output, iteration[used[1]])
        /\ type' = [type EXCEPT ![used[1]] = "Free"] /\ Recycle(used[1]) /\ mainPc' = "adopt"
        /\ UNCHANGED <<total, iteration, num_workers, lock, pc, given>>
    BY <1>3, Zenon DEF distill_commit, combine_checkpoints
  <2>2. \A c \in Chk : Filled(c)' = Filled(c)
    <3>1. ASSUME NEW c \in Chk, c # used[2] PROVE Filled(c)' = Filled(c)
      <4>1. has'[c] = has[c]
        BY <1>1, <2>1, <3>1, Zenon DEF TypeOK
      <4>2. QED  BY <2>1, <4>1, Zenon DEF Filled
    <3>2. ASSUME NEW c \in Chk, c = used[2] PROVE Filled(c)' = Filled(c)
      <4>1. has[c] \subseteq has'[c]
        BY <1>1, <2>1, <3>2, Zenon DEF TypeOK
      <4>2. num_workers'[c] # 0 /\ \A v \in Worker : <<v, iteration'[c]>> \in has'[c]
        BY <1>2, <1>3, <2>1, <3>2, <4>1, WorkerAssumption, Zenon DEF Filled
      <4>3. Filled(c)' = Worker
        BY <4>2, Zenon DEF Filled
      <4>4. QED  BY <1>2, <1>3, <3>2, <4>3, Zenon
    <3>3. QED  BY <3>1, <3>2, Zenon
  <2>3. TypeOK'
    <3>1. used' \in Seq(Chk) /\ free' \in Seq(Chk)
      BY <1>1, <1>2, <1>3, <2>1, RecycleLists, Zenon
    <3>2. has' \in [Chk -> SUBSET (Worker \X Label)]
      <4>1. has \in [Chk -> SUBSET (Worker \X Label)] /\ used[1] \in Chk /\ used[2] \in Chk
        BY <1>1, <1>2, <1>3, Zenon DEF TypeOK
      <4>2. QED  BY <2>1, <4>1
    <3>3. output' \in Seq(Label)
      <4>1. output \in Seq(Label) /\ iteration[used[1]] \in Label
        BY <1>1, <1>2, <1>3, Zenon DEF TypeOK, CountInv
      <4>2. QED  BY <2>1, <4>1
    <3>4. QED  BY <1>1, <1>3, <2>1, <3>1, <3>2, <3>3, Zenon DEF distill_commit, TypeOK, Life
  <2>4. QED  BY <1>1, <1>2, <1>3, <2>1, <2>2, <2>3, MainRecycle, Zenon
<1>4. CASE distill_commit /\ ~CompletePair
  <2>1. UNCHANGED <<mgr, objs, pcb, pc, currentIter, locals, output, region, mainIter, adopted>>
        /\ mainPc' = "adopt"
    BY <1>4, Zenon DEF distill_commit
  <2>2. TypeOK'
    BY <1>1, <2>1, Zenon DEF TypeOK
  <2>3. ListsPartition' /\ FreeInv' /\ CountInv' /\ GivenInv' /\ MainInv'
    <3>1. \A c \in Range(used) : Filled(c)' = Filled(c)
      BY <2>1, Zenon DEF Filled
    <3>2. CountInv' /\ GivenInv'
      BY <1>1, <2>1, <3>1, Zenon DEF CountInv, GivenInv
    <3>3. ListsPartition' /\ FreeInv' /\ MainInv'
      BY <1>1, <2>1, Zenon DEF ListsPartition, FreeInv, MainInv
    <3>4. QED  BY <3>2, <3>3, Zenon
  <2>4. \A w \in Worker : pc'[w] \in Done
    BY <1>1, <2>1, Zenon
  <2>5. QED  BY <2>2, <2>3, <2>4, DoneOK, ZenonT(40) DEF IInv
<1>5. CASE distill_adopt
  <2>1. /\ used # <<>> /\ Recycle(used[1]) /\ type' = [type EXCEPT ![used[1]] = "Free"]
        /\ output' = Append(output, iteration[used[1]]) /\ adopted' = adopted \cup has[used[1]]
        /\ mainIter' = iteration[used[1]] /\ mainPc' = "adopt" /\ UNCHANGED has
        /\ UNCHANGED <<total, iteration, num_workers, lock, pc, given>>
    BY <1>1, <1>5, Zenon DEF distill_adopt, list_empty
  <2>2. \A c \in Chk : Filled(c)' = Filled(c)
    BY <2>1, Zenon DEF Filled
  <2>3. TypeOK'
    <3>1. used' \in Seq(Chk) /\ free' \in Seq(Chk)
      BY <1>1, <2>1, RecycleLists, Zenon
    <3>2. iteration[used[1]] \in Label /\ has[used[1]] \in SUBSET (Worker \X Label)
      BY <1>1, <2>1, Zenon DEF TypeOK, CountInv
    <3>3. output' \in Seq(Label)
      <4>1. output \in Seq(Label)
        BY <1>1, Zenon DEF TypeOK
      <4>2. QED  BY <2>1, <3>2, <4>1
    <3>4. QED  BY <1>1, <1>5, <2>1, <3>1, <3>2, <3>3, Zenon DEF distill_adopt, TypeOK, Life
  <2>4. QED  BY <1>1, <2>1, <2>2, <2>3, MainRecycle, Zenon
<1>6. CASE distill_squash
  <2>1. /\ used # <<>> /\ Recycle(used[1]) /\ type' = [type EXCEPT ![used[1]] = "Free"]
        /\ mainPc' = "squash"
        /\ UNCHANGED <<total, iteration, num_workers, lock, has, pcb, pc, currentIter, locals,
                       region, mainIter, adopted, output>>
    BY <1>1, <1>6, Zenon DEF distill_squash, list_empty
  <2>2. \A c \in Chk : Filled(c)' = Filled(c)
    BY <2>1, Zenon DEF Filled
  <2>3. TypeOK'
    <3>1. used' \in Seq(Chk) /\ free' \in Seq(Chk)
      BY <1>1, <2>1, RecycleLists, Zenon
    <3>2. QED  BY <1>1, <2>1, <3>1, Zenon DEF TypeOK, Life
  <2>4. QED  BY <1>1, <2>1, <2>2, <2>3, MainRecycle, Zenon
<1>7. CASE distill_end
  <2>1. UNCHANGED <<mgr, objs, pcb, pc, currentIter, locals, output, region, mainIter, adopted>>
        /\ mainPc' = "idle" /\ used = <<>>
    BY <1>7, Zenon DEF distill_end, list_empty
  <2>2. TypeOK'
    BY <1>1, <2>1, Zenon DEF TypeOK
  <2>3. ListsPartition' /\ FreeInv' /\ CountInv' /\ GivenInv' /\ MainInv'
    <3>1. \A c \in Range(used) : Filled(c)' = Filled(c)
      BY <2>1, Zenon DEF Filled
    <3>2. CountInv' /\ GivenInv'
      BY <1>1, <2>1, <3>1, Zenon DEF CountInv, GivenInv
    <3>3. ListsPartition' /\ FreeInv' /\ MainInv'
      BY <1>1, <2>1, Zenon DEF ListsPartition, FreeInv, MainInv
    <3>4. QED  BY <3>2, <3>3, Zenon
  <2>4. \A w \in Worker : pc'[w] \in Done
    BY <1>1, <2>1, Zenon
  <2>5. QED  BY <2>2, <2>3, <2>4, DoneOK, Zenon DEF IInv
<1>8. CASE distill_misspec
  <2>1. /\ CompletePair /\ type' = [type EXCEPT ![used[1]] = "Free", ![used[2]] = "Broken"]
        /\ misspec' = TRUE /\ misspecIter' = iteration[used[2]] /\ mainPc' = "crashed"
        /\ UNCHANGED <<mgr, iteration, num_workers, lock, has, pc, currentIter, locals,
                       region, mainIter, adopted, output>>
    BY <1>8, Zenon DEF distill_misspec
  <2>2. used[1] \in Range(used) /\ used[2] \in Range(used) /\ type[used[1]] = "Complete"
        /\ type[used[2]] = "Complete" /\ iteration[used[2]] \in Label
    BY <1>1, <1>2, <2>1, Zenon DEF CompletePair, CountInv
  <2>3. TypeOK'
    BY <1>1, <2>1, <2>2, Zenon DEF TypeOK, Life
  <2>4. \A c \in Chk : \/ type'[c] = type[c]
                       \/ c \in Range(used) /\ type[c] = "Complete" /\ type'[c] # "Partial"
    BY <1>1, <2>1, <2>2, Zenon DEF TypeOK
  <2>5. ListsPartition' /\ FreeInv' /\ GivenInv' /\ MainInv'
    BY <1>1, <2>1, <2>4, Zenon DEF ListsPartition, FreeInv, GivenInv, MainInv, Filled
  <2>6. CountInv'
    <3>1. \A c \in Range(used) : Filled(c)' = Filled(c)
      BY <2>1, Zenon DEF Filled
    <3>2. \A c \in Range(used) : (type'[c] = "Partial" <=> type[c] = "Partial") /\ c \in Chk
      BY <1>1, <2>4, Zenon
    <3>3. UNCHANGED <<used, iteration, num_workers>>
      BY <2>1, Zenon
    <3>4. QED  BY <1>1, <3>1, <3>2, <3>3, Zenon DEF CountInv
  <2>7. \A w \in Worker : pc'[w] \in Done
    BY <1>1, <2>1, Zenon
  <2>8. QED  BY <2>3, <2>5, <2>6, <2>7, DoneOK, Zenon DEF IInv
<1>9. QED  BY <1>3, <1>4, <1>5, <1>6, <1>7, <1>8, Zenon

LEMMA StartSteps ==
  ASSUME IInv, begin_invocation \/ recovery_finished
  PROVE  IInv'
<1> USE DEF mgr, objs, pcb, locals, mainSt, region
<1>1. TypeOK /\ ListsPartition /\ FreeInv /\ used = <<>>
  BY Zenon DEF IInv, MainInv, begin_invocation, recovery_finished
<1>2. PICK i \in Iter : StartWorkers(i)
  <2>1. CASE begin_invocation
    BY <2>1, IterAssumption DEF begin_invocation, Iter
  <2>2. CASE recovery_finished
    <3>1. misspecIter + 1 \in Iter
      BY <1>1, <2>2, IterAssumption, SMTT(30) DEF recovery_finished, TypeOK, Label, Iter
    <3>2. QED  BY <2>2, <3>1, Zenon DEF recovery_finished
  <2>3. QED  BY <2>1, <2>2, Zenon
<1>3. /\ misspec' = FALSE /\ mainIter' \in Label \cup {-1} /\ UNCHANGED <<mgr, objs, misspecIter>>
  BY <1>1, Zenon DEF begin_invocation, recovery_finished, TypeOK
<1>4. TypeOK'
  <2>1. firstIter' \in Iter /\ endIter' \in Iter /\ LastIteration \in Label
    BY <1>2, IterAssumption DEF StartWorkers, Iter, Label
  <2>2. output' \in Seq(Label) /\ 0 \in 0..MaxChk
    BY <1>2, BoundAssumption DEF StartWorkers
  <2>3. QED  BY <1>1, <1>2, <1>3, <2>1, <2>2, ZenonT(40) DEF StartWorkers, TypeOK
<1>5. Range(used)' = {}
  BY <1>1, <1>3 DEF Range
<1>6. ListsPartition' /\ FreeInv' /\ CountInv' /\ GivenInv'
  BY <1>1, <1>3, <1>5, Zenon DEF ListsPartition, FreeInv, CountInv, GivenInv
<1>7. MainInv'
  BY <1>2, Zenon DEF StartWorkers, MainInv
<1>8. ASSUME NEW w \in Worker PROVE WorkerOK(w)'
  <2>1. pc'[w] = "run" /\ given'[w] = {}
    BY <1>2, Zenon DEF StartWorkers
  <2>2. QED  BY <2>1, Zenon DEF WorkerOK, GivenOK, PreFill, FillOK, AlphaOK, CommitOK, LockOK,
                  Committing, Reading, Holding
<1>9. QED  BY <1>4, <1>6, <1>7, <1>8, Zenon DEF IInv

-------------------------------------------------------------------------------
(* The invariant holds, and what follows from it *)

LEMMA InitIInv == Init => IInv
<1> SUFFICES ASSUME Init PROVE IInv
  BY Zenon
<1>1. TypeOK
  <2>1. 0 \in Iter /\ LastIteration \in Label /\ 0 \in Label
    BY IterAssumption DEF Label, Iter
  <2>2. 0 \in 0..MaxChk /\ <<>> \in Seq(Chk) /\ <<>> \in Seq(Label)
    BY BoundAssumption
  <2>3. /\ type \in [Chk -> Life] /\ iteration \in [Chk -> Label \cup {-1}]
        /\ num_workers \in [Chk -> Nat] /\ lock \in [Chk -> Worker \cup {NoWorker}]
        /\ has \in [Chk -> SUBSET (Worker \X Label)]
    BY Zenon DEF Init, Life
  <2> HIDE DEF Iter
  <2>4. QED  BY <2>1, <2>2, <2>3, Zenon DEF Init, TypeOK
<1>2. Range(used) = {} /\ Range(free) = {}
  BY DEF Init, Range
<1>3. ListsPartition
  BY <1>2 DEF Init, ListsPartition, IsInjective
<1>4. FreeInv /\ CountInv /\ GivenInv
  BY <1>2, Zenon DEF Init, FreeInv, CountInv, GivenInv
<1>5. MainInv /\ \A w \in Worker : WorkerOK(w)
  BY Zenon DEF Init, MainInv, WorkerOK, GivenOK, PreFill, FillOK, AlphaOK, CommitOK, LockOK,
         Committing, Reading, Holding
<1>6. QED  BY <1>1, <1>3, <1>4, <1>5, Zenon DEF IInv

LEMMA WorkersCount == Counting
<1>1. Cardinality({}) = 0
  BY FS_EmptySet, Zenon
<1>2. \A S \in SUBSET Worker : IsFiniteSet(S)
  BY WorkerAssumption, FS_Subset, Zenon
<1>3. \A S \in SUBSET Worker : \A w \in Worker \ S : Cardinality(S \cup {w}) = Cardinality(S) + 1
  BY <1>2, FS_AddElement, Zenon
<1>4. \A S \in SUBSET Worker : Cardinality(S) = Cardinality(Worker) => S = Worker
  BY WorkerAssumption, FS_Subset, Zenon
<1>5. QED  BY <1>1, <1>3, <1>4, Zenon DEF Counting

LEMMA NextIInv == IInv /\ [Next]_vars => IInv'
<1> SUFFICES ASSUME IInv, [Next]_vars PROVE IInv'
  BY Zenon
<1>1. ASSUME NEW w \in Worker, WorkerStep(w) PROVE IInv'
  BY <1>1, WorkersCount, BodySteps, GetSteps, LockSteps, FillStep, ReadSteps, TestSteps, CombineSteps, PopStep, Zenon
     DEF WorkerStep, Progress, commit_zero_or_more_checkpoints
<1>2. CASE MainStep
  BY <1>2, DistillSteps, StartSteps, Zenon DEF MainStep, distill_checkpoints_into_liveout
<1>3. CASE UNCHANGED vars
  <2> USE <1>3 DEF vars, mgr, objs, pcb, locals, mainSt, region
  <2>1. TypeOK' /\ ListsPartition' /\ FreeInv' /\ MainInv'
    BY Zenon DEF IInv, TypeOK, ListsPartition, FreeInv, MainInv
  <2>2. CountInv' /\ GivenInv'
    BY Zenon DEF IInv, CountInv, GivenInv, Filled
  <2>3. ASSUME NEW w \in Worker PROVE WorkerOK(w)'
    <3>1. WorkerOK(w)
      BY Zenon DEF IInv
    <3>2. GivenOK(w)' /\ FillOK(w)' /\ CommitOK(w)' /\ LockOK(w)'
      BY <3>1, Zenon DEF WorkerOK, GivenOK, PreFill, FillOK, CommitOK, LockOK
    <3>3. AlphaOK(w)'
      BY <3>1, Zenon DEF WorkerOK, AlphaOK, Filled, first, list_empty
    <3>4. QED  BY <3>2, <3>3, Zenon DEF WorkerOK
  <2>4. QED  BY <2>1, <2>2, <2>3, Zenon DEF IInv
<1>4. QED  BY <1>1, <1>2, <1>3, Zenon DEF Next

\* The inductive invariant holds in every state of checkpoint.c's manager, its
\* workers and the joining main process.
THEOREM Invariance == Spec => []IInv
BY InitIInv, NextIInv, PTL DEF Spec

\* Every variable keeps its type: in particular a worker that misspeculates
\* while combining publishes the label of a checkpoint, and next never leads
\* outside the allocated objects.
THEOREM TypeCorrect == Spec => []TypeOK
<1>1. IInv => TypeOK
  BY Zenon DEF IInv
<1>2. QED  BY <1>1, Invariance, PTL

\* No checkpoint object leaks or is handed out twice by alloc_checkpoint,
\* commit_zero_or_more_checkpoints and distill_checkpoints_into_liveout.
THEOREM Partition == Spec => []ListsPartition
<1>1. IInv => ListsPartition
  BY Zenon DEF IInv
<1>2. QED  BY <1>1, Invariance, PTL

\* The assertion before pop_front in commit_zero_or_more_checkpoints never
\* fails, although alpha and beta were read without a lock and may have been
\* recycled since: also when memory is exhausted and workers stall.
THEOREM FrontStaysFront == Spec => []CommitFront
<1>1. IInv => CommitFront
  BY Zenon DEF IInv, WorkerOK, CommitOK, CommitFront, Holding
<1>2. QED  BY <1>1, Invariance, PTL

\* The locks of the checkpoint objects protect their heaps: two workers never
\* fill or combine the same object at once.
THEOREM Exclusion == Spec => []HeapsExclusive
<1>1. IInv => HeapsExclusive
  <2> SUFFICES ASSUME IInv, NEW c \in Chk, NEW v \in InHeaps(c), NEW w \in InHeaps(c)
               PROVE  v = w
    BY Zenon DEF HeapsExclusive
  <2>1. ASSUME NEW u \in InHeaps(c) PROVE lock[c] = u
    BY <2>1, Zenon DEF IInv, WorkerOK, LockOK, InHeaps, Holding
  <2>2. QED  BY <2>1, Zenon
<1>2. QED  BY <1>1, Invariance, PTL

-------------------------------------------------------------------------------
(* Checkpoint implements RegionCommit *)

LEMMA PhaseIs ==
  /\ mainPc = "join" => Phase[mainPc] = "open"
  /\ mainPc \in {"adopt", "squash"} => Phase[mainPc] = "closed"
  /\ mainPc = "idle" => Phase[mainPc] = "over"
  /\ mainPc = "crashed" => Phase[mainPc] = "crashed"
BY DEF Phase

\* A label that follows all that is done is the next one.
LEMMA DueNext ==
  ASSUME TypeOK, NEW S, NEW l \in Labels, S = Before(l)
  PROVE  Promise!Least(Labels \ S, l)
<1>1. Labels \subseteq Int
  BY LabelFacts, Zenon
<1> HIDE DEF Labels
<1>2. l \in Labels \ S
  BY UpToFacts, Zenon
<1>3. ASSUME NEW k \in Labels \ S PROVE l <= k
  <2>1. k \in Int /\ l \in Int /\ ~(k < l)
    BY <1>1, <1>3, Zenon DEF Before
  <2>2. QED  BY <2>1
<1>4. QED  BY <1>2, <1>3, Zenon DEF Promise!Least

\* A step that the region does not show.
LEMMA Hidden ==
  ASSUME UNCHANGED <<given, misspec, output, region, adopted, mainPc>>
  PROVE  UNCHANGED Promise!vars
<1>1. Labels' = Labels /\ Phase' = Phase
  BY Zenon DEF region, Labels, IsCheckpointed, Phase
<1>2. QED  BY <1>1, Zenon DEF Promise!vars

\* A worker, or the main process at its last commit, gives up.
LEMMA FailPromise ==
  ASSUME mainPc = "join", mainPc' \in {"join", "crashed"}, misspec' = TRUE,
         UNCHANGED <<given, output, region, adopted>>
  PROVE  Promise!Fail
<1>1. Labels' = Labels /\ Phase' = Phase
  BY Zenon DEF region, Labels, IsCheckpointed, Phase
<1>2. Phase[mainPc] = "open" /\ Phase[mainPc'] \in {"open", "crashed"}
  BY DEF Phase
<1>3. QED  BY <1>1, <1>2, Zenon DEF Promise!Fail

\* perform_checkpoint_locked adds the worker to its next checkpoint.
LEMMA FillPromise ==
  ASSUME IInv, RInv, NEW w \in Worker, perform_checkpoint_locked(w)
  PROVE  Promise!Contribute(w)
<1>1. /\ TypeOK /\ pc[w] = "fill" /\ PreFill(w) /\ mainPc = "join"
      /\ eff[w] \in Labels /\ given[w] = Before(eff[w])
  <2>1. pc[w] = "fill" /\ TypeOK
    BY Zenon DEF perform_checkpoint_locked, IInv
  <2>2. PreFill(w) /\ mainPc = "join"
    BY <2>1, AtJoin, Zenon DEF PreFill, Done
  <2>3. QED  BY <2>1, <2>2, Zenon DEF RInv, TurnOK, LabelOK
<1>2. /\ UNCHANGED <<mainPc, misspec, output, adopted, region>>
      /\ given' = [given EXCEPT ![w] = @ \cup {eff[w]}]
  BY Zenon DEF perform_checkpoint_locked, pcb, mainSt
<1>3. Labels' = Labels /\ Phase' = Phase
  BY <1>2, Zenon DEF region, Labels, IsCheckpointed, Phase
<1>4. Promise!Least(Labels \ given[w], eff[w])
  BY <1>1, DueNext, Zenon
<1>5. Phase[mainPc] = "open"
  BY <1>1, PhaseIs, Zenon
<1>6. QED  BY <1>1, <1>2, <1>3, <1>4, <1>5, Zenon DEF Promise!Contribute

\* The front checkpoint, once complete, is the next to be released.
LEMMA FrontDue ==
  ASSUME IInv, RInv, mainPc \in {"join", "adopt"}, used # <<>>, ~Popping,
         Filled(used[1]) = Worker, num_workers[used[1]] > 0, output' = Append(output, At(1))
  PROVE  \E l \in Labels : Promise!ReleaseOf(l)
<1>1. /\ At(1) \in Labels /\ Range(output) = Before(At(1))
      /\ \A w \in Worker : At(1) \in given[w]
  <2>1. 1 \in DOMAIN used
    BY Places
  <2>2. QED  BY <2>1, Places, FrontLabels, FrontHeap, ZenonT(40)
<1>2. Promise!Least(Labels \ Range(output), At(1))
  BY <1>1, DueNext, Zenon DEF IInv
<1>3. Promise!ReleaseOf(At(1))
  BY <1>1, <1>2, Zenon DEF Promise!ReleaseOf, Range, Promise!Range
<1>4. QED  BY <1>1, <1>3, Zenon

LEMMA CombinePromise ==
  ASSUME IInv, RInv, NEW w \in Worker, commit_combine(w)
  PROVE  Promise!Release
<1>1. pc[w] = "combine" /\ pc[w] \in Holding /\ combine_checkpoints(alpha[w], beta[w])
      /\ UNCHANGED <<mainPc, misspec, given, adopted, region>>
  BY Zenon DEF commit_combine, Holding, pcb, locals, mainSt
<1>2. /\ mainPc = "join" /\ used # <<>> /\ alpha[w] = used[1]
      /\ Filled(used[1]) = Worker /\ num_workers[used[1]] > 0
      /\ \A v \in Worker : pc[v] \in Holding => v = w
  BY <1>1, Holder, Zenon
<1>3. ~Popping /\ output' = Append(output, At(1))
  BY <1>1, <1>2, Zenon DEF Popping, Holding, combine_checkpoints, At
<1>4. \E l \in Labels : Promise!ReleaseOf(l)
  BY <1>2, <1>3, FrontDue, Zenon
<1>5. Labels' = Labels /\ Phase' = Phase /\ Phase[mainPc] = "open"
  BY <1>1, <1>2, PhaseIs, Zenon DEF region, Labels, IsCheckpointed, Phase
<1>6. QED  BY <1>1, <1>4, <1>5, Zenon DEF Promise!Release

LEMMA ClosePromise ==
  ASSUME IInv, RInv, distill_commit
  PROVE  Promise!Close
<1>1. mainPc = "join" /\ mainPc' = "adopt" /\ Joined
      /\ UNCHANGED <<misspec, given, adopted, region>>
  BY Zenon DEF distill_commit, pcb, locals
<1>2. Labels' = Labels /\ Phase' = Phase /\ Phase[mainPc] = "open" /\ Phase[mainPc'] = "closed"
  BY <1>1, Zenon DEF region, Labels, IsCheckpointed, Phase
<1>3. UNCHANGED output \/ \E l \in Labels : Promise!ReleaseOf(l)
  <2>1. CASE ~CompletePair
    BY <2>1, Zenon DEF distill_commit
  <2>2. CASE CompletePair
    <3>1. used # <<>> /\ used[1] \in Range(used) /\ type[used[1]] = "Complete"
      <4>1. used # <<>> /\ 1 \in DOMAIN used
        BY <2>2, Places DEF CompletePair
      <4>2. QED  BY <2>2, <4>1, Places, Zenon DEF CompletePair
    <3>2. Filled(used[1]) = Worker /\ num_workers[used[1]] > 0
      BY <3>1, CompleteFacts, Zenon
    <3>3. ~Popping
      BY <1>1, Zenon DEF Joined, Done, Popping
    <3>4. output' = Append(output, At(1))
      BY <2>2, Zenon DEF distill_commit, combine_checkpoints, At
    <3>5. QED  BY <1>1, <3>1, <3>2, <3>3, <3>4, FrontDue, Zenon
  <2>3. QED  BY <2>1, <2>2, Zenon
<1>4. QED  BY <1>1, <1>2, <1>3, Zenon DEF Promise!Close

LEMMA CommitPromise ==
  ASSUME IInv, RInv, distill_adopt
  PROVE  Promise!Commit
<1>1. /\ At(1) \in Labels /\ Range(output) = Before(At(1))
      /\ output' = Append(output, At(1)) /\ adopted' = Worker \X UpTo(At(1))
      /\ \A w \in Worker : At(1) \in given[w]
  BY AdoptRegion, Zenon
<1>2. mainPc = "adopt" /\ UNCHANGED <<mainPc, misspec, given, region>>
  BY Zenon DEF distill_adopt, pcb, locals
<1>3. Labels' = Labels /\ Phase' = Phase /\ Phase[mainPc] = "closed"
  BY <1>2, PhaseIs, Zenon DEF region, Labels, IsCheckpointed, Phase
<1>4. Promise!Least(Labels \ Range(output), At(1))
  BY <1>1, DueNext, Zenon DEF IInv
<1>5. Promise!ReleaseOf(At(1)) /\ adopted' = Worker \X {k \in Labels : k <= At(1)}
  BY <1>1, <1>4, Zenon DEF Promise!ReleaseOf, Range, Promise!Range, UpTo
<1>6. QED  BY <1>1, <1>2, <1>3, <1>5, Zenon DEF Promise!Commit

LEMMA BeginPromise ==
  ASSUME IInv, begin_invocation \/ recovery_finished
  PROVE  Promise!Next
<1>1. Fresh'
  BY StartRegion, Zenon
<1>2. given' = [w \in Worker |-> {}]
  BY Zenon DEF begin_invocation, recovery_finished, StartWorkers
<1>3. Labels' \in SUBSET Label
  BY Zenon DEF Labels, Label
<1>4. Phase[mainPc] = "over" /\ Phase'[mainPc'] = "open"
  BY <1>1 DEF begin_invocation, recovery_finished, Fresh, Phase
<1>5. Promise!Begin
  BY <1>1, <1>2, <1>3, <1>4, Zenon DEF Promise!Begin, Fresh
<1>6. QED  BY <1>4, <1>5, Zenon DEF Promise!Next

LEMMA InitPromise == Init => Promise!Init
<1> SUFFICES ASSUME Init PROVE Promise!Init
  BY Zenon
<1>1. Labels \in SUBSET Label
  BY Zenon DEF Labels, Label
<1>2. Phase[mainPc] = "open"
  BY Zenon DEF Init, Phase
<1>3. QED  BY <1>1, <1>2, Zenon DEF Init, Promise!Init

LEMMA NextPromise ==
  IInv /\ IInv' /\ RInv /\ RInv' /\ [Next]_vars => [Promise!Next]_(Promise!vars)
<1> SUFFICES ASSUME IInv, IInv', RInv, RInv', [Next]_vars PROVE [Promise!Next]_(Promise!vars)
  BY Zenon
<1> USE DEF mgr, objs, pcb, locals, mainSt
<1>1. ASSUME NEW w \in Worker, WorkerStep(w) PROVE [Promise!Next]_(Promise!vars)
  <2>1. CASE perform_checkpoint_locked(w)
    BY <2>1, FillPromise, Zenon DEF Promise!Next
  <2>2. CASE commit_combine(w)
    BY <2>2, CombinePromise, Zenon DEF Promise!Next
  <2>3. CASE misspec_in_body(w) \/ commit_misspec(w) \/ perform_checkpoint(w) \/ alloc_stall(w)
    <3>1. mainPc = "join"
      BY <2>3, AtJoin, Zenon DEF misspec_in_body, commit_misspec, perform_checkpoint, alloc_stall, Done
    <3>2. UNCHANGED <<given, output, region, adopted, mainPc>>
      BY <2>3, Zenon DEF misspec_in_body, commit_misspec, perform_checkpoint, alloc_stall
    <3>3. misspec' = TRUE \/ UNCHANGED misspec
      BY <2>3, Zenon DEF misspec_in_body, commit_misspec, perform_checkpoint, alloc_stall, misspec_at
    <3>4. QED  BY <3>1, <3>2, <3>3, FailPromise, Hidden, Zenon DEF Promise!Next
  <2>4. CASE \/ end_iter(w) \/ end_iter_leave(w) \/ worker_finishes(w)
             \/ get_checkpoint_for_iter(w) \/ alloc_retry(w) \/ lock_checkpoint(w)
    <3>1. UNCHANGED <<given, misspec, output, region, adopted, mainPc>>
      BY <2>4, Zenon DEF end_iter, end_iter_leave, worker_finishes, get_checkpoint_for_iter,
                  alloc_retry, lock_checkpoint
    <3>2. QED  BY <3>1, Hidden, Zenon
  <2>5. CASE \/ commit_first(w) \/ commit_alpha_type(w) \/ commit_next(w) \/ commit_beta_type(w)
             \/ commit_lock_alpha(w) \/ commit_lock_beta(w) \/ commit_pop(w) \/ commit_unlock(w)
    <3>1. UNCHANGED <<given, misspec, output, region, adopted, mainPc>>
      BY <2>5, Zenon DEF commit_first, commit_alpha_type, commit_next, commit_beta_type,
                  commit_lock_alpha, commit_lock_beta, commit_pop, commit_unlock
    <3>2. QED  BY <3>1, Hidden, Zenon
  <2>6. QED  BY <1>1, <2>1, <2>2, <2>3, <2>4, <2>5, Zenon
             DEF WorkerStep, Progress, commit_zero_or_more_checkpoints
<1>2. CASE distill_commit
  BY <1>2, ClosePromise, Zenon DEF Promise!Next
<1>3. CASE distill_misspec
  <2>1. mainPc = "join" /\ mainPc' = "crashed" /\ misspec' = TRUE
        /\ UNCHANGED <<given, output, region, adopted>>
    BY <1>3, Zenon DEF distill_misspec
  <2>2. QED  BY <2>1, FailPromise, Zenon DEF Promise!Next
<1>4. CASE distill_adopt
  BY <1>4, CommitPromise, Zenon DEF Promise!Next
<1>5. CASE distill_squash
  <2>1. /\ mainPc \in {"adopt", "squash"} /\ mainPc' = "squash"
        /\ UNCHANGED <<given, misspec, output, region, adopted>>
    BY <1>5, Zenon DEF distill_squash
  <2>2. Labels' = Labels /\ Phase'[mainPc'] = Phase[mainPc]
    BY <2>1 DEF region, Labels, IsCheckpointed, Phase
  <2>3. QED  BY <2>1, <2>2, Zenon DEF Promise!vars
<1>6. CASE distill_end
  <2>1. /\ mainPc \in {"adopt", "squash"} /\ mainPc' = "idle"
        /\ UNCHANGED <<given, misspec, output, region, adopted>>
    BY <1>6, Zenon DEF distill_end
  <2>2. Labels' = Labels /\ Phase[mainPc] = "closed" /\ Phase'[mainPc'] = "over"
    BY <2>1 DEF region, Labels, IsCheckpointed, Phase
  <2>3. misspec \/ adopted = Worker \X Labels
    BY <2>1, <2>2, Zenon DEF RInv, JoinInv, RegionComplete
  <2>4. QED  BY <2>1, <2>2, <2>3, Zenon DEF Promise!End, Promise!Next
<1>7. CASE begin_invocation \/ recovery_finished
  BY <1>7, BeginPromise, Zenon
<1>8. CASE UNCHANGED vars
  BY <1>8, Hidden, Zenon DEF vars
<1>9. QED  BY <1>1, <1>2, <1>3, <1>4, <1>5, <1>6, <1>7, <1>8, Zenon
           DEF Next, MainStep, distill_checkpoints_into_liveout

-------------------------------------------------------------------------------
(* No contribution is dropped *)

\* The list keeps its objects and their heaps only grow.
LEMMA HeldGrows ==
  ASSUME Range(used) \subseteq Range(used'), adopted \subseteq adopted',
         \A c \in Range(used) : num_workers[c] > 0 => num_workers'[c] > 0 /\ has[c] \subseteq has'[c]
  PROVE  Held \subseteq Held'
BY Zenon DEF Held

\* An object leaves the list only when its heaps are elsewhere.
LEMMA HeldMoves ==
  ASSUME NEW a, Range(used') = Range(used) \ {a}, adopted \subseteq adopted',
         has[a] \subseteq Held',
         \A c \in Range(used') : num_workers[c] > 0 => num_workers'[c] > 0 /\ has[c] \subseteq has'[c]
  PROVE  Held \subseteq Held'
<1>1. ASSUME NEW c \in Range(used), num_workers[c] > 0 PROVE has[c] \subseteq Held'
  <2>1. CASE c = a
    BY <2>1, Zenon
  <2>2. CASE c # a
    BY <1>1, <2>2, Zenon DEF Held
  <2>3. QED  BY <2>1, <2>2, Zenon
<1>2. adopted \subseteq Held'
  BY Zenon DEF Held
<1>3. QED  BY <1>1, <1>2, Zenon DEF Held

LEMMA NextHeld ==
  IInv /\ RInv /\ [Next]_vars => misspec \/ mainPc = "idle" \/ Held \subseteq Held'
<1> SUFFICES ASSUME IInv, RInv, [Next]_vars, ~misspec, mainPc # "idle" PROVE Held \subseteq Held'
  BY Zenon
<1> USE DEF mgr, objs, pcb, locals, mainSt
<1>0. TypeOK /\ ListsPartition /\ used \in Seq(Chk) /\ free \in Seq(Chk) /\ total \in Nat
      /\ num_workers \in [Chk -> Nat] /\ has \in [Chk -> SUBSET (Worker \X Label)]
      /\ Range(used) \subseteq 1..total /\ Range(used) \subseteq Chk
      /\ Range(used) \cap Range(free) = {}
  <2>1. TypeOK /\ ListsPartition
    BY Zenon DEF IInv
  <2>2. total \in Nat /\ used \in Seq(Chk) /\ free \in Seq(Chk)
        /\ num_workers \in [Chk -> Nat] /\ has \in [Chk -> SUBSET (Worker \X Label)]
    BY <2>1 DEF TypeOK
  <2>3. QED  BY <2>1, <2>2, UsedFacts, RangeType, Zenon DEF ListsPartition
<1>1. CASE UNCHANGED <<used, has, num_workers, adopted>>
  BY <1>1, HeldGrows, Zenon
<1>2. ASSUME NEW w \in Worker, get_checkpoint_for_iter(w) \/ alloc_retry(w)
      PROVE  Held \subseteq Held'
  <2>0. UNCHANGED adopted
    BY <1>2, Zenon DEF get_checkpoint_for_iter, alloc_retry
  <2>1. ASSUME NEW c \in Chk, PushPartial(w, c), c \notin Range(used),
               \A d \in Chk \ {c} : has'[d] = has[d]
        PROVE  Held \subseteq Held'
    <3>1. Range(used') = Range(used) \cup {c}
      BY <1>0, <2>1, AppendFacts DEF PushPartial
    <3>2. \A d \in Range(used) : num_workers'[d] = num_workers[d] /\ has'[d] = has[d]
      BY <1>0, <2>1, Zenon DEF PushPartial
    <3>3. QED  BY <2>0, <3>1, <3>2, HeldGrows, ZenonT(40)
  <2>2. CASE UNCHANGED <<mgr, objs>>
    BY <1>1, <2>0, <2>2, Zenon
  <2>3. CASE ~list_empty(free) /\ PushPartial(w, Head(free)) /\ UNCHANGED has
    <3>1. PICK c \in Chk : c = Head(free) /\ c \in Range(free)
      BY <1>0, <2>3, TailFacts, Zenon DEF list_empty, ListsPartition
    <3>2. QED  BY <1>0, <2>1, <2>3, <3>1, Zenon
  <2>4. CASE /\ total < MaxChk /\ PushPartial(w, total + 1) /\ has' = [has EXCEPT ![total + 1] = {}]
    <3>1. PICK c \in Chk : c = total + 1
      <4>1. total + 1 \in Chk
        BY <1>0, <2>4, BoundAssumption DEF Chk
      <4>2. QED  BY <4>1, Zenon
    <3>2. c \notin Range(used)
      BY <1>0, <3>1
    <3>3. QED  BY <1>0, <2>1, <2>4, <3>1, <3>2, Zenon
  <2>5. QED  BY <1>2, <2>2, <2>3, <2>4, Zenon DEF get_checkpoint_for_iter, alloc_retry, alloc_checkpoint
<1>3. ASSUME NEW w \in Worker, perform_checkpoint_locked(w) PROVE Held \subseteq Held'
  <2>1. UNCHANGED <<used, adopted>>
    BY <1>3, Zenon DEF perform_checkpoint_locked
  <2>2. PICK c \in Chk : c = cur[w]
    <3>1. pc[w] = "fill" /\ FillOK(w)
      BY <1>3, Zenon DEF IInv, WorkerOK, perform_checkpoint_locked
    <3>2. QED  BY <1>0, <3>1, Zenon DEF FillOK
  <2>3. ASSUME NEW d \in Range(used), num_workers[d] > 0
        PROVE  num_workers'[d] > 0 /\ has[d] \subseteq has'[d]
    <3>1. d \in Chk /\ num_workers \in [Chk -> Nat] /\ has \in [Chk -> SUBSET (Worker \X Label)]
      BY <1>0, <2>3, Zenon
    <3>2. /\ num_workers' = [num_workers EXCEPT ![c] = @ + 1]
          /\ num_workers[c] > 0 => has' = [has EXCEPT ![c] = @ \cup {<<w, eff[w]>>}]
          /\ \A e \in Chk : e # c => has'[e] = has[e]
      <4>1. num_workers[c] > 0 => ~ClearsHeaps(c)
        BY <3>1 DEF ClearsHeaps
      <4>2. QED  BY <1>3, <2>2, <3>1, <4>1, Zenon DEF perform_checkpoint_locked
    <3>3. CASE d = c
      BY <2>3, <3>1, <3>2, <3>3
    <3>4. CASE d # c
      BY <2>3, <3>1, <3>2, <3>4, Zenon
    <3>5. QED  BY <3>3, <3>4, Zenon
  <2>4. QED  BY <2>1, <2>3, HeldGrows, Zenon
<1>4. ASSUME NEW w \in Worker, commit_combine(w) PROVE Held \subseteq Held'
  <2>1. UNCHANGED <<used, num_workers, adopted>>
    BY <1>4, Zenon DEF commit_combine
  <2>2. \A c \in Range(used) : has[c] \subseteq has'[c]
    BY <1>0, <1>4, Zenon DEF commit_combine, combine_checkpoints
  <2>3. QED  BY <2>1, <2>2, HeldGrows, Zenon
<1>5. ASSUME NEW w \in Worker, commit_pop(w) PROVE Held \subseteq Held'
  <2>1. pc[w] \in Holding /\ Popping /\ used' = Tail(used)
        /\ UNCHANGED <<has, num_workers, adopted, iteration, region>>
    BY <1>5, Zenon DEF commit_pop, Holding, Popping, Recycle
  <2>2. /\ mainPc = "join" /\ used # <<>> /\ Len(used) > 1 /\ 1 \in DOMAIN used /\ 2 \in DOMAIN used
        /\ used[1] # used[2] /\ Filled(used[1]) = Worker
        /\ num_workers[used[1]] > 0 /\ num_workers[used[2]] > 0
    BY <2>1, Holder, Zenon
  <2>3. used[1] \in Range(used) /\ used[2] \in Range(used) /\ At(1) \in Labels
    BY <2>2, Places, Zenon
  <2>4. Range(used') = Range(used) \ {used[1]}
    BY <2>1, <2>2, TailPlaces, Zenon
  <2>5. has[used[1]] \subseteq has[used[2]]
    <3>1. has[used[2]] = All(used[2]) /\ has[used[1]] \subseteq All(used[1])
      BY <2>1, <2>2, <2>3, Zenon DEF RInv, HeapInv
    <3>2. Before(At(2)) = UpTo(At(1)) /\ UpTo(At(1)) = Before(At(1)) \cup {At(1)}
      BY <1>0, <2>2, <2>3, FrontLabels, UpToFacts, Zenon
    <3>3. All(used[1]) \subseteq All(used[2])
      BY <2>2, <3>2 DEF All, Own, At
    <3>4. QED  BY <3>1, <3>3, Zenon
  <2>6. has[used[1]] \subseteq Held'
    BY <2>1, <2>2, <2>3, <2>4, <2>5, Zenon DEF Held
  <2>7. QED  BY <2>1, <2>4, <2>6, HeldMoves, Zenon
<1>6. CASE distill_commit
  <2>1. mainPc = "join" /\ Joined
    BY <1>6, Zenon DEF distill_commit
  <2>2. Len(used) = 1
    BY <2>1, CleanJoin, Zenon
  <2>3. ~CompletePair
    BY <2>2 DEF CompletePair
  <2>4. QED  BY <1>1, <1>6, <2>3, Zenon DEF distill_commit
<1>7. CASE distill_adopt
  <2>1. used # <<>> /\ used' = Tail(used) /\ adopted' = adopted \cup has[Head(used)]
        /\ UNCHANGED <<has, num_workers, iteration, region>>
    BY <1>7, Zenon DEF distill_adopt, list_empty, Recycle
  <2>2. Range(used') = Range(used) \ {Head(used)}
    BY <1>0, <2>1, TailFacts, Zenon DEF ListsPartition
  <2>3. has[Head(used)] \subseteq Held'
    BY <2>1, Zenon DEF Held
  <2>4. QED  BY <2>1, <2>2, <2>3, HeldMoves, Zenon
<1>8. ~distill_squash
  BY SquashRegion, Zenon
<1>9. ASSUME NEW w \in Worker, WorkerStep(w) PROVE Held \subseteq Held'
  <2>1. CASE \/ end_iter(w) \/ end_iter_leave(w) \/ worker_finishes(w) \/ perform_checkpoint(w)
             \/ alloc_stall(w) \/ lock_checkpoint(w) \/ misspec_in_body(w) \/ commit_misspec(w)
    BY <1>1, <2>1, Zenon DEF end_iter, end_iter_leave, worker_finishes, perform_checkpoint, alloc_stall,
                      lock_checkpoint, misspec_in_body, commit_misspec
  <2>2. CASE \/ commit_first(w) \/ commit_alpha_type(w) \/ commit_next(w) \/ commit_beta_type(w)
             \/ commit_lock_alpha(w) \/ commit_lock_beta(w) \/ commit_unlock(w)
    BY <1>1, <2>2, Zenon DEF commit_first, commit_alpha_type, commit_next, commit_beta_type,
                      commit_lock_alpha, commit_lock_beta, commit_unlock
  <2>3. QED  BY <1>2, <1>3, <1>4, <1>5, <1>9, <2>1, <2>2, Zenon
             DEF WorkerStep, Progress, commit_zero_or_more_checkpoints
<1>10. CASE distill_misspec \/ distill_end \/ UNCHANGED vars
  BY <1>1, <1>10, Zenon DEF distill_misspec, distill_end, vars
<1>11. ~begin_invocation /\ ~recovery_finished
  BY Zenon DEF begin_invocation, recovery_finished
<1>12. QED  BY <1>6, <1>7, <1>8, <1>9, <1>10, <1>11, ZenonT(40)
            DEF Next, MainStep, distill_checkpoints_into_liveout

-------------------------------------------------------------------------------
(* Enough memory *)

\* No worker stalls, or helps to commit because it stalled.
NoStall == \A w \in Worker : pc[w] \notin {"stall", "realloc"} /\ ret[w] = "done"

\* The list never has more elements than there are objects.
LEMMA FewInUse == ASSUME IInv PROVE Len(used) <= MaxChk
<1>1. used \in Seq(Chk) /\ IsInjective(used)
  BY Zenon DEF IInv, TypeOK, ListsPartition
<1>2. Len(used) \in Nat /\ used \in [1..Len(used) -> Chk]
  BY <1>1, SeqFacts, Zenon
<1>3. IsFiniteSet(Chk) /\ Cardinality(Chk) = MaxChk
  BY BoundAssumption, FS_Interval DEF Chk
<1>4. Cardinality(1..Len(used)) = Len(used)
  <2>1. 1 \in Int /\ Len(used) \in Int
    BY <1>2
  <2>2. Cardinality(1..Len(used)) = IF 1 > Len(used) THEN 0 ELSE Len(used) - 1 + 1
    BY <2>1, FS_Interval, Zenon
  <2>3. QED  BY <1>2, <2>2
<1>5. used \in Injection(1..Len(used), Chk)
  BY <1>1, <1>2, Zenon DEF Injection
<1>6. QED  BY <1>3, <1>4, <1>5, FS_Injection

LEMMA NextNoStall == MaxChk <= Fit /\ IInv /\ NoStall /\ [Next]_vars => NoStall'
<1> SUFFICES ASSUME MaxChk <= Fit, IInv, NoStall, [Next]_vars PROVE NoStall'
  BY Zenon
<1> USE DEF mgr, objs, pcb, locals, mainSt, Go
<1>1. ~is_saturated
  <2>1. Len(used) \in Nat
    BY SeqFacts, Zenon DEF IInv, TypeOK
  <2>2. QED  BY <2>1, FewInUse, BoundAssumption DEF is_saturated
<1>2. pc \in [Worker -> Done \cup
        {"run", "left", "ckpt", "get", "stall", "realloc", "lock", "fill", "first",
         "alphaType", "next", "betaType", "lockAlpha", "lockBeta", "combine", "pop", "unlock"}]
      /\ ret \in [Worker -> {"done", "stall"}]
  BY Zenon DEF IInv, TypeOK
<1>3. ASSUME NEW w \in Worker, WorkerStep(w) PROVE NoStall'
  <2>0. pc[w] \notin {"stall", "realloc"} /\ ret[w] = "done"
    BY Zenon DEF NoStall
  <2>1. Return(w) => pc' = [pc EXCEPT ![w] = pc'[w]] /\ pc'[w] \notin {"stall", "realloc"}
    BY <1>2, <2>0, Zenon DEF Return
  <2>2. ASSUME pc' = pc \/ pc' = [pc EXCEPT ![w] = pc'[w]], pc'[w] \notin {"stall", "realloc"},
               ret' = ret \/ ret' = [ret EXCEPT ![w] = "done"]
        PROVE  NoStall'
    BY <1>2, <2>2, Zenon DEF NoStall
  <2>3. CASE \/ end_iter(w) \/ end_iter_leave(w) \/ worker_finishes(w) \/ perform_checkpoint(w)
             \/ lock_checkpoint(w) \/ misspec_in_body(w) \/ commit_misspec(w)
             \/ perform_checkpoint_locked(w)
    BY <1>2, <2>0, <2>2, <2>3, Zenon DEF end_iter, end_iter_leave, worker_finishes, perform_checkpoint,
       lock_checkpoint, misspec_in_body, commit_misspec, perform_checkpoint_locked, misspec_at
  <2>4. CASE get_checkpoint_for_iter(w)
    BY <1>1, <1>2, <2>0, <2>2, <2>4, Zenon DEF get_checkpoint_for_iter, alloc_checkpoint, PushPartial
  <2>5. CASE \/ commit_first(w) \/ commit_alpha_type(w) \/ commit_next(w) \/ commit_beta_type(w)
             \/ commit_lock_alpha(w) \/ commit_lock_beta(w) \/ commit_combine(w)
             \/ commit_pop(w) \/ commit_unlock(w)
    BY <1>2, <2>0, <2>1, <2>2, <2>5, ZenonT(40) DEF commit_first, commit_alpha_type, commit_next,
       commit_beta_type, commit_lock_alpha, commit_lock_beta, commit_combine, commit_pop,
       commit_unlock
  <2>6. ~alloc_stall(w) /\ ~alloc_retry(w)
    BY <2>0, Zenon DEF alloc_stall, alloc_retry
  <2>7. QED  BY <1>3, <2>3, <2>4, <2>5, <2>6, Zenon
             DEF WorkerStep, Progress, commit_zero_or_more_checkpoints
<1>4. CASE distill_checkpoints_into_liveout \/ distill_misspec \/ UNCHANGED vars
  <2>1. UNCHANGED <<pc, ret>>
    BY <1>4, Zenon DEF distill_checkpoints_into_liveout, distill_commit, distill_adopt, distill_squash,
                distill_end, distill_misspec, vars
  <2>2. QED  BY <2>1, Zenon DEF NoStall
<1>5. CASE begin_invocation \/ recovery_finished
  BY <1>5, Zenon DEF begin_invocation, recovery_finished, StartWorkers, NoStall
<1>6. QED  BY <1>3, <1>4, <1>5, Zenon DEF Next, MainStep

-------------------------------------------------------------------------------
(* Theorems about a region *)

\* As long as alloc_checkpoint gives no iteration a second object after a
\* stall, the invariant of a region holds.
THEOREM RegionInvariance == Spec /\ [][SearchedAgain]_vars => []RInv
BY InitRInv, NextRInv, Invariance, PTL DEF Spec

\* The list that get_checkpoint_for_iter appends to is in order by time and
\* has one checkpoint for an iteration.
THEOREM Ordered == Spec /\ [][SearchedAgain]_vars => []UsedOrdered
<1>1. RInv => UsedOrdered
  BY Zenon DEF RInv, OrderInv
<1>2. QED  BY <1>1, RegionInvariance, PTL

\* However the workers' combinations interleave, combine_checkpoints and
\* distill_checkpoints_into_liveout perform the deferred output of a region in
\* iteration order, without gaps and without repetition.
THEOREM OutputOrdered == Spec /\ [][SearchedAgain]_vars => []OutputInOrder
<1>1. RInv => OutputInOrder
  BY Zenon DEF RInv, OrderInv
<1>2. QED  BY <1>1, RegionInvariance, PTL

\* What distill_checkpoints_into_liveout adopts is the state of all workers at
\* every checkpoint up to one, and nothing a recycled object held before.
THEOREM PrefixAdopted == Spec /\ [][SearchedAgain]_vars => []AdoptedPrefix
<1>1. RInv => AdoptedPrefix
  BY Zenon DEF RInv, JoinInv
<1>2. QED  BY <1>1, RegionInvariance, PTL

\* A region without misspeculation is in main's heaps as a whole when
\* join_children returns.
THEOREM RegionCommitted == Spec /\ [][SearchedAgain]_vars => []RegionComplete
<1>1. RInv => RegionComplete
  BY Zenon DEF RInv, JoinInv
<1>2. QED  BY <1>1, RegionInvariance, PTL

\* The iteration from which recovery re-executes the loop is never before what
\* main has adopted: also if several workers published theirs, in any order.
THEOREM RecoveryIsSound == Spec /\ [][SearchedAgain]_vars => []RecoveryAfterCommit
<1>1. RInv => RecoveryAfterCommit
  BY Zenon DEF RInv, FailInv, RecoveryAfterCommit
<1>2. QED  BY <1>1, RegionInvariance, PTL

\* join_children of a region without misspeculation finds a single checkpoint,
\* the final one.
THEOREM OneAtJoin == Spec /\ [][SearchedAgain]_vars => []JoinFindsOne
<1>1. IInv /\ RInv => JoinFindsOne
  BY CleanJoin, Zenon DEF JoinFindsOne
<1>2. QED  BY <1>1, Invariance, RegionInvariance, PTL

\* Combining, recycling and adopting never lose what a worker has added to a
\* checkpoint, unless the region misspeculated.
THEOREM NoneDropped == Spec /\ [][SearchedAgain]_vars => NothingDropped
<1>1. IInv /\ RInv /\ [Next]_vars => [misspec \/ mainPc = "idle" \/ Held \subseteq Held']_vars
  BY NextHeld, Zenon
<1>2. QED  BY <1>1, Invariance, RegionInvariance, PTL DEF Spec, NothingDropped

\* The checkpoint manager, with its lists, locks and recycled objects, commits
\* a region the way RegionCommit promises it to the main process.
THEOREM Refinement == Spec /\ [][SearchedAgain]_vars => ImplementsRegion
BY InitPromise, NextPromise, Invariance, RegionInvariance, PTL DEF Spec, ImplementsRegion, Promise!Spec

\* If all checkpoint objects fit in MAX_CHECKPOINT bytes, alloc_checkpoint never
\* stalls, so the condition of the theorems above is met.
THEOREM EnoughMemory == MaxChk <= Fit => (Spec => [][SearchedAgain]_vars)
<1> SUFFICES ASSUME MaxChk <= Fit PROVE Spec => [][SearchedAgain]_vars
  BY Zenon
<1>1. Init => NoStall
  BY Zenon DEF Init, NoStall
<1>2. IInv /\ NoStall /\ [Next]_vars => NoStall'
  BY NextNoStall, Zenon
<1>3. NoStall => SearchedAgain
  BY Zenon DEF NoStall, SearchedAgain, alloc_retry
<1>4. NoStall => [SearchedAgain]_vars
  BY <1>3, Zenon
<1>5. QED  BY <1>1, <1>2, <1>4, Invariance, PTL DEF Spec

\* Where all checkpoint objects fit in memory, everything above about a region
\* holds of the manager as it is.
THEOREM RegionWithMemory ==
  MaxChk <= Fit =>
    (Spec => /\ [](UsedOrdered /\ OutputInOrder /\ AdoptedPrefix /\ RegionComplete)
             /\ [](RecoveryAfterCommit /\ JoinFindsOne)
             /\ NothingDropped /\ ImplementsRegion)
<1> SUFFICES ASSUME MaxChk <= Fit
             PROVE  Spec => /\ [](UsedOrdered /\ OutputInOrder /\ AdoptedPrefix /\ RegionComplete)
                            /\ [](RecoveryAfterCommit /\ JoinFindsOne)
                            /\ NothingDropped /\ ImplementsRegion
  BY Zenon
<1>1. Spec => [][SearchedAgain]_vars
  BY EnoughMemory, Zenon
<1>2. QED
  BY <1>1, Ordered, OutputOrdered, PrefixAdopted, RegionCommitted, RecoveryIsSound, OneAtJoin,
     NoneDropped, Refinement, PTL
===============================================================================
