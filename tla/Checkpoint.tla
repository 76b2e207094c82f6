------------------------------ MODULE Checkpoint ------------------------------
(***************************************************************************)
(* The checkpoint manager of the speculative-privatization executive       *)
(* (liberty/support/specpriv-executive/checkpoint.c).                      *)
(*                                                                         *)
(* Worker processes share a list `used' of checkpoint objects, ordered by  *)
(* iteration, and a list `free' of recycled ones.  Every worker adds its   *)
(* private, reduction and I/O state to the object of each checkpointed     *)
(* iteration; the last one to do so makes the object Complete; any worker  *)
(* may then combine the two oldest Complete objects into the newer one.    *)
(* When the workers are done, the main process adopts the Complete prefix  *)
(* of the list and squashes the rest.                                      *)
(*                                                                         *)
(* Granularity.  A worker's step is one access to state that another       *)
(* process reads without holding the lock that protects it.  A critical    *)
(* section of the manager's lock makes a single change that such a reader  *)
(* can see (the list gains or loses one element) and never waits for       *)
(* another lock, so it is one step and the manager's lock is not a         *)
(* variable.  Checkpoint objects are named 1, 2, ... in order of           *)
(* allocation, as total_checkpoint_objects names them; 0 is NULL.          *)
(*                                                                         *)
(* Definitions with a suffix after an underscore that the source does not  *)
(* have (Recycle_leak, Joined_flags) are faulty variants of the definition *)
(* they precede; no action uses them, mutation tests put them in its place.*)
(*                                                                         *)
(* The loop body is abstract: an iteration may end, or misspeculate, and   *)
(* the iteration at which the loop exits is chosen when a region starts.   *)
(***************************************************************************)
EXTENDS Integers, Sequences, FiniteSets, Functions

CONSTANTS
  Worker,         \* the worker processes
  NoWorker,       \* the value of a lock nobody holds
  MaxIter,        \* bound: the last iteration a loop may reach
  Granularity,    \* checkpointGranularity, iterations between checkpoints
  LastIteration,  \* LAST_ITERATION, the label of the final checkpoint
  Fit,            \* how many checkpoints fit in MAX_CHECKPOINT bytes
  MaxChk          \* bound: how many checkpoint objects are ever allocated

ASSUME WorkerAssumption ==
  IsFiniteSet(Worker) /\ Worker # {} /\ NoWorker \notin Worker
ASSUME IterAssumption ==
  /\ MaxIter \in Nat /\ Granularity \in Nat \ {0}
  /\ LastIteration \in Int /\ LastIteration > MaxIter
ASSUME BoundAssumption == Fit \in Nat /\ MaxChk \in Nat

VARIABLES
  \* CheckpointManager
  used, free, total,
  \* Checkpoint objects
  type, iteration, num_workers, lock,
  has,            \* the heaps: whose state, of which checkpoint, they hold
  \* ParallelControlBlock
  misspec, misspecIter,
  \* the workers
  pc, currentIter,
  eff,            \* effectiveIter, the label of the checkpoint in progress
  cur,            \* chkpt in worker_perform_checkpoint
  alpha, beta,    \* locals of commit_zero_or_more_checkpoints
  ret,            \* where commit_zero_or_more_checkpoints returns to
  given,          \* history: labels this worker has contributed to
  \* the main process
  mainPc,
  firstIter, endIter,   \* the region runs iterations firstIter .. endIter - 1
  mainIter,       \* main_checkpoint->iteration
  adopted,        \* history: what the main heaps hold of this region
  output          \* history: labels whose deferred I/O was performed

mgr     == <<used, free, total>>
objs    == <<type, iteration, num_workers, lock, has>>
pcb     == <<misspec, misspecIter>>
locals  == <<eff, cur, alpha, beta, ret, given>>
region  == <<firstIter, endIter>>
mainSt  == <<mainPc, region, mainIter, adopted>>
vars    == <<mgr, objs, pcb, pc, currentIter, locals, mainSt, output>>

Chk   == 1..MaxChk
Iter  == 0..MaxIter
Label == Iter \cup {LastIteration}
Life  == {"Free", "Partial", "Complete", "Broken"}

\* dead and finished workers have set their done flag; one that left has not
Done  == {"dead", "finished"}

TypeOK ==
  /\ used \in Seq(Chk) /\ free \in Seq(Chk) /\ total \in 0..MaxChk
  /\ type \in [Chk -> Life] /\ iteration \in [Chk -> Label \cup {-1}]
  /\ num_workers \in [Chk -> Nat] /\ lock \in [Chk -> Worker \cup {NoWorker}]
  /\ has \in [Chk -> SUBSET (Worker \X Label)]
  /\ misspec \in BOOLEAN /\ misspecIter \in Label
  /\ pc \in [Worker -> Done \cup
        {"run", "left", "ckpt", "get", "stall", "realloc", "lock", "fill", "first",
         "alphaType", "next", "betaType", "lockAlpha", "lockBeta", "combine",
         "pop", "unlock"}]
  /\ currentIter \in [Worker -> Iter] /\ eff \in [Worker -> Label]
  /\ cur \in [Worker -> 0..MaxChk]
  /\ alpha \in [Worker -> 0..MaxChk] /\ beta \in [Worker -> 0..MaxChk]
  /\ ret \in [Worker -> {"done", "stall"}] /\ given \in [Worker -> SUBSET Label]
  /\ mainPc \in {"join", "adopt", "squash", "idle", "crashed"}
  /\ firstIter \in Iter /\ endIter \in Iter /\ mainIter \in Label \cup {-1}
  /\ adopted \in SUBSET (Worker \X Label) /\ output \in Seq(Label)

-------------------------------------------------------------------------------
(* Lists.  pop_front and push_back are Tail and Append. *)

list_empty(list) == list = <<>>

first(list) == IF list_empty(list) THEN 0 ELSE Head(list)

\* c->next: the successor of c on whichever list holds it, or NULL.
next(c) ==
  LET after(list) == {list[i + 1] : i \in {j \in 1..(Len(list) - 1) : list[j] = c}}
      succ        == after(used) \cup after(free)
  IN  IF succ = {} THEN 0 ELSE CHOOSE d \in succ : TRUE

\* More than one checkpoint is in use and together they exceed the limit.
is_saturated == Len(used) > 1 /\ Len(used) > Fit

Go(w, where) == pc' = [pc EXCEPT ![w] = where]

\* acquire_lock spins until the compare-and-swap succeeds.
acquire_lock_untested(w, c) == lock' = [lock EXCEPT ![c] = w]
acquire_lock(w, c) == lock[c] = NoWorker /\ lock' = [lock EXCEPT ![c] = w]

\* Take the oldest checkpoint off the used list; put c on the free list.
Recycle_leak(c) == used' = Tail(used) /\ UNCHANGED free
Recycle(c) == used' = Tail(used) /\ free' = Append(free, c)

-------------------------------------------------------------------------------
(* Iterations of a worker *)

\* advance_iter: the shadow code wraps around to its first value.
IsCheckpointed(i) == (i - firstIter) % Granularity = 0 /\ i > 0

\* The labels at which the workers of this region make checkpoints.
Labels == {i \in Iter : firstIter < i /\ i <= endIter /\ IsCheckpointed(i)}
          \cup {LastIteration}

misspec_at_previous(w, i) ==
  /\ misspec' = TRUE /\ misspecIter' = i - 1
  /\ Go(w, "dead")

\* misspec_at: publish the iteration, set my done flag, jump back to the pipe.
misspec_at(w, i) ==
  /\ misspec' = TRUE /\ misspecIter' = i
  /\ Go(w, "dead")

\* The loop body misspeculates, possibly in the iteration that exits.
misspec_in_body(w) ==
  /\ pc[w] = "run"
  /\ misspec_at(w, currentIter[w])
  /\ UNCHANGED <<mgr, objs, currentIter, locals, mainSt, output>>

\* end_iter when an earlier iteration misspeculated: leave without a done flag.
end_iter_leave(w) ==
  /\ pc[w] = "run" /\ currentIter[w] < endIter
  /\ misspec /\ currentIter[w] > misspecIter
  /\ Go(w, "left")
  /\ UNCHANGED <<mgr, objs, pcb, currentIter, locals, mainSt, output>>

\* end_iter: count the iteration, and checkpoint if the shadow codes run out.
end_iter(w) ==
  /\ pc[w] = "run" /\ currentIter[w] < endIter
  /\ ~(misspec /\ currentIter[w] > misspecIter)
  /\ currentIter' = [currentIter EXCEPT ![w] = @ + 1]
  /\ IF IsCheckpointed(currentIter[w] + 1)
     THEN /\ eff' = [eff EXCEPT ![w] = currentIter[w] + 1]
          /\ Go(w, "ckpt")
     ELSE UNCHANGED <<eff, pc>>
  /\ UNCHANGED <<mgr, objs, pcb, cur, alpha, beta, ret, given, mainSt, output>>

\* worker_finishes: the loop is over, make the final checkpoint.
worker_finishes(w) ==
  /\ pc[w] = "run" /\ currentIter[w] = endIter
  /\ eff' = [eff EXCEPT ![w] = LastIteration]
  /\ Go(w, "ckpt")
  /\ UNCHANGED <<mgr, objs, pcb, currentIter, cur, alpha, beta, ret, given, mainSt, output>>

\* Something up to my iteration is known to have misspeculated.
MisspecBefore(w) == misspec /\ misspecIter <= currentIter[w]

\* worker_perform_checkpoint, before it asks for a checkpoint object.
perform_checkpoint(w) ==
  /\ pc[w] = "ckpt"
  /\ IF MisspecBefore(w)
     THEN misspec_at(w, currentIter[w])
     ELSE Go(w, "get") /\ UNCHANGED pcb
  /\ UNCHANGED <<mgr, objs, currentIter, locals, mainSt, output>>

-------------------------------------------------------------------------------
(* Obtaining the checkpoint object of an iteration *)

\* get_checkpoint_for_iter, the tail: object c becomes the newest in use.
PushPartial(w, c) ==
  /\ used' = Append(used, c)
  /\ type' = [type EXCEPT ![c] = "Partial"]
  /\ iteration' = [iteration EXCEPT ![c] = eff[w]]
  /\ num_workers' = [num_workers EXCEPT ![c] = 0]
  /\ cur' = [cur EXCEPT ![w] = c]
  /\ Go(w, "lock")

\* alloc_checkpoint, one round of its loop: recycle, allocate or stall.
alloc_checkpoint(w) ==
  \/ /\ ~list_empty(free)
     /\ free' = Tail(free)
     /\ PushPartial(w, Head(free))
     /\ UNCHANGED <<total, lock, has>>
  \/ /\ list_empty(free) /\ ~is_saturated /\ total < MaxChk
     /\ total' = total + 1
     /\ lock' = [lock EXCEPT ![total + 1] = NoWorker]
     /\ has' = [has EXCEPT ![total + 1] = {}]
     /\ PushPartial(w, total + 1)
     /\ UNCHANGED free
  \/ /\ list_empty(free) /\ is_saturated
     /\ Go(w, "stall")
     /\ UNCHANGED <<mgr, objs, cur>>

\* The places on the list of checkpoints for the iteration w asks for.
Match_newest(w) == {i \in {Len(used)} \ {0} : iteration[used[i]] = eff[w]}
Match(w) == {i \in DOMAIN used : iteration[used[i]] = eff[w]}

\* get_checkpoint_for_iter: the object in use for this iteration, or a new one.
get_checkpoint_for_iter(w) ==
  /\ pc[w] = "get"
  /\ \/ \E i \in Match(w) :
          /\ \A j \in Match(w) : i <= j
          /\ cur' = [cur EXCEPT ![w] = used[i]]
          /\ Go(w, "lock")
          /\ UNCHANGED <<mgr, objs>>
     \/ Match(w) = {} /\ alloc_checkpoint(w)
  /\ UNCHANGED <<pcb, currentIter, eff, alpha, beta, ret, given, mainSt, output>>

\* alloc_checkpoint, the stall: give up after a misspeculation, or else help
\* to commit, until an object is free or memory is available.
alloc_stall(w) ==
  /\ pc[w] = "stall"
  /\ \/ /\ ~list_empty(free) \/ ~is_saturated
        /\ Go(w, "realloc")
        /\ UNCHANGED <<pcb, ret>>
     \/ /\ list_empty(free) /\ is_saturated /\ MisspecBefore(w)
        /\ misspec_at(w, currentIter[w])
        /\ UNCHANGED ret
     \/ /\ list_empty(free) /\ is_saturated /\ ~MisspecBefore(w)
        /\ ret' = [ret EXCEPT ![w] = "stall"]
        /\ Go(w, "first")
        /\ UNCHANGED pcb
  /\ UNCHANGED <<mgr, objs, currentIter, eff, cur, alpha, beta, given, mainSt, output>>

\* alloc_checkpoint, after the stall: the manager is locked again, and the
\* loop goes round; the list is not searched again.
alloc_retry(w) ==
  /\ pc[w] = "realloc"
  /\ alloc_checkpoint(w)
  /\ UNCHANGED <<pcb, currentIter, eff, alpha, beta, ret, given, mainSt, output>>

-------------------------------------------------------------------------------
(* Adding a worker's state to a checkpoint *)

lock_checkpoint(w) ==
  /\ pc[w] = "lock" /\ acquire_lock(w, cur[w])
  /\ Go(w, "fill")
  /\ UNCHANGED <<mgr, type, iteration, num_workers, has, pcb, currentIter, locals,
                 mainSt, output>>

\* The first worker to add its state finds what the last use left behind.
ClearsHeaps_always(c) == TRUE
ClearsHeaps(c) == num_workers[c] = 0

Completes_early(c) == num_workers[c] + 1 >= Cardinality(Worker) - 1
Completes(c) == num_workers[c] + 1 = Cardinality(Worker)

\* worker_perform_checkpoint_locked: the first worker clears the heaps, the
\* last one completes the checkpoint.
perform_checkpoint_locked(w) ==
  /\ pc[w] = "fill"
  /\ LET c == cur[w]
     IN  /\ has' = [has EXCEPT ![c] = (IF ClearsHeaps(c) THEN {} ELSE @)
                                       \cup {<<w, eff[w]>>}]
         /\ num_workers' = [num_workers EXCEPT ![c] = @ + 1]
         /\ type' = [type EXCEPT ![c] = IF Completes(c) THEN "Complete" ELSE @]
         /\ lock' = [lock EXCEPT ![c] = NoWorker]
  /\ given' = [given EXCEPT ![w] = @ \cup {eff[w]}]
  /\ ret' = [ret EXCEPT ![w] = "done"]
  /\ Go(w, "first")
  /\ UNCHANGED <<mgr, iteration, pcb, currentIter, eff, cur, alpha, beta, mainSt, output>>

-------------------------------------------------------------------------------
(* commit_zero_or_more_checkpoints: combine the two oldest checkpoints *)

\* Back to the caller: the stall in alloc_checkpoint, the next iteration, or
\* the end of worker_finishes, which sets the done flag.
Return(w) ==
  Go(w, IF ret[w] = "stall" THEN "stall"
        ELSE IF eff[w] = LastIteration THEN "finished" ELSE "run")

\* alpha = mgr->used.first, read without a lock.
commit_first(w) ==
  /\ pc[w] = "first"
  /\ alpha' = [alpha EXCEPT ![w] = first(used)]
  /\ IF list_empty(used) THEN Return(w) ELSE Go(w, "alphaType")
  /\ UNCHANGED <<mgr, objs, pcb, currentIter, eff, cur, beta, ret, given, mainSt, output>>

\* Is alpha complete?  Still without a lock.
commit_alpha_type(w) ==
  /\ pc[w] = "alphaType"
  /\ IF type[alpha[w]] = "Complete" THEN Go(w, "next") ELSE Return(w)
  /\ UNCHANGED <<mgr, objs, pcb, currentIter, locals, mainSt, output>>

\* beta = alpha->next.
commit_next(w) ==
  /\ pc[w] = "next"
  /\ beta' = [beta EXCEPT ![w] = next(alpha[w])]
  /\ IF next(alpha[w]) = 0 THEN Return(w) ELSE Go(w, "betaType")
  /\ UNCHANGED <<mgr, objs, pcb, currentIter, eff, cur, alpha, ret, given, mainSt, output>>

\* How about the second checkpoint?
commit_beta_type(w) ==
  /\ pc[w] = "betaType"
  /\ IF type[beta[w]] = "Complete" THEN Go(w, "lockAlpha") ELSE Return(w)
  /\ UNCHANGED <<mgr, objs, pcb, currentIter, locals, mainSt, output>>

commit_lock_alpha(w) ==
  /\ pc[w] = "lockAlpha" /\ acquire_lock(w, alpha[w])
  /\ Go(w, "lockBeta")
  /\ UNCHANGED <<mgr, type, iteration, num_workers, has, pcb, currentIter, locals,
                 mainSt, output>>

\* What the quick test saw still holds, now that both are locked.
StillComplete_assumed(w) == TRUE
StillComplete(w) ==
  /\ type[alpha[w]] = "Complete" /\ next(alpha[w]) = beta[w]
  /\ type[beta[w]] = "Complete"

\* Lock beta and check again: give up, or mark alpha as not complete.
commit_lock_beta(w) ==
  /\ pc[w] = "lockBeta"
  /\ \/ /\ StillComplete(w)
        /\ acquire_lock(w, beta[w])
        /\ type' = [type EXCEPT ![alpha[w]] = "Free"]
        /\ Go(w, "combine")
     \/ /\ ~StillComplete(w)
        /\ lock[beta[w]] = NoWorker
        /\ lock' = [lock EXCEPT ![alpha[w]] = NoWorker]
        /\ Return(w)
        /\ UNCHANGED type
  /\ UNCHANGED <<mgr, iteration, num_workers, has, pcb, currentIter, locals,
                 mainSt, output>>

combine_checkpoints_drop(older, newer) ==
  UNCHANGED has /\ output' = Append(output, iteration[older])

combine_checkpoints_newer(older, newer) ==
  /\ has' = [has EXCEPT ![newer] = @ \cup has[older]]
  /\ output' = Append(output, iteration[newer])

\* combine_checkpoints: fold older into newer, perform the older one's I/O.
combine_checkpoints(older, newer) ==
  /\ has' = [has EXCEPT ![newer] = @ \cup has[older]]
  /\ output' = Append(output, iteration[older])

commit_combine(w) ==
  /\ pc[w] = "combine"
  /\ combine_checkpoints(alpha[w], beta[w])
  /\ Go(w, "pop")
  /\ UNCHANGED <<mgr, type, iteration, num_workers, lock, pcb, currentIter, locals, mainSt>>

Unlock(w) ==
  lock' = [lock EXCEPT ![alpha[w]] = NoWorker, ![beta[w]] = NoWorker]

\* The two heaps disagree: misspeculation during checkpoint.
commit_misspec(w) ==
  /\ pc[w] = "combine"
  /\ type' = [type EXCEPT ![beta[w]] = "Broken"]
  /\ Unlock(w)
  /\ misspec_at(w, iteration[beta[w]])
  /\ UNCHANGED <<mgr, iteration, num_workers, has, currentIter, locals, mainSt, output>>

\* Move alpha from the front of used to the free list.
commit_pop(w) ==
  /\ pc[w] = "pop"
  /\ Recycle(alpha[w])
  /\ Go(w, "unlock")
  /\ UNCHANGED <<total, objs, pcb, currentIter, locals, mainSt, output>>

commit_unlock(w) ==
  /\ pc[w] = "unlock"
  /\ Unlock(w)
  /\ Return(w)
  /\ UNCHANGED <<mgr, type, iteration, num_workers, has, pcb, currentIter, locals,
                 mainSt, output>>

-------------------------------------------------------------------------------
(* The main process *)

\* join_children: a misspeculation, or the final checkpoint at the front of
\* the list, and then every worker's done flag.
Joined_flags == \A w \in Worker : pc[w] \in Done
Joined ==
  /\ misspec \/ (~list_empty(used) /\ iteration[Head(used)] = LastIteration)
  /\ \A w \in Worker : pc[w] \in Done

\* The two oldest checkpoints are complete.
CompletePair ==
  Len(used) > 1 /\ type[used[1]] = "Complete" /\ type[used[2]] = "Complete"

\* distill_checkpoints_into_liveout: commit once more.  No worker is active.
distill_commit ==
  /\ mainPc = "join" /\ Joined
  /\ IF CompletePair
     THEN /\ combine_checkpoints(used[1], used[2])
          /\ type' = [type EXCEPT ![used[1]] = "Free"]
          /\ Recycle(used[1])
     ELSE UNCHANGED <<has, output, type, used, free>>
  /\ mainPc' = "adopt"
  /\ UNCHANGED <<total, iteration, num_workers, lock, pcb, pc, currentIter, locals,
                 region, mainIter, adopted>>

\* The combination misspeculates in the main process, which has no worker
\* number and never saved a jump buffer.
distill_misspec ==
  /\ mainPc = "join" /\ Joined /\ CompletePair
  /\ type' = [type EXCEPT ![used[1]] = "Free", ![used[2]] = "Broken"]
  /\ misspec' = TRUE /\ misspecIter' = iteration[used[2]]
  /\ mainPc' = "crashed"
  /\ UNCHANGED <<mgr, iteration, num_workers, lock, has, pc, currentIter, locals,
                 region, mainIter, adopted, output>>

\* Adopt the changes of the oldest checkpoint, if it is complete.
distill_adopt ==
  /\ mainPc = "adopt" /\ ~list_empty(used) /\ type[Head(used)] = "Complete"
  /\ LET c == Head(used)
     IN  /\ output' = Append(output, iteration[c])
         /\ adopted' = adopted \cup has[c]
         /\ mainIter' = iteration[c]
         /\ type' = [type EXCEPT ![c] = "Free"]
         /\ Recycle(c)
  /\ UNCHANGED <<total, iteration, num_workers, lock, has, pcb, pc, currentIter, locals,
                 mainPc, region>>

\* The first checkpoint that is not complete, and all after it, are squashed.
distill_squash ==
  /\ \/ mainPc = "adopt" /\ ~list_empty(used) /\ type[Head(used)] # "Complete"
     \/ mainPc = "squash" /\ ~list_empty(used)
  /\ mainPc' = "squash"
  /\ type' = [type EXCEPT ![Head(used)] = "Free"]
  /\ Recycle(Head(used))
  /\ UNCHANGED <<total, iteration, num_workers, lock, has, pcb, pc, currentIter, locals,
                 region, mainIter, adopted, output>>

distill_end ==
  /\ mainPc \in {"adopt", "squash"} /\ list_empty(used)
  /\ mainPc' = "idle"
  /\ UNCHANGED <<mgr, objs, pcb, pc, currentIter, locals, region, mainIter, adopted, output>>

-------------------------------------------------------------------------------
(* Starting the workers *)

\* trigger_workers and worker_starts, from iteration i; the loop will exit
\* at some later one.
StartWorkers(i) ==
  /\ firstIter' = i /\ endIter' \in i..MaxIter
  /\ pc' = [w \in Worker |-> "run"]
  /\ currentIter' = [w \in Worker |-> i]
  /\ eff' = [w \in Worker |-> LastIteration] /\ ret' = [w \in Worker |-> "done"]
  /\ cur' = [w \in Worker |-> 0]
  /\ alpha' = [w \in Worker |-> 0] /\ beta' = [w \in Worker |-> 0]
  /\ given' = [w \in Worker |-> {}]
  /\ adopted' = {} /\ output' = <<>>
  /\ mainPc' = "join"

\* The next invocation: nothing is committed yet.
begin_invocation ==
  /\ mainPc = "idle"
  /\ misspec' = FALSE /\ mainIter' = -1
  /\ StartWorkers(0)
  /\ UNCHANGED <<mgr, objs, misspecIter>>

\* recovery_finished: the main process has re-executed the loop sequentially
\* up to the misspeculated iteration and resumes parallel execution after it.
recovery_finished ==
  /\ mainPc = "idle" /\ misspec /\ misspecIter < MaxIter
  /\ misspec' = FALSE /\ mainIter' = misspecIter
  /\ StartWorkers(misspecIter + 1)
  /\ UNCHANGED <<mgr, objs, misspecIter>>

\* init_checkpoint_manager, and the first invocation.
Init ==
  /\ used = <<>> /\ free = <<>> /\ total = 0
  /\ type = [c \in Chk |-> "Free"] /\ iteration = [c \in Chk |-> -1]
  /\ num_workers = [c \in Chk |-> 0] /\ lock = [c \in Chk |-> NoWorker]
  /\ has = [c \in Chk |-> {}]
  /\ misspec = FALSE /\ misspecIter = 0
  /\ pc = [w \in Worker |-> "run"] /\ currentIter = [w \in Worker |-> 0]
  /\ eff = [w \in Worker |-> LastIteration] /\ ret = [w \in Worker |-> "done"]
  /\ cur = [w \in Worker |-> 0]
  /\ alpha = [w \in Worker |-> 0] /\ beta = [w \in Worker |-> 0]
  /\ given = [w \in Worker |-> {}]
  /\ mainPc = "join" /\ firstIter = 0 /\ endIter \in Iter
  /\ mainIter = -1 /\ adopted = {} /\ output = <<>>

commit_zero_or_more_checkpoints(w) ==
  \/ commit_first(w) \/ commit_alpha_type(w) \/ commit_next(w) \/ commit_beta_type(w)
  \/ commit_lock_alpha(w) \/ commit_lock_beta(w) \/ commit_combine(w)
  \/ commit_pop(w) \/ commit_unlock(w)

\* What a worker does unless the loop body or a combination misspeculates.
Progress(w) ==
  \/ end_iter(w) \/ end_iter_leave(w) \/ worker_finishes(w)
  \/ perform_checkpoint(w) \/ get_checkpoint_for_iter(w)
  \/ alloc_stall(w) \/ alloc_retry(w)
  \/ lock_checkpoint(w) \/ perform_checkpoint_locked(w)
  \/ commit_zero_or_more_checkpoints(w)

WorkerStep(w) == Progress(w) \/ misspec_in_body(w) \/ commit_misspec(w)

\* join_children after its loops
distill_checkpoints_into_liveout ==
  distill_commit \/ distill_adopt \/ distill_squash \/ distill_end

MainStep ==
  \/ distill_checkpoints_into_liveout \/ distill_misspec
  \/ begin_invocation \/ recovery_finished

Next == (\E w \in Worker : WorkerStep(w)) \/ MainStep

Spec == Init /\ [][Next]_vars

\* Every process keeps running, and main commits what it joined; whether
\* speculation fails, and whether there is another invocation, is left open.
Fairness ==
  /\ \A w \in Worker : WF_vars(Progress(w) \/ commit_misspec(w))
  /\ WF_vars(distill_checkpoints_into_liveout)

FairSpec == Spec /\ Fairness

-------------------------------------------------------------------------------
(* Properties *)

\* The list is in order by time (checkpoint.h), and no iteration has two
\* checkpoints; the assertion in get_checkpoint_for_iter depends on it.
UsedOrdered ==
  \A i, j \in DOMAIN used : i < j => iteration[used[i]] < iteration[used[j]]

\* commit_zero_or_more_checkpoints read alpha and its successor without a
\* lock, but when it removes the front of the list, that is still alpha (the
\* assertion before pop_front), and beta is what follows.
CommitFront ==
  \A w \in Worker : pc[w] = "pop" =>
    Len(used) > 1 /\ used[1] = alpha[w] /\ used[2] = beta[w]

\* The processes that read or write the heaps of checkpoint c.
InHeaps(c) == {w \in Worker : \/ pc[w] = "fill" /\ cur[w] = c
                              \/ pc[w] \in {"combine", "pop"} /\ c \in {alpha[w], beta[w]}}

\* No two processes are in the heaps of one checkpoint object, however often
\* the object was recycled while one of them waited for its lock.
HeapsExclusive == \A c \in Chk : \A v, w \in InHeaps(c) : v = w

\* Every allocated object is on exactly one of the two lists, once: none
\* leaks and none is handed out twice.
ListsPartition ==
  /\ Range(used) \cup Range(free) = 1..total
  /\ Range(used) \cap Range(free) = {}
  /\ IsInjective(used) /\ IsInjective(free)

\* What main adopts is the state of all workers at one checkpoint and all
\* earlier ones, and nothing from an earlier use of a recycled object.
AdoptedPrefix ==
  adopted # {} => adopted = Worker \X {l \in Labels : l <= mainIter}

\* A region that did not misspeculate is committed in full.
RegionComplete == mainPc = "idle" /\ ~misspec => adopted = Worker \X Labels

\* Deferred I/O is performed in iteration order, without gaps or repetition.
OutputInOrder ==
  \A i \in DOMAIN output :
    {output[j] : j \in 1..(i - 1)} = {l \in Labels : l < output[i]}

\* Without misspeculation, main finds one checkpoint at the join (timelines:
\* "expected to iterate only once").
JoinFindsOne == mainPc = "join" /\ Joined /\ ~misspec => Len(used) = 1

\* Recovery never has to go back behind what is committed.
RecoveryAfterCommit == mainPc = "idle" /\ misspec => mainIter <= misspecIter

\* The state handed over so far: in the main heaps or in a checkpoint in use.
Held == adopted \cup UNION {has[c] : c \in {d \in Range(used) : num_workers[d] > 0}}

\* Combining, recycling and adopting checkpoints never drops a worker's
\* contribution, unless the region misspeculated.
NothingDropped == [][misspec \/ mainPc = "idle" \/ Held \subseteq Held']_vars

\* A checkpoint, once begun, ends: no set of workers waits for each other.
CheckpointReturns ==
  \A w \in Worker : pc[w] = "ckpt" ~> pc[w] \in Done \cup {"run"}

\* When all workers are done, the front checkpoint will be the final one, so
\* join_children stops waiting.
FinalAtFront ==
  mainPc = "join" /\ (\A w \in Worker : pc[w] = "finished") => Joined

\* After a misspeculation all workers report that they are done, and main
\* gets to recover.
JoinAfterMisspec == misspec ~> mainPc # "join"

Phase == [join |-> "open", adopt |-> "closed", squash |-> "closed", idle |-> "over",
          crashed |-> "crashed"]

\* However the lists, the locks and the recycling go, what leaves a region goes
\* through the front of the used list: the output of the checkpoints one by one
\* in order, each with the state of all workers; then, in the main heaps, all
\* up to one checkpoint.
Promise == INSTANCE RegionCommit WITH phase <- Phase[mainPc], labels <- Labels,
             failed <- misspec, released <- output, committed <- adopted

ImplementsRegion == Promise!Spec
===============================================================================
