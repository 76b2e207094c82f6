------------------------------- MODULE Effects -------------------------------
(***************************************************************************)
(* What a checkpoint carries besides the private heap: deferred output     *)
(* (io.c), reductions (redux.c), and the share-private and kill-private    *)
(* heaps (private.c).                                                      *)
(*                                                                         *)
(* One parallel region.  Iteration i runs on worker i % NumWorkers, but    *)
(* every worker counts every iteration and contributes to every            *)
(* checkpoint.  Contribution, combination and adoption are single steps:   *)
(* the locks that make them so, and the lists, are the subject of module   *)
(* Checkpoint.                                                             *)
(*                                                                         *)
(* Data: iteration i issues program[i].io events of output, adds one to    *)
(* element program[i].elem of a sum in memory, offers program[i].val to a  *)
(* maximum in a register together with i as the value that depends on it   *)
(* (the position of the maximum), writes its own share-private byte and    *)
(* overwrites the kill-private heap.  Low stands for -FLT_MAX.             *)
(*                                                                         *)
(* Definitions with a suffix that the source does not have are faulty      *)
(* variants of the ones they precede, for mutation tests.                  *)
(***************************************************************************)
EXTENDS Integers, FiniteSets, FiniteSetsExt, SequencesExt

CONSTANTS
  NumWorkers,
  NumIters,      \* bound: the loop runs iterations 0 .. NumIters - 1
  Granularity,   \* checkpointGranularity
  Programs,      \* what the iterations may do, functions from Iter
  NumElems,      \* length of the array the sum runs over
  VecElems,      \* elements in a vector register
  Integer        \* is the sum of type i32 (and not f32 or f64)?

Worker == 0..(NumWorkers - 1)
Iter   == 0..(NumIters - 1)
Elem   == 0..(NumElems - 1)
Low    == 0
Vals   == {p[i].val : p \in Programs, i \in Iter}

ASSUME EffectsAssumption ==
  /\ NumWorkers \in Nat \ {0} /\ NumIters \in Nat \ {0}
  /\ Granularity \in Nat \ {0} /\ Granularity % NumWorkers = 0
  /\ NumElems \in Nat \ {0} /\ VecElems \in Nat \ {0}
  /\ NumElems = 1 \/ NumElems % VecElems = 0
  /\ Integer \in BOOLEAN
  /\ \A p \in Programs, i \in Iter :
       p[i].io \in Nat /\ p[i].val \in Nat /\ p[i].val > Low /\ p[i].elem \in Elem

VARIABLES
  program,       \* what the iterations do
  start,         \* the maximum before the loop
  latch,         \* does the loop exit after, and not before, its body?
  iter,          \* currentIter of the workers
  status,        \* "run", "final" in the last checkpoint, "done" or "left"
  work,          \* the heaps of the workers
  used,          \* the checkpoints in use, by iteration
  main,          \* the heaps of the main process
  output,        \* what was written
  misspec,       \* misspeculation_happened
  misspecIter,   \* misspeculated_iteration
  joined,        \* has the main process returned from join_children?
  overrun,       \* has commit_io read past a list?
  lost           \* history: a combination failed

vars == <<program, start, latch, iter, status, work, used, main, output,
          misspec, misspecIter, joined, overrun, lost>>

\* LAST_ITERATION, the label of the final checkpoint.
LAST_ITERATION == NumIters + 1
Label == {i \in 1..NumIters : i % Granularity = 0} \cup {LAST_ITERATION}

Event == [iter : Iter, num : Nat]
Sum   == [Elem -> Nat]
\* A maximum, what depends on it, and the iteration of its last update.
Best  == [max : Vals \cup {Low}, arg : Iter \cup {-1}, up : 0..NumIters]

\* Type invariant: events carry numbers of iterations of the loop, checkpoints
\* exist only for multiples of the granularity and for the end (checkpoint.h).
TypeOK ==
  /\ program \in Programs /\ latch \in BOOLEAN
  /\ start \in Vals \cup {Low} /\ iter \in [Worker -> 0..NumIters]
  /\ status \in [Worker -> {"run", "final", "done", "left"}]
  /\ \A w \in Worker :
       /\ \A k \in DOMAIN work[w].io : work[w].io[k] \in Event
       /\ work[w].sum \in Sum /\ work[w].best \in Best
       /\ work[w].touched \subseteq work[w].share /\ work[w].share \subseteq Iter
       /\ work[w].kill \in Iter \cup {-1}
  /\ DOMAIN used \subseteq Label
  /\ \A l \in DOMAIN used :
       /\ used[l].type \in {"partial", "complete", "free", "broken"}
       /\ \A w \in Worker : \A k \in DOMAIN used[l].io[w] : used[l].io[w][k] \in Event
       /\ used[l].who \subseteq Worker /\ used[l].sum \in Sum /\ used[l].best \in Best
       /\ used[l].share \subseteq Iter /\ used[l].kill \in Iter \cup {-1}
  /\ main.sum \in Sum /\ main.best \in Best /\ main.share \subseteq Iter
  /\ main.kill \in Iter \cup {-1} /\ main.iteration \in Label \cup {-1}
  /\ misspec \in BOOLEAN /\ joined \in BOOLEAN /\ overrun \in BOOLEAN /\ lost \in BOOLEAN
  /\ misspecIter \in {-1} \cup 0..LAST_ITERATION

-------------------------------------------------------------------------------
(* Deferred output *)

\* issue_io: the events that iteration i adds to the list of its worker.
issue_io_next(i) == [k \in 1..program[i].io |-> [iter |-> i + 1, num |-> k]]
issue_io(i) == [k \in 1..program[i].io |-> [iter |-> i, num |-> k]]

\* commit_io: issue the events of all workers, always those of the least
\* iteration next and all of that iteration at once.  A list is ascending.
RECURSIVE commit_io(_)
commit_io_by_worker(lists) == FoldLeft(LAMBDA s, w : s \o lists[w], <<>>, SetToSortSeq(Worker, <))
commit_io(lists) ==
  LET left == {w \in Worker : lists[w] # <<>>} IN
  IF left = {} THEN <<>>
  ELSE LET minTime == Min({lists[w][1].iter : w \in left})
           wid     == Min({w \in left : lists[w][1].iter = minTime})
           now(e)  == e.iter = minTime
           later(e) == e.iter # minTime
       IN  SelectSeq(lists[wid], now)
             \o commit_io([lists EXCEPT ![wid] = SelectSeq(@, later)])

\* The loop over the events of one iteration stops at the first event of
\* another one, and not at the end of the list.  Behind the last list is zero
\* (the number of iteration 0), behind the others the next worker's text, and
\* in a recycled checkpoint whatever was there.
MayOverrun(lists) == \E w \in Worker : lists[w] # <<>>

Issue(lists) ==
  /\ output' = output \o commit_io(lists)
  /\ overrun' \in {FALSE, MayOverrun(lists)}

-------------------------------------------------------------------------------
(* Reductions *)

\* reduce_*_add: add the sum in src to the one in dst.  Only the vectors from
\* the first to the last with a non-zero element are added; what is reset in
\* src ends with the first element of the last vector.  A sum of one element
\* is reset unless it is an i32 (there src_au, not *src_au, is set to 0).
Vector(e) == e - (e % VecElems)
reduce_add_keep(src, dst) == [dst |-> [e \in Elem |-> dst[e] + src[e]], src |-> src]
reduce_add(src, dst) ==
  LET vectors == {Vector(e) : e \in {f \in Elem : src[f] # 0}}
      In(e, n) == vectors # {} /\ Min(vectors) <= e /\ e < Max(vectors) + n
  IN  IF NumElems = 1
      THEN [dst |-> [e \in Elem |-> dst[e] + src[e]],
            src |-> IF Integer THEN src ELSE [e \in Elem |-> 0]]
      ELSE [dst |-> [e \in Elem |-> dst[e] + (IF In(e, VecElems) THEN src[e] ELSE 0)],
            src |-> [e \in Elem |-> IF In(e, 1) THEN 0 ELSE src[e]]]

\* reduce_f32_max, preceded by reduce_u64_max for the value that depends on
\* the maximum: of two equal maxima the one that was found earlier counts.
reduce_max_ties(src, dst) == IF src.max >= dst.max THEN src ELSE dst
reduce_max(src, dst) ==
  IF src.max > dst.max \/ (src.max = dst.max /\ src.up < dst.up) THEN src ELSE dst

\* initialize_reductions: the identities, 0 for a sum and Low for a maximum.  A
\* value that depends on a maximum is left as it is.
Identity(best) == [sum |-> [e \in Elem |-> 0], best |-> [best EXCEPT !.max = Low]]

\* distill_*_redux_into_*: merge the reductions of src into those of dst.
distill_redux(src, dst) ==
  [dst EXCEPT !.sum = reduce_add(src.sum, @).dst, !.best = reduce_max(src.best, @)]

\* The loop body's own update of the register, and set_last_redux_update_iter.
Update(best, i) ==
  IF program[i].val > best.max THEN [max |-> program[i].val, arg |-> i, up |-> i] ELSE best

-------------------------------------------------------------------------------
(* Workers *)

\* is_on_iter.
is_on_iter(w, i) == i % NumWorkers = w

\* The body of iteration i on the heaps h.
Body(h, i) ==
  [io    |-> h.io \o issue_io(i),
   sum   |-> [h.sum EXCEPT ![program[i].elem] = @ + 1],
   best  |-> Update(h.best, i),
   share |-> h.share \cup {i}, touched |-> h.touched \cup {i},
   kill  |-> i]

\* distill_worker_shareprivate_into_partial: the bytes that differ from what
\* they were, within the range touched since the last checkpoint.
Shared(h) == {b \in h.share : \E lo, hi \in h.touched : lo <= b /\ b <= hi}

\* distill_worker_killprivate_into_partial, at the final checkpoint: the worker
\* whose turn the iteration is overwrites what is there.
Killed(c, w, h, i) == IF is_on_iter(w, i) THEN h.kill ELSE c.kill

\* initialize_partial_checkpoint.  The dependent value and the iteration of
\* the last update keep whatever the object held before, and so does the
\* kill-private heap.
Fresh(stale) ==
  [type |-> "partial", who |-> {}, io |-> [w \in Worker |-> <<>>],
   sum |-> Identity(stale).sum, best |-> Identity(stale).best,
   share |-> {}, kill |-> stale.arg]

\* Have all workers contributed?
Completes_early(who) == Cardinality(who) >= NumWorkers - 1
Completes(who) == Cardinality(who) = NumWorkers

\* worker_perform_checkpoint_locked: the checkpoint c after worker w, with
\* heaps h and in iteration i, has contributed to it.
Contribute(c, w, h, i, final) ==
  LET who == c.who \cup {w} IN
  [distill_redux(h, c) EXCEPT
     !.type  = IF Completes(who) THEN "complete" ELSE @,
     !.who   = who,
     !.io[w] = h.io,
     !.share = @ \cup Shared(h),
     !.kill  = IF final THEN Killed(c, w, h, i) ELSE @]

\* What is left in the worker's heaps.  The next contribution will store the
\* register again, whatever the merge left in memory.
Distilled(h) == [h EXCEPT !.io = <<>>, !.touched = {}, !.sum = reduce_add(h.sum, h.sum).src]

\* misspec_at: worker w gives up.
misspec_at(w, i) ==
  /\ misspec' = TRUE /\ misspecIter' = i
  /\ status' = [status EXCEPT ![w] = "done"]

\* worker_perform_checkpoint in iteration i, up to the release of the lock.
perform_checkpoint(w, h, i, final) ==
  IF misspec /\ misspecIter <= i
  THEN misspec_at(w, i) /\ UNCHANGED <<work, used>>
  ELSE /\ \E stale \in {main.best, [main.best EXCEPT !.arg = 0, !.up = NumIters]} :
            LET l == IF final THEN LAST_ITERATION ELSE i
                c == IF l \in DOMAIN used THEN used[l] ELSE Fresh(stale)
            IN  used' = [k \in DOMAIN used \cup {l} |->
                           IF k = l THEN Contribute(c, w, h, i, final) ELSE used[k]]
       /\ work' = [work EXCEPT ![w] = Distilled(h)]
       /\ status' = [status EXCEPT ![w] = IF final THEN "final" ELSE @]
       /\ UNCHANGED <<misspec, misspecIter>>

-------------------------------------------------------------------------------
(* Steps of the workers *)

\* What happens after commit_io has read past a list is not modelled.
Runs(w) == ~overrun /\ status[w] = "run"
Contributed(w) == ~overrun /\ status[w] \in {"run", "final"}

\* The iteration in which a worker finds that the loop is over.
ExitIter == IF latch THEN NumIters - 1 ELSE NumIters

\* The rest of the current iteration, and end_iter.
end_iter(w) ==
  /\ Runs(w) /\ iter[w] < ExitIter
  /\ ~(misspec /\ iter[w] > misspecIter)
  /\ LET i == iter[w]
         h == IF is_on_iter(w, i) THEN Body(work[w], i) ELSE work[w]
     IN  /\ iter' = [iter EXCEPT ![w] = i + 1]
         /\ IF (i + 1) % Granularity = 0 THEN perform_checkpoint(w, h, i + 1, FALSE)
            ELSE /\ work' = [work EXCEPT ![w] = h]
                 /\ UNCHANGED <<status, used, misspec, misspecIter>>
  /\ UNCHANGED <<program, start, latch, main, output, joined, overrun, lost>>

\* end_iter, after an earlier iteration misspeculated.
end_iter_leave(w) ==
  /\ Runs(w) /\ iter[w] < ExitIter /\ misspec /\ iter[w] > misspecIter
  /\ status' = [status EXCEPT ![w] = "left"]
  /\ UNCHANGED <<program, start, latch, iter, work, used, main, output, misspec, misspecIter,
                 joined, overrun, lost>>

\* worker_finishes, up to the end of its contribution.
worker_finishes(w) ==
  /\ Runs(w) /\ iter[w] = ExitIter
  /\ LET i == iter[w]
         h == IF latch /\ is_on_iter(w, i) THEN Body(work[w], i) ELSE work[w]
     IN  perform_checkpoint(w, h, i, TRUE)
  /\ UNCHANGED <<program, start, latch, iter, main, output, joined, overrun, lost>>

\* worker_finishes, the done flag.
worker_done(w) ==
  /\ ~overrun /\ status[w] = "final"
  /\ status' = [status EXCEPT ![w] = "done"]
  /\ UNCHANGED <<program, start, latch, iter, work, used, main, output, misspec, misspecIter,
                 joined, overrun, lost>>

\* The speculation of an iteration of w fails.
misspec_in_body(w) ==
  /\ Runs(w) /\ iter[w] < NumIters /\ is_on_iter(w, iter[w])
  /\ misspec_at(w, iter[w])
  /\ UNCHANGED <<program, start, latch, iter, work, used, main, output, joined, overrun, lost>>

\* The first two checkpoints, if both are complete.
alpha == Min(DOMAIN used)
beta  == Min(DOMAIN used \ {alpha})
CompletePair ==
  Cardinality(DOMAIN used) > 1 /\ used[alpha].type = "complete" /\ used[beta].type = "complete"

\* combine_shareprivate and combine_killprivate: the newer checkpoint gets the
\* share-private bytes of the older one and keeps its kill-private heap.
combine_shareprivate(older, newer) == [newer EXCEPT !.share = @ \cup older.share]

\* combine_redux.  The newer checkpoint has the current value of a register, so
\* the older one's maximum is set to the identity; sums in memory are added.
combine_redux(older, newer) ==
  distill_redux([older EXCEPT !.best = Identity(@).best], newer)

combine_checkpoints(older, newer) ==
  combine_redux(older, combine_shareprivate(older, newer))

\* The list after the combination.
Combined ==
  [l \in DOMAIN used \ {alpha} |->
     IF l = beta THEN combine_checkpoints(used[alpha], used[beta]) ELSE used[l]]

\* commit_zero_or_more_checkpoints by a worker that has contributed.
commit_checkpoints(w) ==
  /\ Contributed(w) /\ CompletePair
  /\ used' = Combined /\ Issue(used[alpha].io)
  /\ UNCHANGED <<program, start, latch, iter, status, work, main, misspec, misspecIter, joined, lost>>

\* The same, if the private heaps conflict: alpha stays first, as CL_Free.
commit_misspec(w) ==
  /\ Contributed(w) /\ CompletePair
  /\ used' = [used EXCEPT ![alpha].type = "free", ![beta].type = "broken"]
  /\ misspec_at(w, beta) /\ lost' = TRUE
  /\ UNCHANGED <<program, start, latch, iter, work, main, output, joined, overrun>>

-------------------------------------------------------------------------------
(* The main process *)

\* distill_committed_killprivate_into_main and ..._shareprivate_into_main.
adopt_shared(m, c) == [m EXCEPT !.share = @ \cup c.share, !.kill = c.kill]

\* distill_committed_redux_into_main.  What it updates of the iteration of the
\* last update is a local copy.
adopt_redux(m, c) == [distill_redux(c, m) EXCEPT !.best.up = m.best.up]

\* One round of the loop of distill_checkpoints_into_liveout.
Adopt(m, l, c) ==
  [adopt_redux(IF misspec THEN m ELSE adopt_shared(m, c), c) EXCEPT !.iteration = l]

\* join_children, once every worker is done: combine two checkpoints if they are
\* complete, adopt what is complete at the front, squash the rest.
join_children ==
  /\ ~overrun /\ ~joined /\ \A w \in Worker : status[w] = "done"
  /\ misspec \/ (used # <<>> /\ alpha = LAST_ITERATION)
  /\ LET u     == IF CompletePair THEN Combined ELSE used
         front == {l \in DOMAIN u : \A k \in DOMAIN u : k <= l => u[k].type = "complete"}
         order == SetToSortSeq(front, <)
         lists == (IF CompletePair THEN <<used[alpha].io>> ELSE <<>>)
                    \o [k \in DOMAIN order |-> u[order[k]].io]
     IN  /\ main' = FoldLeft(LAMBDA m, l : Adopt(m, l, u[l]), main, order)
         /\ output' = output \o FlattenSeq([k \in DOMAIN lists |-> commit_io(lists[k])])
         /\ overrun' \in {FALSE, \E k \in DOMAIN lists : MayOverrun(lists[k])}
  /\ used' = <<>> /\ joined' = TRUE
  /\ UNCHANGED <<program, start, latch, iter, status, work, misspec, misspecIter, lost>>

-------------------------------------------------------------------------------
\* The region starts.  A worker maps main's reductions copy-on-write, so it
\* starts with the values of main; when it last updated one is left from
\* earlier regions.
Init ==
  /\ program \in Programs /\ latch \in BOOLEAN
  /\ iter = [w \in Worker |-> 0] /\ status = [w \in Worker |-> "run"]
  /\ start \in Vals \cup {Low}
  /\ \E up \in [Worker -> {0, NumIters}] :
       LET best(u) == [max |-> start, arg |-> -1, up |-> u] IN
       /\ work = [w \in Worker |->
            [io |-> <<>>, sum |-> [e \in Elem |-> 0], best |-> best(up[w]),
             share |-> {}, touched |-> {}, kill |-> -1]]
       /\ main = [sum |-> [e \in Elem |-> 0], best |-> best(0), share |-> {}, kill |-> -1,
                  iteration |-> -1]
  /\ used = <<>> /\ output = <<>>
  /\ misspec = FALSE /\ misspecIter = -1 /\ joined = FALSE /\ overrun = FALSE /\ lost = FALSE

Step(w) ==
  \/ end_iter(w) \/ end_iter_leave(w) \/ worker_finishes(w) \/ worker_done(w)
  \/ misspec_in_body(w) \/ commit_checkpoints(w) \/ commit_misspec(w)

Next == join_children \/ \E w \in Worker : Step(w)

Spec == Init /\ [][Next]_vars

-------------------------------------------------------------------------------
(* The sequential loop *)

\* What iterations 0 .. n - 1 do, one after the other, from what main had.
SeqOutput(n) == FlattenSeq([k \in 1..n |-> issue_io(k - 1)])
SeqSum(n)    == [e \in Elem |-> Cardinality({i \in 0..(n - 1) : program[i].elem = e})]
SeqBest(n)   ==
  FoldLeft(LAMBDA b, i : Update(b, i), [max |-> start, arg |-> -1, up |-> 0],
           [k \in 1..n |-> k - 1])

\* How many iterations the main process has committed.
Committed ==
  CASE main.iteration = -1             -> 0
    [] main.iteration = LAST_ITERATION -> NumIters
    [] OTHER                           -> main.iteration

\* The parts of a maximum that the program sees.
MaxArg(b) == <<b.max, b.arg>>
-------------------------------------------------------------------------------
(* Properties *)

\* Deferred output comes out in the order of the sequential loop, without gap or
\* repetition, whichever workers produced it, whichever of them combined the
\* checkpoints, and also if the region misspeculates (io.c, commit_io).
OutputIsPrefix == ~overrun => IsPrefix(output, SeqOutput(NumIters))

\* A region that does not misspeculate leaves main with what the sequential loop
\* leaves: all the output, the maximum and its first position, every
\* share-private byte and, if the loop exits at its latch, the kill-private
\* heap of the last iteration (checkpoint.c, distill_checkpoints_into_liveout).
JoinSequential ==
  joined /\ ~misspec /\ ~overrun =>
    /\ output = SeqOutput(NumIters)
    /\ MaxArg(main.best) = MaxArg(SeqBest(NumIters))
    /\ main.share = Iter
    /\ latch => main.kill = NumIters - 1

\* After a misspeculation main is at an iteration boundary, from which recovery
\* goes on: what was written and the maximum are those of the committed
\* iterations and of no others.  Excluded is a failed combination, whose
\* checkpoint is squashed with output that was already written
\* (checkpoint.c, commit_zero_or_more_checkpoints).
RecoveryPoint ==
  joined /\ misspec /\ ~lost /\ ~overrun =>
    /\ output = SeqOutput(Committed)
    /\ MaxArg(main.best) = MaxArg(SeqBest(Committed))

\* At the join the sum is that of the committed iterations: each contribution
\* was counted once (redux.c, reduce_*_add).
SumSequential == joined /\ ~lost => main.sum = SeqSum(Committed)
===============================================================================
