# A TLA+ development for the CPF runtime

CPF (the Collaborative Parallelization Framework) is a compiler that
parallelizes loops speculatively, and a set of runtimes that execute the
result. This directory specifies the parts of it in which processes or threads
run concurrently: the speculative-privatization executive,
`liberty/support/specpriv-executive`; the executive for pipelined loops with a
try-commit and a commit process, `liberty/support/specpriv-smtx-executive`; and
the thread pool, `liberty/support/tpool`. Their central mechanisms are modelled
in TLA+, model-checked with TLC on small instances, and for the checkpoint
manager, the private heap, the software queue and the thread pool all safety
properties and the refinements are proved with TLAPS for all instances.

Paths below are relative to `src/liberty/support/specpriv-executive/` unless
they start with `lib/`, `smtx-executive/` (short for
`src/liberty/support/specpriv-smtx-executive/`) or `tpool/`.

## 1. The system

### 1.1 How a parallel region runs

The compiler emits, around each parallelized loop, code that begins an
invocation, triggers worker processes through pipes, waits for them, and
either leaves the loop or re-executes some iterations sequentially and starts
the region again (`lib/CodeGen/MTCGInvocation.cpp`, `lib/Speculation/Recovery.cpp`).

* Every worker steps through all iterations and executes those that are its
  own (`i % numWorkers == myWorkerId` in a DOALL loop). Its private, reduction
  and other heaps are copy-on-write mappings of the main process's heaps
  (`fiveheaps.c`, `heap.c`).
* Each access to the private heap updates one byte of shadow metadata per byte
  of data (`private.c`). A detected violation calls `misspec_at`, which
  publishes the iteration in the parallel control block and ends the worker.
* Every `checkpointGranularity` iterations, when the metadata codes run out,
  and at the end of the loop, each worker adds its state to a checkpoint
  object in shared memory (`checkpoint.c`). The last contributor completes it.
* Any worker may combine the two oldest complete checkpoints into the newer
  one; the deferred output of the older one (`io.c`) is then performed.
* The main process waits for the final checkpoint and for the workers'
  done flags, adopts the complete checkpoints and squashes the rest
  (`join_children`, `distill_checkpoints_into_liveout`).
* In a pipeline, stages exchange values through software queues
  (`sw_queue.c`, `specpriv_queue.c`, `strategy.c`).

The build configuration that is modelled is the one of `config.h`:
`JOIN == SPIN`, `WHO_DOES_CHECKPOINTS == SLOWEST_WORKER`,
`SHADOW_MEM == NATIVE`; `runOnEveryIter` is always 1.

The SMTX executive runs a loop as a pipeline of transactions. Each stage has
one or more worker processes, each with its own copy of memory. A worker sends
what an iteration wrote, with shadow metadata, to the workers of later stages
and to the try-commit process, which replays the iterations in order and checks
each read that was followed by a write. Validated iterations go to the main
process, which commits them. Iteration 0 is special: the others wait until it
is committed, because loop invariants are predicted from the values it leaves.
After a misspeculation the main process runs the lost iterations itself and
spawns the pipeline again.

### 1.2 Inventory

| part | state | operations | what is hard | module |
|---|---|---|---|---|
| checkpoint manager | used and free list; per object: type, iteration, number of contributors, lock, heaps | get, alloc, stall, contribute, combine, adopt, squash | unlocked reads, two-lock combination, recycling, memory limit | `Checkpoint`, `RegionCommit` |
| invocation protocol | misspeculation record, done flags, iteration counters | begin, iterate, misspeculate, finish, join, recover | several misspeculations, waiting for processes that left | `Checkpoint` (without pipes and exits) |
| private heap | heap, shadow, touched range, recent live-in reads | read, write, merge, combine, copy out | merge order, code reuse, partial words | `PrivateHeap` |
| software queue | ring of flag/value pairs, head, tail | produce, consume, clear, reset | no lock, value and flag written separately | `SwQueue`, `FifoQueue` |
| pipeline queues, strategy | matrix of queues, stage table | produce/consume, replicated variants, reset, clear | order across queues, end of a stage | planned |
| deferred I/O | event lists per worker and checkpoint | issue, copy, commit | order by iteration, end of a list | `Effects` |
| reductions | redux heap, last update iteration | initialize, merge, dependent min/max | identity, reset and update order | `Effects` (sums, a maximum and its position) |
| share-private, kill-private | heaps, shadow | write, merge, copy out | which writer wins | `Effects` |
| code around a region | low and high iteration | invoke, recover, restart | boundaries of recovery | `SmtxExec` (`recover`), for the other executive planned |
| SMTX executive | queues of packets, memories and shadows, control block, allocation pointers, predictions | begin and end of an iteration, forward, validate, commit, misspeculate, join, recover, restart | order of packets, full queues, flags without locks, the special iteration 0 | `SmtxExec` |
| thread pool | ring of work slots, semaphores, lock, handles | add, run, wait, delete, finish | slots told free out of order, shutdown, interrupted waits | `TPool`, `TaskPool` |
| older SMTX runtime (`smtx`) | versions, commit queues | validate, commit, recover | commit order | planned |
| `txio`, `ppool`, `nq` | queues, time vectors | schedule, commit | order, shutdown | not in the build |
| profilers, LLVM passes, planner | program representations | analyses and rewriting | sequential | not modelled, except graph algorithms (planned) |

`PROJECT.json` lists all parts with their files, and the hazards of the
concurrent ones at the lines where they bite.

## 2. Modules and how they correspond to the code

### 2.1 `Checkpoint` and `RegionCommit`

State: the manager's lists `used` and `free` as sequences of object numbers
(`total` counts allocations), the fields of the objects (`type`, `iteration`,
`num_workers`, `lock`), the misspeculation record (`misspec`, `misspecIter`),
per worker a control point `pc`, `currentIter` and the locals of
`worker_perform_checkpoint` and `commit_zero_or_more_checkpoints`, and the
state of the main process. What the heaps contain is abstracted to the set
`has[c]` of pairs (worker, label): whose state at which checkpoint the object
holds. `adopted` and `output` record what the main heaps hold and which
checkpoints' output was performed.

Atomicity. `commit_zero_or_more_checkpoints` reads the front of the list, its
type, its successor and the successor's type without a lock; each is a step.
Each lock acquisition is a step, and so is the part up to the next access to
unprotected shared state. A critical section of the manager's lock changes the
list once and never waits, so it is a single step. In `commit_misspec` releasing
the two locks and publishing the misspeculation are one step: by then `alpha` is
Free and `beta` Broken, and nobody who gets their locks does anything with them.

Actions follow the functions: `end_iter`, `end_iter_leave`, `worker_finishes`,
`misspec_in_body`; `perform_checkpoint`, `get_checkpoint_for_iter`,
`alloc_stall`, `alloc_retry`, `lock_checkpoint`, `perform_checkpoint_locked`;
`commit_first`, `commit_alpha_type`, `commit_next`, `commit_beta_type`,
`commit_lock_alpha`, `commit_lock_beta`, `commit_combine`, `commit_misspec`,
`commit_pop`, `commit_unlock`; for main `distill_commit`, `distill_misspec`,
`distill_adopt`, `distill_squash`, `distill_end`, `begin_invocation`,
`recovery_finished`.

The loop is abstract: the iteration at which it ends is chosen when a region
starts; any iteration and any combination may misspeculate.

`RegionCommit` is the manager as the main process sees it, without lists, locks
or objects: workers add their state to one checkpoint after the other; a
checkpoint to which all have added is released, that is, its output is
performed, in order; when no worker is active, the next checkpoints and all
before them reach the main heaps; a region ends committed as a whole unless
speculation failed. `Checkpoint` implements it under the mapping `Promise`
(`output` are the released checkpoints, `adopted` is what is committed), in
which most of the manager's steps are stuttering steps.

### 2.2 `PrivateHeap`

State: per worker its private bytes, their metadata, the touched range
`lo`..`hi`, the stretch `recent` of live-in reads of this iteration, and the
iteration; one checkpoint object per group of iterations; the main heap.
The value an iteration writes is its number, so that "the value of a
sequential execution" can be stated (`Sequential`). The read and write
functions of `private.c` are the actions of the loop body, with the word
structure of the code: `read_range` goes byte by byte to the first word
boundary, by words, and byte by byte from the last boundary; merging works on
whole words of which one byte is marked. The accesses of 1, 2, 4 and 8 bytes
and the strided ones are separate functions in the code, with differences that
matter (who remembers a stretch of live-in reads, who compares whole words,
what is marked), and so they are here. What a loop accesses, how long it is and
how often it is checkpointed is a record `loop`, chosen from the constant
`Loops` at the start. A worker steps through all iterations and executes its
own; the other mode of `advance_iter` is never selected (`runOnEveryIter` is
only ever set to 1, `api.c:137`, `642` and `702`). Lists, locks and recycling are left
to `Checkpoint`: here the objects are numbered and combined in order, and a
misspeculation ends the behaviour.

### 2.3 `SwQueue` and `FifoQueue`

`SwQueue` has one step per access to the ring: the producer tests a flag,
writes the value, sets the flag; the consumer tests the flag, reads the
value, clears the value, and copies the cleared word into the flag. `clear`
drops what is in the queue while the producer may still be running; `reset`
is done by the main process while nobody else runs. `FifoQueue` is the
abstract queue of values. `SwQueue` implements it under the mapping
`Contents`: the values from the tail on, without the one the consumer has
already taken.

### 2.4 `Effects`

What a checkpoint carries besides the private heap, through one region: the
output lists of `io.c`, the reductions of `redux.c`, and the share-private and
kill-private heaps of `private.c`. An iteration issues some events of output,
adds one to an element of a sum in memory, offers a value to a maximum in a
register together with its own number (the position of the maximum), writes one
share-private byte and overwrites the kill-private heap; `program` says with
which numbers. `work`, `used` and `main` are the heaps of the workers, of the
checkpoints by label, and of the main process. Contributing, combining and
adopting are single steps (`Checkpoint` has the locks and lists that make them
so), and so is a worker's iteration, which touches only its own heaps.

What the code leaves undefined is a choice: the dependent value and the last
update of a new checkpoint object, a worker's last update before the region,
and whether `commit_io`, whose inner loop is not bounded by the length of the
list, reads past its end (`overrun`, after which nothing is modelled).
`lost` records a failed combination.

### 2.5 `SmtxExec`

One invocation after another of a pipelined loop: the workers, the try-commit
process `TC` and the commit process `Main`. `Rep` gives the number of workers of
each stage, `Programs` the loops: what each stage of each iteration reads,
writes and allocates. The value of a location is the number of the write that
stored it, so that `SeqVer` and `SeqMem` say what the sequential loop would
read and leave behind. A location stands for a page with one word in use; its
shadow is a subset of {R, W, B} (read, written, read before written), the three
bits of `smtx/memops.cpp`.

State and code: `q` are the queues of `smtx/communicate.cpp` as sequences of
packets with at most `QCap` entries; `out[p]` the packets that process `p` still
has to produce within the function it is in, one `produce` each; `pcb` the
shared control block; `next[p][w]` process `p`'s copy of worker `w`'s allocation
pointer (`smtx/malloc.cpp`); `pred` the loop-invariant buffer; `last` the
try-commit process's shadow (the stage that wrote a location last).

Actions: `begin_iter`, `process_reverse_commit_queue`,
`process_incoming_packets`, `begin_iter_rest` (with `check_misspec`), `body`,
`skip_body`, `body_fails`, `end_iter`; `misspec`, `misspec_test`, `misspec_set`,
`misspec_clear`, `worker_finishes`, `finish_set`, `finish_clear`, in which each
unlocked access to the control block is a step; one action per type of packet in
`try_commit` and in `commit`; `forward_values_to_commit`, `forwarded`,
`commit_poll`, `commit_waitpid`, `join_children`, `recover`,
`spawn_workers_callback`.

Waiting is a guard: a process that polls a flag or a queue has no step until
the answer can change what it does next. What one process does between two
accesses to shared state is one step. `check_ro_page`, a function without a
`return` whose result is not used, either does nothing or never comes back
(`stuck`). A worker whose assertion fails is `aborted`, and `mismatch` is the
failed assertion on an allocation pointer.

### 2.6 `TPool` and `TaskPool`

`TPool` has one step per access to a semaphore, to the lock, to a slot or to an
index. Callers add their items, wait on the handles and delete them, and at the
end `Fin` calls `tpool_finish`, which adds one `pthread_exit` per thread. A signal
may interrupt `sem_wait` in `tpool_wait`, which then returns early; the other
waits are repeated. `TaskPool` is the promise: work is started in the order in
which it was submitted, by one thread, and carried out once. `TPool` implements
it under a mapping that takes as the queue the slots from `workPull` on: those
counted by the semaphore, those that a thread was admitted to but has not
passed, and those a caller has filled but not announced.

### 2.7 Proof modules

Each extends the one before it in its row.

| modules | content |
|---|---|
| `CheckpointInv` | the inductive invariant `IInv` of the lists, locks and contributions, and the workers' steps; the invariant `RInv` of a region (order, contents of the heaps, failures), and the workers' steps up to a contribution |
| `CheckpointJoin` | `RInv` for combining, popping and the main process's steps |
| `CheckpointProofs` | `IInv` for the main process's steps, the refinement to `RegionCommit`, and the theorems |
| `TPoolInv` | the inductive invariant of the pool; the ring, the lock and the places of callers and threads |
| `TPoolProofs` | where each item is and that exits come last, the refinement to `TaskPool`, and the theorems |
| `SwQueueProofs` | the ring of the software queue, its refinement, and the theorems |
| `PrivateHeapInv` | the inductive invariant of the private heap, and what the accesses of an iteration do to it |
| `PrivateHeapProofs` | merges, combinations and adoption, and the theorems |

### 2.8 Faulty variants

A definition such as `Recycle_leak` or `Older_wins`, placed before the one
whose name it extends, is that definition with a plausible mistake. No action
uses it. `PROJECT.json` pairs each checked property with a variant that breaks
it, which shows that the property depends on the code it is about.

## 3. What is checked

| run | instance | properties | result |
|---|---|---|---|
| `checkpoint_regions` | 2 workers, iterations 0..2, 4 objects, any number of regions and recoveries; 2.3 million states | `TypeOK`, `UsedOrdered`, `ListsPartition`, `AdoptedPrefix`, `RegionComplete`, `OutputInOrder`, `RecoveryAfterCommit`, `NothingDropped`, `ImplementsRegion` | hold |
| `checkpoint_workers` | 3 workers, first region, iterations 0..3, memory for two checkpoints; 0.6 million states | `CommitFront`, `HeapsExclusive`, `JoinFindsOne`, `RegionComplete` | hold |
| `checkpoint_live` | 2 workers, iterations 0..3, memory for two checkpoints, one invocation with its recoveries, weak fairness; 88 thousand states | `CheckpointReturns` | holds |
| `sw_queue` | 3 slots, 2 values (one of them is NULL) | `TypeOK`, `FlagsContiguous`, `ImplementsFifo`, `ProduceReturns` | hold |
| `private_heap` | 2 workers, 2 words of 2 bytes, 8 loops: ranges, small accesses inside large ones, strided ones; two groups of two iterations and an empty final one, or only a final one of three | `TypeOK`, `LiveOutUnlessExcused`, `PrivatizableNeverFails` | hold |
| `effects` | 2 workers, 8 iterations, a checkpoint every 4; 1 million states | `TypeOK`, `OutputIsPrefix`, `JoinSequential`, `RecoveryPoint`, `SumSequential` | hold |
| `smtx` | 2 stages, the second with 2 replicas; 6 loops of 2 or 3 iterations over 2 locations, queues of 2 entries, at most one failing check; 0.9 million states | `TypeOK`, `JoinSequential`, `RmwCurrent`, `AllocInSync`, `ReverseComplete`, `EndAfterLast`, `PredictionsHold`, `NoWedge` | hold |
| `tpool` | 2 threads, 4 slots, 2 callers with 3 and 2 items, one interrupted wait, weak fairness; 0.35 million states | `TypeOK`, `FinishComplete`, `WaitMeansRan`, `HandleAlive`, `ImplementsPool`, `FinishReturns` | hold |
| `checkpoint_hang` | 2 workers, iterations 0..2 | `FinalAtFront` | violated |
| `checkpoint_left` | the same, weak fairness | `JoinAfterMisspec` | violated |
| `private_ignored` | 1 byte, two iterations or more | `LiveOutSequential` | violated |
| `effects_sum` | a sum over two elements, one vector | `SumSequential` | violated |

### 3.1 The runs in which a property is violated

Each of these states what a comment of the code says; `findings` in
`PROJECT.json` quotes it.

* `checkpoint_hang`: the loop of `commit_zero_or_more_checkpoints` is
  commented out, so each contribution combines at most one pair. One worker has
  contributed to the final checkpoint and is in the commit after it; the other
  one completes 2. The first then combines (1, 2), which leaves the front of the
  list `CL_Free`. The other's commit after 2, and the one after it completes the
  final checkpoint, both find that front and return (`checkpoint.c:489`). The
  pair (2, final) remains and nobody combines it.
  `join_children` waits for the final one to come to the front.
* `checkpoint_left`: `end_iter` leaves the region when an earlier iteration
  misspeculated, but without setting the done flag that `join_children`
  waits for.
* `private_ignored`: the result of `distill_worker_private_into_partial` is
  not used by its caller.
* `effects_sum`: after a contribution a sum over an array is cleared only up to
  the first element of its last non-zero vector. What remains is contributed
  again at the next checkpoint. (A sum of one element is cleared, except an
  `i32`, for which the pointer is set to 0 and not the value: `redux.c:26`.)

More disagreements are in the models without a run of their own:

* At the memory limit, `alloc_checkpoint` releases the manager's lock and waits
  for an object; a checkpoint for the same iteration that was created in the
  meantime lacks its contribution, and the list is not searched again, so that
  `CheckpointReturns` fails for the fair specification with `Fit = 1` (two
  iterations suffice) and with `Fit = 2` and four iterations. With three
  workers two of them may stall and then allocate for the same iteration:
  `UsedOrdered` fails in the instance of `checkpoint_workers` (`Fit = 2`), where
  its other properties hold. Two workers do not suffice.
* `write_4b` replaces the live-in mark of a read in the same iteration, so that
  an update `x = x + 1` in two iterations of different workers leaves no trace
  of the read. So does `write_8b`.
* A strided read of 16-byte elements compares the second word of an element
  with `LIVE_IN` and marks the third (`private.c:940`). What it read in the
  second leaves no trace, and a later write to it in another iteration is not
  caught; the third may be marked although nobody read it.
* A worker's metadata survives a checkpoint, so that a code in a word that is
  touched again may belong to an earlier group (`constants.h:87` says that a
  code of 3 or more means "defined in an iteration later than the last
  checkpoint"): with writes only, in groups of two iterations, the older of two
  writes can win.
* In the SMTX executive `join_children` may never return after a
  misspeculation. A worker that leaves through `check_misspec` announces
  nothing to those that wait for its packets; `good_to_go` is set only when
  iteration 0 commits, which never happens if iteration 0 fails or the pipeline
  was restarted at a later one; and a worker killed by the assertion on
  `exit_taken` is never counted as terminated.
* With more packets in an iteration than `PACKET_POOL_SIZE`, `buffer_packet`
  sends the first ones to the commit process before the iteration is
  validated. `JoinSequential` fails for `TCBuf = 1`.
* Values that are only read are not validated (`clear_read` masks the shadow
  with itself), and a replica does not receive what an earlier stage wrote in
  the iterations of another replica. `RmwCurrent` claims neither.
* `tpool_wait` returns when a signal interrupts it; its caller may then delete
  a handle that a thread signals later. `WaitMeansRan` and `HandleAlive` except
  these items (`early`).

`PrivateHeap` records in `excused` when a dropped verdict, a replaced mark, a
missing mark or an old code matters.
`LiveOutUnlessExcused` is the guarantee that remains without them.

### 3.2 Bounds

`MaxIter` bounds the iterations of a loop and `MaxChk` the objects allocated.
With `Granularity = 1` every iteration is checkpointed, which is the worst
case for the manager: three iterations give up to three checkpoints in use,
one more than a combination needs, so that a worker can be delayed while its
two objects are combined, recycled and reused. Regions follow each other
without bound in `checkpoint_regions`, because the state is finite;
`checkpoint_workers` stops at the first region (`FirstRegion`) in exchange for
a third worker, and `checkpoint_live` at the end of the first invocation, after
any recoveries (`OneInvocation`), in exchange for a fourth checkpoint.
`Fit` decides when memory is exhausted: it is `MaxChk` in `checkpoint_regions`,
where the limit must not matter (`UsedOrdered`), and 2 in `checkpoint_workers`
and `checkpoint_live`, so that a worker that needs a fourth checkpoint stalls and
commits.

The case that `checkpoint_live` is about needs three checkpoints. One worker has
chosen (1, 2) and holds 1; another one has combined them and holds 2 as the
older one of its next pair. Had 1 been recycled and completed as the newer one
of that pair, each would wait for the other. It is not, because only the first
worker's contribution would complete it. In the mutant for `CheckpointReturns`
a checkpoint is complete one contribution early, and TLC ends in that crosswise
wait. Workers are symmetric in the runs without fairness.

In `PrivateHeap` two workers with two iterations in each of two groups suffice
for a write, a read and a second write to fall to one worker or to both, into
the same group or into two, and for a code to be reused. One group of three
iterations lets a worker meet its own earlier write before a checkpoint, which
is when an access misspeculates rather than a merge. Each loop has the accesses
whose marks can disagree: of different sizes, overlapping, or strided over what
the others touch. A word of two bytes
has the partial, whole and mixed words of the code's eight, but not a range
inside a word that touches neither boundary (see section 5). The exploration
stops at the first excuse (`NotExcused`).

In `Effects` a checkpoint covers four iterations, so that the list of each
worker holds two and merging by iteration differs from appending; eight
iterations give two checkpoints and the final one. At most three iterations
have output and a large value (`MCPrograms`): a merge and a tie need two.

In `SmtxExec` the first stage has one worker and the second two, the smallest
pipeline with a sequential and a parallel stage; two iterations fall to
different replicas. The loops (`MCPrograms`) are chosen for the cases of the
checks: a value passed within and between stages and between replicas,
allocations in iteration 0 and later, a page that is only read, and a loop
invariant that changes in or after iteration 0 (this one has three iterations,
because predictions are wrong from iteration 2 on at the earliest). Queues of
two entries fill in every loop. `TCBuf` is larger than an iteration, as
`PACKET_POOL_SIZE` is meant to be. `MaxFail` bounds the failing checks of
workers; those of the try-commit process come on top.

In `TPool` five items and two exits go through four slots, so that the ring
wraps, fills and drains while both callers and both threads are active.

`CHECK_DEADLOCK FALSE` is set for `Checkpoint`, `PrivateHeap`, `Effects`,
`SmtxExec` and `TPool`: a region that has ended or is abandoned, and a pool that
is finished, has no further step. The two hangs above are stated as properties;
`NoWedge` and `FinishReturns` exclude others. `SwQueue` is checked for deadlock.

### 3.3 Fairness

`Checkpoint!Fairness` is weak fairness of each worker's progress and of main's:
processes are scheduled by the operating system and their waits are spinning
or sleeping loops, so an enabled step is eventually taken. Locks are
compare-and-swap spin locks without a queue; `checkpoint_live` needs only weak
fairness because each worker takes finitely many locks in the bounded loop.
No fairness is assumed of a misspeculation in the loop body.
`SwQueue!Fairness` also assumes that the consumer calls `consume` again, as the
emitted stage does in every iteration.
`TPool!Fairness` is weak fairness of each caller and each thread. The lock and
the semaphores are not assumed to be fair: in a bounded number of items nobody
can be overtaken forever. Nothing is assumed about signals.
`SmtxExec` has no fairness: `NoWedge` says that an undisturbed pipeline always
has a step left, and since each process only goes forward through the bounded
loop, that is enough for it to end.

## 4. What is proved

All theorems hold for every finite set of workers, threads and callers, every
bound, every capacity and every granularity (the assumptions are the `ASSUME`s
of the modules, which TLC evaluates for the instances of the runs).

### 4.1 The checkpoint manager, at every moment

* `TypeCorrect`: `Spec => []TypeOK`.
* `Partition`: `Spec => []ListsPartition`. No object is lost or listed twice.
* `FrontStaysFront`: `Spec => []CommitFront`. The assertion
  `alpha == mgr->used.first` (`checkpoint.c:545`) cannot fail, though `alpha`
  was read without a lock.
* `Exclusion`: `Spec => []HeapsExclusive`.

None of the last three is inductive. The
danger is a worker that read `alpha` when it was the front, was delayed, and
now finds an object of the same number that was combined, recycled, pushed
again and completed for a later iteration. The invariant `IInv` excludes it
through the contributions: a recycled object cannot become complete without a
contribution of every worker, hence of the delayed one, who is not
contributing while it reads. So `AlphaOK` says that `alpha` is the front, or
free, or partial *without the reader's contribution*. For this the invariant
relates `num_workers` to the set of contributors (`CountInv`), the
contributors to the history variable `given` (`GivenInv`), and shows that a
worker contributes at most once to each label (`GivenOK`). `CommitOK` and
`LockOK` then tie the holder of both locks to the first two objects.

### 4.2 The checkpoint manager, what leaves a region

With `SearchedAgain == \A w \in Worker : alloc_retry(w) => Match(w) = {}`, the
following are proved in the form `Spec /\ [][SearchedAgain]_vars => ...`:

* `Ordered` (`UsedOrdered`), `OutputOrdered` (`OutputInOrder`),
  `PrefixAdopted` (`AdoptedPrefix`), `RegionCommitted` (`RegionComplete`),
  `RecoveryIsSound` (`RecoveryAfterCommit`), `OneAtJoin` (`JoinFindsOne`);
* `NoneDropped` (`NothingDropped`), an action property;
* `Refinement`: `ImplementsRegion`.

The hypothesis is needed. Without it `UsedOrdered` is false (section 3.1): after
a stall `alloc_checkpoint` does not search the list again and may give one
iteration a second object. `SearchedAgain` excludes exactly that step, and
stalls, retries and the reuse of objects remain. `EnoughMemory` shows that the
hypothesis holds when all objects fit in memory (`MaxChk <= Fit`: then no
worker stalls), and `RegionWithMemory` states all of the above for this case
without it.

The invariant `RInv` has, on top of `IInv`:

* `TurnOK`: a worker contributes to the labels of the region one by one, so
  that at every place of its code `given[w]` is the set of labels up to, or
  before, the one it is at;
* `OrderInv`: the labels in use are consecutive and follow those of the output.
  The exception is the moment between a combination and the removal of its
  older object (`Popping`), in which the front is already in the output;
* `FilledInv` and `HeapInv`: an object in use holds the contributions to its
  own label, and the front also everything before it that main has not
  adopted. This is what a combination moves one place further, and what
  adopting relies on;
* `FailInv`: after a misspeculation either the front is unusable because a
  combination failed, or a worker died that contributed to nothing later than
  the misspeculated iteration. No later label can then become complete, so
  main adopts nothing beyond it, also if misspeculations were published in
  another order than that of their iterations;
* `JoinInv`: what main has adopted is a prefix, and in a region without failure
  main finds the final checkpoint alone, or nothing because it has adopted it.

In the refinement, a contribution maps to a step of `RegionCommit` (`FillPromise`),
the combination to the release of a checkpoint (`CombinePromise`), main's
commits to the release of the last ones and to their adoption (`CommitPromise`), and all
other steps stutter.

### 4.3 The software queue

* `TypeCorrect`: `Spec => []TypeOK`.
* `RingInvariant`: `Spec => [](TypeOK /\ FlagsContiguous)`.
* `Refinement`: `Spec => ImplementsFifo`.

The flags are contiguous from the tail; a process
past its test owns its slot (`Owned`). Each step is then a FIFO operation
(`produce_flag` appends, `consume_read` and `clear_one` remove, `reset`
empties) or leaves `Contents` alone.

### 4.4 The thread pool

* `TypeCorrect`: `Spec => []TypeOK`, in particular neither semaphore exceeds
  the number of slots.
* `Exclusion`: at most one process is in the section that `tpool_lock` protects.
* `FinishIsComplete`: `Spec => []FinishComplete`.
* `WaitIsSound`: `Spec => []WaitMeansRan`.
* `SignalsAreAlive`: `Spec => []HandleAlive`.
* `Refinement`: `Spec => ImplementsPool`.

The invariant `IInv` counts the slots (`RingInv`): each is free, claimed by a
caller that passed `tpool_freeSlots`, held between the two indices, or emptied
by a thread that has not told so yet. So the two indices never meet in the
wrong way, although slots are told free in another order than they are
emptied. `ItemOK` says where an item is: in one place of the queue, in the hands
of one thread, or carried out, and ties this to its handle and its caller's
progress. `ExitInv` says that `pthread_exit` entries are behind all items, which
needs the callers to have left before `Fin` starts (`FinInv`).

### 4.5 The private heap

For every number of workers, size of the heap, of words and of small accesses,
and every set of loops that `LoopsAssumption` admits:

* `TypeCorrect`: `Spec => []TypeOK`. The code of an iteration fits the range
  of the metadata and no checkpoint counts more workers than there are.
* `LiveOutSound`: `Spec => []LiveOutUnlessExcused`. What the main process
  takes over, and what every read returned, is what the sequential loop does,
  unless the region misspeculated or is excused.
* `Privatizable`: `Spec => []PrivatizableNeverFails`.

The first step is to see what the twelve accesses have in common (`BodyIs`):
each misspeculates, or stores the code and the value in some bytes, or marks
the live-in bytes among those it reads. For the strided read this needs a
statement about its recursively defined metadata (`StrideMarks`): as long as
no byte of an element stays unmarked, an element changes nothing that an
earlier one has read. It is proved with the least counterexample (`NatMin`,
`UpTo`).

The invariant `IInv` has three parts.

* `BasicInv` counts: a worker that has passed `Given(w)` checkpoints is one of
  the contributors of each of them (`CountInv`), so that a complete checkpoint
  has the state of all workers, and only complete ones were combined
  (`MergedInv`).
* `UnreadInv` says that nothing is marked as read before the first read, in no
  heap; it gives `Privatizable`.
* `SoundInv` holds as long as the region neither misspeculated nor is excused.
  A worker's mark tells which of its own iterations wrote a byte last
  (`WorkerInv`). What an iteration did is either pending, and then in the
  range that its worker will merge (`Noted`), or in the checkpoint of its
  group, or in the oldest one by combination (`In`). A checkpoint holds the
  last of the writes that are in it, with its code if the group is its own and
  `OLD_ITERATION` otherwise, and the mark of every live-in read of its group
  (`ChkInv`). No read of a combined group has an earlier write (`ReadInv`).

A byte cannot carry the mark of a read and of a write, so a read and an earlier
write of another iteration that meet in one checkpoint have made a merge
refuse, and those that meet by combination have made it fail
(`ReadsNothing`, `CombineChk`). That the later write wins a merge is the order
of the codes within a group (`CodeOrder`), which is why a stale code must be
excused.

### 4.6 Only model-checked

* Liveness (`CheckpointReturns`, `ProduceReturns`, `FinishReturns`): this
  prover does not handle fairness.
* `Effects`: its merges of output lists and sums are recursive operators over
  sequences, which are out of the provers' reach.
* `SmtxExec`: its invariants relate the contents of all queues to the progress
  of every process; they are stated for small pipelines only.

## 5. What is not modelled

* Process creation, pipes, signals and `mmap`: operating-system behaviour.
* Torn reads in `is_saturated` while stalled; it is one step.
* Memory orders weaker than sequential consistency. The code relies on
  x86 and on `volatile`; the model takes accesses in program order.
* In `PrivateHeap`: a `read_range` of a few bytes inside one word, for which
  the two bytewise loops of the code overlap and mark the whole word (the
  definition has it, words of two bytes cannot show it); a third word behind a
  strided element of two (the heap of the run ends there); the mode in which a
  worker skips the iterations of others, which nothing selects; recovery after
  a misspeculation (see `Checkpoint`).
* In `Effects`: sums that are not zero before the loop (workers start from main's
  value, `fiveheaps.c:284`, and it is counted again for each of them), rounding,
  arrays of maxima, share-private bytes with several writers, the formatting of
  output, and what happens after a read past the end of a list.
* In `SmtxExec`: linear prediction, `free`, the separation heaps, byte masks and
  access sizes, page protection, the pools from which packets are taken
  (`smtx-executive/smtx/packet.cpp`), and pages of globals and of the stack,
  whose "touched" bit is set by accesses to ranges but not by those to single
  words (the lines are commented out in `smtx-executive/smtx/memops.cpp`).
* In `TPool`: affinity, and callers that use a handle for several items.
* `smtx`, `txio`, `ppool`, `nq`: runtimes and queues of the same kinds that the
  build does not include.
* The compiler passes, profilers and vendored libraries (jemalloc, JSON). They
  are most of the repository's lines. The passes are sequential rewritings of
  LLVM programs, the profilers sequential counters behind instrumentation, the
  libraries are not CPF's own; none has concurrency, and their inputs are whole
  programs. A model of them would restate the code without a property to check.

## 6. Plan

In this order; each item is a module with its runs, then its theorems.

1. `Pipeline`: `specpriv_queue.c` and `strategy.c` over several FIFO queues,
   with replicated stages, misspeculation of a stage, and clearing.
2. `Invocation`: the emitted loop of `MTCGInvocation.cpp` composed with
   `RegionCommit`, which `Checkpoint` implements. Property: every
   iteration takes effect exactly once.
3. `MaxFlow`: `EdmondsKarp.cpp` against minimum cuts of small graphs.

Proof planned: the order of packets in `SmtxExec`.
