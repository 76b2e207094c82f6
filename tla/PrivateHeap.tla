----------------------------- MODULE PrivateHeap -----------------------------
(***************************************************************************)
(* The private heap and its shadow (specpriv-executive/private.c).         *)
(*                                                                         *)
(* Every worker has its own copy of the private heap and one byte of       *)
(* metadata for each of its bytes.  A DOALL loop runs iteration i on       *)
(* worker i % NumWorkers.  At a checkpoint the workers merge their copies, *)
(* the later write winning by its code; consecutive checkpoints are        *)
(* combined; the main process takes over the last one.  Reads that would   *)
(* have needed a value of another iteration must be caught on the way.     *)
(*                                                                         *)
(* Data: the value that iteration i writes is i, and -1 is what was there  *)
(* before the loop.  Words have WordBytes bytes (8 in the code), the       *)
(* accesses of 2 and 4 bytes have Two and Four.  Checkpoint objects are    *)
(* numbered by the group of iterations they belong to; their lists, locks  *)
(* and recycling are the subject of module Checkpoint.                     *)
(*                                                                         *)
(* Definitions with a suffix that the source does not have are faulty      *)
(* variants of the ones they precede, for mutation tests.                  *)
(***************************************************************************)
EXTENDS Integers, FiniteSets, FiniteSetsExt

CONSTANTS
  NumWorkers,
  NumBytes,      \* size of the private heap
  Two, Four,     \* sizeof(uint16_t), sizeof(uint32_t)
  WordBytes,     \* sizeof(uint64_t)
  Loops          \* the loops: [body, granularity, end]

ASSUME SizeAssumption ==
  /\ NumWorkers \in Nat \ {0} /\ NumBytes \in Nat \ {0}
  /\ WordBytes \in Nat \ {0} /\ NumBytes % WordBytes = 0
  /\ Two \in 1..Four /\ Four \in 1..WordBytes
\* An access: n elements of len bytes, width bytes apart, the first one at a
\* certain byte.  The size of all but ranges and strided accesses is in op.
SizeOf(a) ==
  CASE a.op \in {"write_1b", "read_1b"} -> 1
    [] a.op \in {"write_2b", "read_2b"} -> Two
    [] a.op \in {"write_4b", "read_4b"} -> Four
    [] a.op \in {"write_8b", "read_8b"} -> WordBytes
    [] a.op \in {"write_range", "read_range", "write_stride", "read_stride"} -> a.len

\* A loop runs iterations 0 .. end - 1 with a checkpoint after every
\* granularity of them (checkpointGranularity).  Its accesses lie in the heap,
\* and the compiler emits a strided one only if its elements do not touch.
ASSUME LoopsAssumption ==
  \A p \in Loops :
    /\ p.end \in Nat /\ p.granularity \in Nat \ {0} /\ p.granularity % NumWorkers = 0
    /\ \A a \in p.body :
         /\ a.at \in Nat /\ a.n \in Nat \ {0} /\ a.len \in Nat \ {0} /\ a.width \in Nat
         /\ a.op \notin {"write_stride", "read_stride"} => a.n = 1
         /\ a.n > 1 => a.width > a.len
         /\ a.at + (a.n - 1) * a.width + SizeOf(a) <= NumBytes

VARIABLES
  loop,          \* the loop that is executed
  \* a worker
  mem, shadow,   \* its private heap and shadow heap
  lo, hi,        \* the range of bytes touched since its last checkpoint
  recent,        \* last_read_live_in_ptr_start and _end
  iter,          \* currentIter; End + 1 after worker_finishes
  \* shared
  chk,           \* the checkpoint objects
  oldest,        \* the oldest one in use
  misspec,       \* misspeculation_happened: the region is abandoned
  main,          \* the private heap of the main process
  \* history
  written,       \* <<b, i>>: iteration i wrote byte b
  seen,          \* <<b, i, v>>: iteration i read v from byte b
  excused        \* why what was committed may not be what was computed

worker == <<mem, shadow, lo, hi, recent, iter>>
history == <<written, seen, excused>>
vars == <<loop, worker, chk, oldest, misspec, main, history>>

Granularity == loop.granularity
End         == loop.end

Worker == 0..(NumWorkers - 1)
Byte   == 0..(NumBytes - 1)
Iter   == 0..(End - 1)
Value  == {-1} \cup Iter
Group  == 0..(End \div Granularity)
Final  == End \div Granularity

LIVE_IN       == 0
READ_LIVE_IN  == 1
OLD_ITERATION == 2
NUM_RESERVED  == 3
WAS_WRITTEN_EVER(s) == s >= OLD_ITERATION

Shadow == 0..(Granularity + NUM_RESERVED - 1)

TypeOK ==
  /\ loop \in Loops
  /\ mem \in [Worker -> [Byte -> Value]] /\ shadow \in [Worker -> [Byte -> Shadow]]
  /\ lo \in [Worker -> 0..NumBytes] /\ hi \in [Worker -> 0..NumBytes]
  /\ recent \in [Worker -> [start : -1..NumBytes, end : -1..NumBytes]]
  /\ iter \in [Worker -> 0..(End + 1)]
  /\ chk \in [Group -> [priv : [Byte -> Value], shadow : [Byte -> Shadow],
                        lo : 0..NumBytes, hi : 0..NumBytes, num_workers : 0..NumWorkers]]
  /\ oldest \in 0..(Final + 1) /\ misspec \in BOOLEAN /\ main \in [Byte -> Value]
  /\ written \subseteq Byte \X Iter /\ seen \subseteq Byte \X Iter \X Value
  /\ excused \subseteq {"refused", "elided", "stale", "unmarked"}

Span(l, h)   == {b \in Byte : l <= b /\ b < h}
RoundDown(n) == n - (n % WordBytes)
RoundUp(n)   == RoundDown(n + WordBytes - 1)
Word(b)      == Span(RoundDown(b), RoundDown(b) + WordBytes)

\* History: note the reason if the condition holds.
Excuse(reason, cond) == excused' = excused \cup {x \in {reason} : cond}

\* set_iter: the metadata of a byte that iteration i writes.
code8_wide(i) == (i % (Granularity + 1)) + NUM_RESERVED
code8(i) == (i % Granularity) + NUM_RESERVED

-------------------------------------------------------------------------------
(* Accesses of the loop body *)

\* Worker w executes an iteration that is its own.
OnIter(w) == ~misspec /\ iter[w] < End /\ iter[w] % NumWorkers = w

\* A misspeculation ends the region here; what the main process then adopts
\* and recovers from is in module Checkpoint.
Misspec == misspec' = TRUE /\ UNCHANGED <<loop, worker, chk, oldest, main, written, excused>>

update_shadow_range(w, l, h) ==
  /\ lo' = [lo EXCEPT ![w] = Min({@, l})]
  /\ hi' = [hi EXCEPT ![w] = Max({@, h})]

\* The bytes of S, all of them between l and h, carry this iteration's code,
\* and then its value.
Store(w, S, l, h) ==
  LET put(f, x) == [f EXCEPT ![w] = [b \in Byte |-> IF b \in S THEN x ELSE @[b]]]
  IN  /\ shadow' = put(shadow, code8(iter[w]))
      /\ mem' = put(mem, iter[w])
      /\ update_shadow_range(w, l, h)
      /\ written' = written \cup (S \X {iter[w]})
      /\ UNCHANGED <<loop, recent, iter, chk, oldest, misspec, main, seen>>

\* A byte that was read as live-in is overwritten.
Conflict(w, S) == \E b \in S : shadow[w][b] = READ_LIVE_IN

Write(w, S, l, h) ==
  /\ OnIter(w)
  /\ IF Conflict(w, S) THEN Misspec /\ UNCHANGED seen ELSE Store(w, S, l, h) /\ UNCHANGED excused

private_write_range(w, l, h) == Write(w, Span(l, h), l, h)
private_write_1b(w, b) == Write(w, {b}, b, b + 1)
private_write_2b(w, b) == Write(w, Span(b, b + Two), b, b + Two)

\* The n elements of len bytes that begin width bytes apart, from b.
Element(b, i, width, len) == Span(b + i * width, b + i * width + len)
Elements(b, n, width, len) == UNION {Element(b, i, width, len) : i \in 0..(n - 1)}

private_write_range_stride(w, b, n, width, len) ==
  Write(w, Elements(b, n, width, len), b, b + (n - 1) * width + len)

\* write_4b and write_8b: not a conflict if this iteration read all of it as
\* live-in.
WriteUnlessRead(w, b, n) ==
  /\ OnIter(w)
  /\ IF /\ recent[w].start > b \/ recent[w].end < b + n
        /\ Conflict(w, Span(b, b + n))
     THEN Misspec /\ UNCHANGED seen
     ELSE Store(w, Span(b, b + n), b, b + n) /\ Excuse("elided", Conflict(w, Span(b, b + n)))

private_write_4b(w, b) == WriteUnlessRead(w, b, Four)
private_write_8b(w, b) == WriteUnlessRead(w, b, WordBytes)

\* In metadata s, bytes S: each not written at all, or written by this
\* iteration; and the same for all of them, compared as one word.
Acceptable(w, s, S) == \A b \in S : s[b] \in {LIVE_IN, READ_LIVE_IN, code8(iter[w])}
Uniform(w, s, S) == Acceptable(w, s, S) /\ \A b, c \in S : s[b] = s[c]

\* s, with the live-in bytes among S marked as read.
Mark(s, S) == [b \in Byte |-> IF b \in S /\ s[b] = LIVE_IN THEN READ_LIVE_IN ELSE s[b]]

\* History: iteration iter[w] reads bytes S, or tries to.
See(w, S) == seen' = seen \cup {<<b, iter[w], mem[w][b]>> : b \in S}

\* Read the bytes S, between l and h; s is the metadata afterwards.
Load(w, S, l, h, s) ==
  /\ shadow' = [shadow EXCEPT ![w] = s]
  /\ update_shadow_range(w, l, h)
  /\ See(w, S)
  /\ excused' = excused
       \cup {x \in {"stale"} : \E b \in S : shadow[w][b] = code8(iter[w]) /\ mem[w][b] # iter[w]}
       \cup {x \in {"unmarked"} : \E b \in S : s[b] = LIVE_IN}
  /\ UNCHANGED <<loop, mem, iter, chk, oldest, misspec, main, written>>

\* read_range_internal goes bytewise up to the first word boundary, then word
\* by word, then bytewise from the last word boundary.  Within one word the
\* two bytewise loops overlap and reach beyond the range.
Bytewise(l, h) == Span(l, RoundUp(l)) \cup Span(RoundDown(h), h)
Wordwise(l, h) == Span(RoundUp(l), RoundDown(h))
RangeOK(w, s, l, h) ==
  /\ Acceptable(w, s, Bytewise(l, h))
  /\ \A b \in Wordwise(l, h) : Uniform(w, s, Word(b))
RangeMarked(s, l, h) == Mark(s, Bytewise(l, h) \cup Wordwise(l, h))

ReadRange(w, l, h) ==
  /\ OnIter(w)
  /\ IF RangeOK(w, shadow[w], l, h)
     THEN Load(w, Span(l, h), l, h, RangeMarked(shadow[w], l, h)) /\ UNCHANGED recent
     ELSE Misspec /\ See(w, Span(l, h))

private_read_range(w, l, h) == ReadRange(w, l, h)
private_read_1b(w, b) == ReadRange(w, b, b + 1)

\* read_2b, read_4b, read_8b: bytewise, unless all bytes agree.
ReadFixed(w, b, n) ==
  /\ OnIter(w)
  /\ LET S == Span(b, b + n)
     IN  IF Acceptable(w, shadow[w], S)
         THEN Load(w, S, b, b + n, Mark(shadow[w], S))
         ELSE Misspec /\ See(w, S)

\* read_4b and read_8b remember a stretch of live-in reads.
Remember(w, b, n) ==
  recent' = IF misspec' \/ \E c \in Span(b, b + n) : shadow[w][c] # LIVE_IN THEN recent
            ELSE [recent EXCEPT ![w] = IF @.start = -1 \/ @.end # b
                                       THEN [start |-> b, end |-> b + n]
                                       ELSE [start |-> @.start, end |-> @.end + n]]

private_read_2b(w, b) == ReadFixed(w, b, Two) /\ UNCHANGED recent
private_read_4b(w, b) == ReadFixed(w, b, Four) /\ Remember(w, b, Four)
private_read_8b(w, b) == ReadFixed(w, b, WordBytes) /\ Remember(w, b, WordBytes)

\* One element of a strided read, at a.  Of two words the second is compared,
\* but it is the third that is marked.
ElementOK(w, s, a, len) ==
  CASE len \in {Four, WordBytes} -> Uniform(w, s, Span(a, a + len))
    [] len = 2 * WordBytes       -> /\ Uniform(w, s, Span(a, a + WordBytes))
                                    /\ Uniform(w, s, Span(a + WordBytes, a + len))
    [] OTHER                     -> RangeOK(w, s, a, a + len)

ElementMarked(s, a, len) ==
  CASE len \in {Four, WordBytes} -> Mark(s, Span(a, a + len))
    [] len = 2 * WordBytes       ->
         [b \in Byte |-> IF /\ b \in Span(a + len, a + len + WordBytes)
                            /\ \A c \in Span(a + WordBytes, a + len) : s[c] = LIVE_IN
                         THEN READ_LIVE_IN
                         ELSE Mark(s, Span(a, a + WordBytes))[b]]
    [] OTHER                     -> RangeMarked(s, a, a + len)

\* The metadata after each of the n elements, from m before the first.
StrideMarked(m, b, n, width, len) ==
  LET s[i \in 0..n] == IF i = 0 THEN m
                       ELSE ElementMarked(s[i - 1], b + (i - 1) * width, len)
  IN  s

private_read_range_stride(w, b, n, width, len) ==
  LET S == Elements(b, n, width, len)
      s == StrideMarked(shadow[w], b, n, width, len)
  IN  /\ OnIter(w)
      /\ IF \A i \in 0..(n - 1) : ElementOK(w, s[i], b + i * width, len)
         THEN Load(w, S, b, b + (n - 1) * width + len, s[n]) /\ UNCHANGED recent
         ELSE Misspec /\ See(w, S)

-------------------------------------------------------------------------------
(* Checkpoints *)

\* The bytes that distill_worker_private_into_partial looks at.
Distilled(w) ==
  {b \in Span(RoundDown(lo[w]), RoundUp(hi[w])) :
     \E c \in Word(b) : shadow[w][c] # LIVE_IN}

\* ss: the worker's metadata of a byte, ds: the checkpoint's.
Refuses_any(ss, ds) == ds # LIVE_IN /\ ss # ds
Refuses_writes(ss, ds) == ss # READ_LIVE_IN /\ ds = READ_LIVE_IN
Refuses(ss, ds) ==
  \/ ss = READ_LIVE_IN /\ ds \notin {LIVE_IN, READ_LIVE_IN}
  \/ ss # READ_LIVE_IN /\ ds = READ_LIVE_IN

\* My copy is newer than the partial.
Newer(ss, ds) == ss > ds /\ ss # READ_LIVE_IN

\* distill_worker_private_into_partial: it returns at the first conflict, and
\* perform_checkpoint_locked goes on regardless.
distill_worker(w, g) ==
  LET c      == chk[g]
      bad    == {b \in Distilled(w) : Refuses(shadow[w][b], c.shadow[b])}
      merged == {b \in Distilled(w) : \A d \in bad : b < d}
  IN  /\ chk' = [chk EXCEPT ![g] =
           [priv   |-> [b \in Byte |-> IF b \in merged /\ Newer(shadow[w][b], c.shadow[b])
                                       THEN mem[w][b] ELSE c.priv[b]],
            shadow |-> [b \in Byte |-> IF b \in merged
                                       THEN Max({shadow[w][b], c.shadow[b]})
                                       ELSE c.shadow[b]],
            lo     |-> IF bad = {} THEN Min({lo[w], c.lo}) ELSE c.lo,
            hi     |-> IF bad = {} THEN Max({hi[w], c.hi}) ELSE c.hi,
            num_workers |-> c.num_workers + 1]]
      /\ IF bad = {}
         THEN lo' = [lo EXCEPT ![w] = NumBytes] /\ hi' = [hi EXCEPT ![w] = 0]
         ELSE UNCHANGED <<lo, hi>>
      /\ excused' = excused
           \cup {x \in {"refused"} : bad # {}}
           \cup {x \in {"stale"} : \E b \in Distilled(w) :
                    WAS_WRITTEN_EVER(shadow[w][b]) /\ mem[w][b] \div Granularity # g}

\* end_iter and advance_iter: the checkpoint of a group ends the group.
end_iter(w) ==
  /\ ~misspec /\ iter[w] < End
  /\ iter' = [iter EXCEPT ![w] = @ + 1]
  /\ recent' = [recent EXCEPT ![w] = [start |-> -1, end |-> -1]]
  /\ IF (iter[w] + 1) % Granularity = 0
     THEN distill_worker(w, iter[w] \div Granularity)
     ELSE UNCHANGED <<lo, hi, chk, excused>>
  /\ UNCHANGED <<loop, mem, shadow, oldest, misspec, main, written, seen>>

\* worker_finishes: the final checkpoint.
worker_finishes(w) ==
  /\ ~misspec /\ iter[w] = End
  /\ iter' = [iter EXCEPT ![w] = End + 1]
  /\ distill_worker(w, Final)
  /\ UNCHANGED <<loop, mem, shadow, recent, oldest, misspec, main, written, seen>>

Complete(g) == chk[g].num_workers = NumWorkers

\* Merge byte b of an older checkpoint into a newer one: what the newer one
\* did not touch comes from the older one.
Older(older, newer, b) == newer.shadow[b] = LIVE_IN /\ WAS_WRITTEN_EVER(older.shadow[b])

\* distill_committed_private_into_partial, when both are complete.
combine_private ==
  /\ ~misspec /\ oldest < Final /\ Complete(oldest) /\ Complete(oldest + 1)
  /\ LET older == chk[oldest]
         newer == chk[oldest + 1]
         range == Span(older.lo, older.hi)
     IN  IF \E b \in range : newer.shadow[b] = READ_LIVE_IN /\ WAS_WRITTEN_EVER(older.shadow[b])
         THEN Misspec /\ UNCHANGED seen
         ELSE /\ chk' = [chk EXCEPT ![oldest + 1] =
                   [priv   |-> [b \in Byte |-> IF b \in range /\ Older(older, newer, b)
                                               THEN older.priv[b] ELSE newer.priv[b]],
                    shadow |-> [b \in Byte |-> IF b \in range /\ Older(older, newer, b)
                                               THEN OLD_ITERATION ELSE newer.shadow[b]],
                    lo     |-> Min({older.lo, newer.lo}),
                    hi     |-> Max({older.hi, newer.hi}),
                    num_workers |-> newer.num_workers]]
              /\ oldest' = oldest + 1
              /\ UNCHANGED <<loop, worker, misspec, main, history>>

\* distill_committed_private_into_main, when the final checkpoint is complete
\* and all others are combined into it.
adopt_private ==
  /\ ~misspec /\ oldest = Final /\ Complete(Final)
  /\ LET c == chk[Final]
     IN  main' = [b \in Byte |-> IF b \in Span(c.lo, c.hi) /\ WAS_WRITTEN_EVER(c.shadow[b])
                                 THEN c.priv[b] ELSE main[b]]
  /\ oldest' = Final + 1
  /\ UNCHANGED <<loop, worker, chk, misspec, history>>

Init ==
  /\ loop \in Loops
  /\ mem = [w \in Worker |-> [b \in Byte |-> -1]]
  /\ shadow = [w \in Worker |-> [b \in Byte |-> LIVE_IN]]
  /\ lo = [w \in Worker |-> NumBytes] /\ hi = [w \in Worker |-> 0]
  /\ recent = [w \in Worker |-> [start |-> -1, end |-> -1]]
  /\ iter = [w \in Worker |-> 0]
  /\ chk = [g \in Group |-> [priv |-> [b \in Byte |-> -1], shadow |-> [b \in Byte |-> LIVE_IN],
                             lo |-> NumBytes, hi |-> 0, num_workers |-> 0]]
  /\ oldest = 0 /\ misspec = FALSE /\ main = [b \in Byte |-> -1]
  /\ written = {} /\ seen = {} /\ excused = {}

\* An access of the current iteration
Body(w) == \E a \in loop.body :
  LET end == a.at + a.len
  IN  \/ a.op = "write_range" /\ private_write_range(w, a.at, end)
      \/ a.op = "write_1b" /\ private_write_1b(w, a.at)
      \/ a.op = "write_2b" /\ private_write_2b(w, a.at)
      \/ a.op = "write_4b" /\ private_write_4b(w, a.at)
      \/ a.op = "write_8b" /\ private_write_8b(w, a.at)
      \/ a.op = "write_stride" /\ private_write_range_stride(w, a.at, a.n, a.width, a.len)
      \/ a.op = "read_range" /\ private_read_range(w, a.at, end)
      \/ a.op = "read_1b" /\ private_read_1b(w, a.at)
      \/ a.op = "read_2b" /\ private_read_2b(w, a.at)
      \/ a.op = "read_4b" /\ private_read_4b(w, a.at)
      \/ a.op = "read_8b" /\ private_read_8b(w, a.at)
      \/ a.op = "read_stride" /\ private_read_range_stride(w, a.at, a.n, a.width, a.len)

Next ==
  \/ \E w \in Worker : Body(w) \/ end_iter(w) \/ worker_finishes(w)
  \/ combine_private \/ adopt_private

Spec == Init /\ [][Next]_vars

-------------------------------------------------------------------------------
(* Properties *)

\* What a sequential execution would find in byte b before iteration i.
LastWrite(b, i) == Max({-1} \cup {j \in Iter : j < i /\ <<b, j>> \in written})

\* All reads returned, and the loop left, what a sequential execution would.
Sequential ==
  /\ \A r \in seen : r[3] \in {r[2], LastWrite(r[1], r[2])}
  /\ \A b \in Byte : main[b] = LastWrite(b, End)

\* A parallel region that does not misspeculate has the effect of the
\* sequential loop.
LiveOutSequential == oldest > Final => Sequential

\* The same, for the shadow metadata as designed: if the verdict of each merge
\* of a worker's heap were heeded, no write_4b or write_8b erased the mark of a
\* read, no strided read left a byte unmarked and no code of an earlier group
\* was taken for a current one, every cross-iteration flow is noticed by an
\* access, by the merge of the workers' heaps or by the combination of two
\* checkpoints.
LiveOutUnlessExcused == oldest > Final /\ excused = {} => Sequential

\* A loop that only writes is privatizable: whichever iterations write the
\* same bytes, nothing misspeculates and no merge reports a conflict.
PrivatizableNeverFails == seen = {} => ~misspec /\ "refused" \notin excused
=============================================================================
