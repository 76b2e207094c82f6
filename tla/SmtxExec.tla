------------------------------ MODULE SmtxExec ------------------------------
(***************************************************************************)
(* The SMTX executive (liberty/support/specpriv-smtx-executive): one       *)
(* parallel invocation of a loop as a pipeline of processes.               *)
(*                                                                         *)
(*   worker 0 .. worker NumWorkers-1   the replicas of each stage, each    *)
(*                                     with a private copy of memory       *)
(*   TC                                the try-commit process              *)
(*   Main                              the commit process, which forked    *)
(*                                     the others and joins them           *)
(*                                                                         *)
(* They are connected by single-producer single-consumer queues: from a    *)
(* worker to the workers of later stages (ucvf_queues), from every worker  *)
(* to TC (queues), from TC to Main (commit_queues) and from Main to every  *)
(* worker (reverse_commit_queues).  A queue is its contents here; module   *)
(* SwQueue is about the ring buffer behind it.                             *)
(*                                                                         *)
(* The value of a location is the number of the write that stored it, its  *)
(* version; versions grow in the order of the sequential loop.  A location *)
(* stands for a heap page with one word in use.  A packet that carries     *)
(* data and the packet with its shadow, which always follows, are one      *)
(* message.  There is one try-commit process, as num_available_workers     *)
(* sets num_aux_workers to 1.                                              *)
(***************************************************************************)
EXTENDS Integers, Sequences, SequencesExt, FiniteSets, FiniteSetsExt

CONSTANTS Rep,       \* Rep[s+1]: the number of workers of stage s
          Loc,       \* memory locations, natural numbers (their addresses)
          Inv,       \* the locations registered as loop invariants
          Programs,  \* loops: sequences of iterations, see ProgramOK
          QCap,      \* entries of a queue (QUEUE_SIZE / 2)
          TCBuf,     \* entries of try_commit_buffer (PACKET_POOL_SIZE)
          MaxFail    \* how often a worker's own checks may fail

NumStages == Len(Rep)
Stage == 0 .. NumStages - 1

\* GET_FIRST_WID_OF_STAGE; for NumStages it is the number of workers.
FirstWid == [s \in 0 .. NumStages |-> FoldLeft(+, 0, SubSeq(Rep, 1, s))]

NumWorkers == FirstWid[NumStages]
Worker == 0 .. NumWorkers - 1
TC == NumWorkers
Main == NumWorkers + 1
Proc == 0 .. Main

\* GET_MY_STAGE
MyStage == [w \in Worker |->
  CHOOSE s \in Stage : w \in FirstWid[s] .. FirstWid[s + 1] - 1]

\* The worker that runs iteration i of stage s (run_iteration).
Runner(s, i) == FirstWid[s] + (i % Rep[s + 1])

\* What stage s of an iteration does with a location: nothing, read it,
\* overwrite it, or read and then write it.
Access == {"none", "r", "w", "rw"}

\* One record per iteration and stage: the accesses, and whether it calls
\* ver_malloc.
ProgramOK(p) ==
  p \in Seq([1 .. NumStages -> [acc : [Loc -> Access], alloc : BOOLEAN]])

ASSUME SmtxAssumption ==
  /\ Rep \in Seq(Nat \ {0}) /\ NumStages > 0
  /\ Loc \subseteq Nat /\ Inv \subseteq Loc
  /\ \A p \in Programs : ProgramOK(p) /\ Len(p) > 0
  /\ QCap \in Nat \ {0} /\ TCBuf \in Nat \ {0} /\ MaxFail \in Nat

Chan == {c \in Worker \X Worker : MyStage[c[1]] < MyStage[c[2]]}
          \cup (Worker \X {TC}) \cup {<<TC, Main>>} \cup ({Main} \X Worker)

VARIABLES
  prog,      \* the loop
  pc,        \* pc[p]: what process p does next
  it,        \* it[p]: current_iteration of p
  src,       \* src[p]: the stage whose packets p is reading
  mem,       \* mem[p]: the memory of p
  sh,        \* sh[w]: the shadow of a worker's memory
  last,      \* TC's shadow: 1 + the stage that wrote a location last, or 0
  ro,        \* ro[w]: ro_page_buffer.index # 0
  out,       \* out[p]: the packets p has still to put into queues
  q,         \* the queues
  buf,       \* try_commit_buffer
  term,      \* TC has seen an end of worker in this iteration
  stage,     \* commit's stage
  goodToGo,  \* good_to_go
  pcb,       \* the control block shared by all processes
  next,      \* next[p][w]: p's copy of worker w's allocation pointer
  pred,      \* loop_invariant_buffer: the value predicted for a location
  code,      \* code[w]: the argument of worker_finishes
  fails,     \* failed checks so far
  stale      \* history: reads that did not see the sequential version

vars == <<prog, pc, it, src, mem, sh, last, ro, out, q, buf, term, stage,
          goodToGo, pcb, next, pred, code, fails, stale>>

\* What only TC, only Main and only a history use.
tcVars == <<last, buf, term>>
mainVars == <<stage, goodToGo, pred>>
history == <<prog, fails, stale>>

-----------------------------------------------------------------------------
(* The sequential loop *)

Do(i, s) == prog[i + 1][s + 1]
Reads(i, s, l) == Do(i, s).acc[l] \in {"r", "rw"}
Writes(i, s, l) == Do(i, s).acc[l] \in {"w", "rw"}

Ver(i, s) == i * NumStages + s + 1

\* The version of l after the first n versions of the loop.
SeqVer(l, n) ==
  Max({0} \cup {v \in 1 .. n : Writes((v - 1) \div NumStages,
                                      (v - 1) % NumStages, l)})

\* Memory after iterations 0 .. i of the sequential loop.
SeqMem(i) == [l \in Loc |-> SeqVer(l, (i + 1) * NumStages)]

-----------------------------------------------------------------------------
(* Packets and queues *)

Event(t) == [type |-> t]
Data(l, v, bits) == [type |-> "DATA", loc |-> l, val |-> v, bits |-> bits]
Alloc(p) == [type |-> "ALLOC", ptr |-> p]
AllocBy(p, w) == [type |-> "ALLOC", ptr |-> p, from |-> w]

\* forward_page and forward_packet: to the worker of every later stage that
\* runs the same iteration, then to TC.
forward(w, i, m) ==
  LET s == MyStage[w]
  IN [k \in 1 .. NumStages - s |->
        <<IF s + k < NumStages THEN Runner(s + k, i) ELSE TC, m>>]

\* Mutant: only the first worker of the next stage is told.
broadcast_first(w, m) ==
  LET f == FirstWid[MyStage[w] + 1]
  IN IF f = TC THEN <<<<TC, m>>>> ELSE <<<<f, m>>, <<TC, m>>>>

\* broadcast_event and broadcast_malloc_chunk: to every worker of every later
\* stage, then to TC.
broadcast(w, m) ==
  LET f == FirstWid[MyStage[w] + 1]
  IN [k \in 1 .. TC - f + 1 |-> <<f + k - 1, m>>]

\* Mutant: only the workers of stage 0 are told.
reverse_broadcast_head(m) == [k \in 1 .. FirstWid[1] |-> <<k - 1, m>>]

\* commit_queue_broadcast_event
reverse_broadcast(m) == [k \in 1 .. NumWorkers |-> <<k - 1, m>>]

\* Mutant: a full queue is not noticed.
produce_overrun(p) ==
  /\ out[p] # <<>>
  /\ LET c == <<p, Head(out[p])[1]>>
     IN q' = [q EXCEPT ![c] = Append(@, Head(out[p])[2])]
  /\ out' = [out EXCEPT ![p] = Tail(@)]
  /\ UNCHANGED <<pc, it, src, mem, sh, ro, pcb, next, code, tcVars, mainVars,
                 history>>

\* __sw_queue_produce, which waits while the queue is full.
produce(p) ==
  /\ out[p] # <<>>
  /\ LET c == <<p, Head(out[p])[1]>>
     IN /\ Len(q[c]) < QCap
        /\ q' = [q EXCEPT ![c] = Append(@, Head(out[p])[2])]
  /\ out' = [out EXCEPT ![p] = Tail(@)]
  /\ UNCHANGED <<pc, it, src, mem, sh, ro, pcb, next, code, tcVars, mainVars,
                 history>>

\* clear_incoming_queues of process p on the queues of r.
clear_incoming_queues(p, r) ==
  [c \in DOMAIN r |-> IF c[2] = p /\ c[1] \in Worker THEN <<>> ELSE r[c]]

\* update_normal_packet, update_super_packet: only written bytes are copied.
update(m, memory) ==
  IF "W" \in m.bits THEN [memory EXCEPT ![m.loc] = m.val] ELSE memory

\* update_ver_malloc of process p for an allocation of worker w, which asserts
\* that p's copy of w's allocation pointer is the pointer that was sent.
InStep(p, w, m) == next[p][w] = m.ptr
update_ver_malloc(p, w) == [next EXCEPT ![p][w] = @ + 1]

goto(p, where) == pc' = [pc EXCEPT ![p] = where]

-----------------------------------------------------------------------------
(* A worker at the beginning of an iteration: begin_iter *)

\* Iteration 0 starts at once; a later one waits until iteration 0 has been
\* committed and reads its reverse queue meanwhile.
begin_iter(w) ==
  /\ pc[w] = "begin"
  /\ LET ready == it[w] = 0 \/ goodToGo
     IN /\ ready \/ q[<<Main, w>>] # <<>>
        /\ goto(w, IF ready THEN "incoming" ELSE "reverse")
  /\ src' = [src EXCEPT ![w] = 0]
  /\ UNCHANGED <<it, mem, sh, ro, out, q, pcb, next, code, tcVars, mainVars,
                 history>>

\* Mutant: a worker also counts its own allocations.
Concerns_own(w, from) == MyStage[from] >= MyStage[w]

\* Allocations that did not reach worker w with the packets of its iteration.
Concerns(w, from) == MyStage[from] >= MyStage[w] /\ from # w

\* process_reverse_commit_queue: the allocations of iteration 0 in the
\* worker's own and in later stages; then good_to_go is looked at again.
process_reverse_commit_queue(w) ==
  /\ pc[w] = "reverse"
  /\ LET c == <<Main, w>>
         m == Head(q[c])
         mine == Concerns(w, m.from)
     IN IF q[c] = <<>>
        THEN goto(w, "begin") /\ UNCHANGED <<q, next>>
        ELSE /\ q' = [q EXCEPT ![c] = Tail(@)]
             /\ goto(w, IF mine /\ ~InStep(w, m.from, m)
                        THEN "mismatch" ELSE "reverse")
             /\ next' = IF mine THEN update_ver_malloc(w, m.from) ELSE next
  /\ UNCHANGED <<it, src, mem, sh, ro, out, pcb, code, tcVars, mainVars,
                 history>>

\* process_incoming_packets: the packets of every earlier stage, in the order
\* of the stages, up to the end of the iteration or of the sender.
process_incoming_packets(w) ==
  /\ pc[w] = "incoming"
  /\ src[w] < MyStage[w]
  /\ LET from == Runner(src[w], it[w])
         c == <<from, w>>
         m == Head(q[c])
     IN /\ q[c] # <<>>
        /\ q' = [q EXCEPT ![c] = Tail(@)]
        /\ mem' = IF m.type = "DATA"
                  THEN [mem EXCEPT ![w] = update(m, @)] ELSE mem
        /\ next' = IF m.type = "ALLOC"
                   THEN update_ver_malloc(w, from) ELSE next
        /\ src' = IF m.type \in {"EOI", "MISSPEC", "EOW"}
                  THEN [src EXCEPT ![w] = @ + 1] ELSE src
        /\ goto(w, IF m.type = "ALLOC" /\ ~InStep(w, from, m)
                   THEN "mismatch" ELSE "incoming")
  /\ UNCHANGED <<it, sh, ro, out, pcb, code, tcVars, mainVars, history>>

\* check_misspec: leave at once if this or an earlier iteration is known to
\* have failed.
Leaves(w) == pcb.misspec /\ pcb.iter <= it[w]

\* update_loop_invariants: the predicted values replace those in memory m, and
\* in the shadow s they count as written.
Predicted(l) == l \in Inv /\ pred[l] # -1
update_loop_invariants(m) ==
  [l \in Loc |-> IF Predicted(l) THEN pred[l] ELSE m[l]]
update_loop_invariants_shadow(s) ==
  [l \in Loc |-> IF Predicted(l) THEN {"W"} ELSE s[l]]

\* The rest of begin_iter.  From iteration 1 on, stage 0 stores the values
\* predicted for loop invariants and tells TC so.
begin_iter_rest(w) ==
  /\ pc[w] = "incoming"
  /\ src[w] = MyStage[w]
  /\ IF Leaves(w)
     THEN goto(w, "exited") /\ UNCHANGED <<mem, sh, out>>
     ELSE /\ goto(w, "body")
          /\ IF it[w] # 0 /\ MyStage[w] = 0
             THEN /\ mem' = [mem EXCEPT ![w] = update_loop_invariants(@)]
                  /\ sh' = [sh EXCEPT ![w] = update_loop_invariants_shadow(@)]
                  /\ out' = [out EXCEPT ![w] = <<<<TC, Event("BOI")>>>>]
             ELSE UNCHANGED <<mem, sh, out>>
  /\ UNCHANGED <<it, src, ro, q, pcb, next, code, tcVars, mainVars, history>>

-----------------------------------------------------------------------------
(* The body of an iteration and its end *)

\* ver_read1 .. ver_read8 and ver_write1 .. ver_write8 on the shadow of a
\* location: R read, W written, B read before it was written.
ver_read(bits) == bits \cup {"R"}
ver_write(bits) ==
  IF "W" \in bits THEN bits
  ELSE bits \cup {"W"} \cup (IF "R" \in bits THEN {"B"} ELSE {})

Shadow(bits, access) ==
  CASE access = "none" -> bits
    [] access = "r" -> ver_read(bits)
    [] access = "w" -> ver_write(bits)
    [] access = "rw" -> ver_write(ver_read(bits))

\* clear_read with forward_pair: a page that was only read is noted in
\* ro_page_buffer, any other is sent with its shadow.
ReadOnly(bits) == "W" \notin bits

\* The packets of end_iter of worker w, which runs iteration i with memory m
\* and shadow s: allocations, touched pages in the order of their addresses,
\* the list of read-only pages, the end of the iteration.  The list is sent
\* whenever index # 0, and index is never reset.
end_iter_packets(w, i, m, s, touched, roSeen) ==
  (IF Do(i, MyStage[w]).alloc THEN broadcast(w, Alloc(next[w][w])) ELSE <<>>)
  \o FlattenSeq([k \in 1 .. Cardinality(touched) |->
       LET l == SetToSortSeq(touched, <)[k]
       IN IF ReadOnly(s[l]) THEN <<>>
          ELSE forward(w, i, Data(l, m[l], s[l]))])
  \o (IF roSeen THEN forward(w, i, Event("RO")) ELSE <<>>)
  \o broadcast(w, Event("EOI"))

\* update_shadow_for_loop_invariants: TC does not check predicted values.
Unchecked(l, bits) == IF l \in Inv THEN bits \ {"B"} ELSE bits

\* The body of the iteration and the first part of end_iter, in the worker
\* that runs it.
body(w) ==
  /\ pc[w] = "body" /\ out[w] = <<>>
  /\ LET i == it[w]
         s == MyStage[w]
         touched == {l \in Loc : Do(i, s).acc[l] # "none"}
         m == [l \in Loc |-> IF Writes(i, s, l) THEN Ver(i, s) ELSE mem[w][l]]
         shadow == [l \in Loc |->
                      Unchecked(l, Shadow(sh[w][l], Do(i, s).acc[l]))]
         roSeen == ro[w] \/ \E l \in touched : ReadOnly(shadow[l])
     IN /\ Runner(s, i) = w
        /\ mem' = [mem EXCEPT ![w] = m]
        /\ sh' = [sh EXCEPT ![w] = [l \in Loc |->
                    IF l \in touched THEN {} ELSE shadow[l]]]
        /\ ro' = [ro EXCEPT ![w] = roSeen]
        /\ out' = [out EXCEPT ![w] =
                     end_iter_packets(w, i, m, shadow, touched, roSeen)]
        /\ next' = IF Do(i, s).alloc THEN update_ver_malloc(w, w) ELSE next
        /\ stale' = stale \cup
             {<<i, s, l>> : l \in {k \in Loc : Reads(i, s, k)
                              /\ mem[w][k] # SeqVer(k, Ver(i, s) - 1)}}
  /\ goto(w, "end")
  /\ UNCHANGED <<it, src, q, pcb, code, prog, fails, tcVars, mainVars>>

\* The next iteration, or out of the loop after the last one.
advance_iter(w) ==
  /\ it' = [it EXCEPT ![w] = @ + 1]
  /\ code' = [code EXCEPT ![w] = 1]
  /\ goto(w, IF it[w] + 1 = Len(prog) THEN "finish" ELSE "begin")
  /\ UNCHANGED <<src, mem, sh, ro, out, q, pcb, next, tcVars, mainVars,
                 history>>

\* The other workers of the stage do nothing in this iteration.
skip_body(w) ==
  /\ pc[w] = "body" /\ out[w] = <<>>
  /\ Runner(MyStage[w], it[w]) # w
  /\ advance_iter(w)

\* A check in the body fails: predict, check_loop_invariant, or a block that
\* was speculated dead.
body_fails(w) ==
  /\ pc[w] = "body" /\ out[w] = <<>>
  /\ Runner(MyStage[w], it[w]) = w
  /\ fails < MaxFail
  /\ fails' = fails + 1
  /\ goto(w, "misspec")
  /\ UNCHANGED <<it, src, mem, sh, ro, out, q, pcb, next, code, prog, stale,
                 tcVars, mainVars>>

\* All packets are sent.
end_iter(w) ==
  /\ pc[w] = "end" /\ out[w] = <<>>
  /\ advance_iter(w)

-----------------------------------------------------------------------------
(* Misspeculation and the end of a worker or of TC *)

\* misspec: the flag is set before the iteration.
misspec(p) ==
  /\ pc[p] = "misspec"
  /\ pcb' = [pcb EXCEPT !.misspec = TRUE]
  /\ goto(p, "misspec_test")
  /\ UNCHANGED <<it, src, mem, sh, ro, out, q, next, code, tcVars, mainVars,
                 history>>

\* Mutant: a misspeculation is not announced.
broadcast_event_quiet(p, type) ==
  out' = [out EXCEPT ![p] = IF p = TC \/ type = "MISSPEC" THEN <<>>
                            ELSE broadcast(p, Event(type))]

\* broadcast_event of process p; TC broadcasts nothing.
broadcast_event(p, type) ==
  out' = [out EXCEPT ![p] = IF p = TC THEN <<>> ELSE broadcast(p, Event(type))]

\* Whether the iteration of p is earlier than the one recorded so far; if not,
\* nothing is recorded.
Earlier(p) == pcb.iter = -1 \/ pcb.iter > it[p]

misspec_test(p) ==
  /\ pc[p] = "misspec_test"
  /\ IF Earlier(p) THEN goto(p, "misspec_set") /\ UNCHANGED out
     ELSE goto(p, "misspec_clear") /\ broadcast_event(p, "MISSPEC")
  /\ UNCHANGED <<it, src, mem, sh, ro, q, pcb, next, code, tcVars, mainVars,
                 history>>

misspec_set(p) ==
  /\ pc[p] = "misspec_set"
  /\ pcb' = [pcb EXCEPT !.iter = it[p]]
  /\ broadcast_event(p, "MISSPEC")
  /\ goto(p, "misspec_clear")
  /\ UNCHANGED <<it, src, mem, sh, ro, q, next, code, tcVars, mainVars,
                 history>>

misspec_clear(p) ==
  /\ pc[p] = "misspec_clear" /\ out[p] = <<>>
  /\ q' = clear_incoming_queues(p, q)
  /\ code' = IF p = TC THEN code ELSE [code EXCEPT ![p] = 0]
  /\ goto(p, "finish")
  /\ UNCHANGED <<it, src, mem, sh, ro, out, pcb, next, tcVars, mainVars,
                 history>>

\* worker_finishes: exit_taken is tested, and then set where it was zero.  A
\* worker other than worker 0 asserts that it takes the exit already taken.
worker_finishes(p) ==
  /\ pc[p] = "finish"
  /\ IF p # TC /\ pcb.exit = 0
     THEN goto(p, "finish_set") /\ UNCHANGED out
     ELSE IF p \in Worker \ {0} /\ pcb.exit # code[p]
     THEN goto(p, "aborted") /\ UNCHANGED out
     ELSE goto(p, "clear") /\ broadcast_event(p, "EOW")
  /\ UNCHANGED <<it, src, mem, sh, ro, q, pcb, next, code, tcVars, mainVars,
                 history>>

finish_set(w) ==
  /\ pc[w] = "finish_set"
  /\ pcb' = [pcb EXCEPT !.exit = code[w]]
  /\ broadcast_event(w, "EOW")
  /\ goto(w, "clear")
  /\ UNCHANGED <<it, src, mem, sh, ro, q, next, code, tcVars, mainVars,
                 history>>

finish_clear(p) ==
  /\ pc[p] = "clear" /\ out[p] = <<>>
  /\ q' = clear_incoming_queues(p, q)
  /\ goto(p, "exited")
  /\ UNCHANGED <<it, src, mem, sh, ro, out, pcb, next, code, tcVars, mainVars,
                 history>>

-----------------------------------------------------------------------------
(* The try-commit process: try_commit *)

\* The worker whose packets TC reads, and the packet it reads.
Source == Runner(src[TC], it[TC])
Reading(type) ==
  /\ pc[TC] = "try_commit" /\ out[TC] = <<>> /\ src[TC] < NumStages
  /\ q[<<Source, TC>>] # <<>>
  /\ Head(q[<<Source, TC>>]).type = type
Packet == Head(q[<<Source, TC>>])
consume == q' = [q EXCEPT ![<<Source, TC>>] = Tail(@)]

\* buffer_packet: a full buffer is sent to Main first.
ToMain(b) == [k \in 1 .. Len(b) |-> <<Main, b[k]>>]
buffer_packet(m) ==
  LET full == Len(buf) = TCBuf
  IN /\ buf' = IF full THEN <<m>> ELSE Append(buf, m)
     /\ out' = IF full THEN [out EXCEPT ![TC] = ToMain(buf)] ELSE out

\* Mutant: a parallel stage is checked like a sequential one.
Ref_sequential(s) == s + 2

\* check_packet and check_page: a value read before it was written must not
\* come from a later stage, nor, in a parallel stage, from the same stage.
Ref(s) == IF Rep[s + 1] = 1 THEN s + 2 ELSE s + 1
check_packet(m, s) == "B" \in m.bits => last[m.loc] < Ref(s)

try_commit_data ==
  /\ Reading("DATA")
  /\ consume
  /\ LET m == Packet
     IN IF check_packet(m, src[TC])
        THEN /\ mem' = [mem EXCEPT ![TC] = update(m, @)]
             /\ last' = IF "W" \in m.bits
                        THEN [last EXCEPT ![m.loc] = src[TC] + 1] ELSE last
             /\ buffer_packet(m)
             /\ UNCHANGED pc
        ELSE goto(TC, "misspec") /\ UNCHANGED <<mem, last, buf, out>>
  /\ UNCHANGED <<it, src, sh, ro, pcb, next, code, term, mainVars, history>>

\* Mutant: predictions are not verified.
verify_loop_invariants_never == TRUE

\* verify_loop_invariants, at the beginning of an iteration.
verify_loop_invariants ==
  \A l \in Loc : Predicted(l) => mem[TC][l] = pred[l]

try_commit_boi ==
  /\ Reading("BOI")
  /\ consume
  /\ IF verify_loop_invariants THEN UNCHANGED pc ELSE goto(TC, "misspec")
  /\ UNCHANGED <<it, src, mem, sh, ro, out, pcb, next, code, tcVars, mainVars,
                 history>>

\* check_ro_page has no return at its end and nobody looks at its result: the
\* compiler may drop the call, or let it run into unmapped memory, where
\* base_handler loops forever.
try_commit_ro ==
  /\ Reading("RO")
  /\ consume
  /\ UNCHANGED pc \/ goto(TC, "stuck")
  /\ UNCHANGED <<it, src, mem, sh, ro, out, pcb, next, code, tcVars, mainVars,
                 history>>

try_commit_alloc ==
  /\ Reading("ALLOC")
  /\ consume
  /\ buffer_packet(Packet)
  /\ next' = update_ver_malloc(TC, Source)
  /\ IF InStep(TC, Source, Packet) THEN UNCHANGED pc ELSE goto(TC, "mismatch")
  /\ UNCHANGED <<it, src, mem, sh, ro, pcb, code, last, term, mainVars,
                 history>>

\* The end of a stage's part of the iteration.
try_commit_eoi ==
  /\ Reading("EOI")
  /\ consume
  /\ buffer_packet(Packet)
  /\ src' = [src EXCEPT ![TC] = @ + 1]
  /\ UNCHANGED <<pc, it, mem, sh, ro, pcb, next, code, last, term, mainVars,
                 history>>

\* The end of a worker; only the one of the last stage is passed on.
try_commit_eow ==
  /\ Reading("EOW")
  /\ consume
  /\ IF src[TC] = NumStages - 1 THEN buffer_packet(Packet)
                                ELSE UNCHANGED <<buf, out>>
  /\ src' = [src EXCEPT ![TC] = @ + 1]
  /\ term' = TRUE
  /\ UNCHANGED <<pc, it, mem, sh, ro, pcb, next, code, last, mainVars, history>>

\* A worker failed: TC returns, and what it buffered is lost.
try_commit_misspec ==
  /\ Reading("MISSPEC")
  /\ consume
  /\ buf' = <<>>
  /\ goto(TC, "finish")
  /\ UNCHANGED <<it, src, mem, sh, ro, out, pcb, next, code, last, term,
                 mainVars, history>>

\* forward_values_to_commit, once every stage of the iteration is checked.
forward_values_to_commit ==
  /\ pc[TC] = "try_commit" /\ out[TC] = <<>> /\ src[TC] = NumStages
  /\ out' = [out EXCEPT ![TC] = ToMain(buf)]
  /\ buf' = <<>>
  /\ src' = [src EXCEPT ![TC] = 0]
  /\ goto(TC, "forwarded")
  /\ UNCHANGED <<it, mem, sh, ro, q, pcb, next, code, last, term, mainVars,
                 history>>

forwarded ==
  /\ pc[TC] = "forwarded" /\ out[TC] = <<>>
  /\ it' = IF term THEN it ELSE [it EXCEPT ![TC] = @ + 1]
  /\ goto(TC, IF term THEN "finish" ELSE "try_commit")
  /\ UNCHANGED <<src, mem, sh, ro, out, q, pcb, next, code, tcVars, mainVars,
                 history>>

-----------------------------------------------------------------------------
(* The commit process: commit, join_children, recovery and restart *)

Committing(type) ==
  /\ pc[Main] = "commit" /\ out[Main] = <<>>
  /\ q[<<TC, Main>>] # <<>>
  /\ Head(q[<<TC, Main>>]).type = type
Committed == Head(q[<<TC, Main>>])
take == q' = [q EXCEPT ![<<TC, Main>>] = Tail(@)]

commit_data ==
  /\ Committing("DATA")
  /\ take
  /\ mem' = [mem EXCEPT ![Main] = update(Committed, @)]
  /\ UNCHANGED <<pc, it, src, sh, ro, out, pcb, next, code, tcVars, mainVars,
                 history>>

\* The values of the loop invariants are noted, or forgotten.
update_loop_invariant_buffer == [l \in Inv |-> mem[Main][l]]
reset_predictors == [l \in Inv |-> -1]

\* The last stage's end of iteration commits it.  When iteration 0 is
\* committed, the values of the loop invariants become predictions and the
\* workers may go on.
commit_eoi ==
  /\ Committing("EOI")
  /\ take
  /\ IF stage = NumStages - 1
     THEN /\ pcb' = [pcb EXCEPT !.committed = it[Main]]
          /\ pred' = IF it[Main] = 0
                     THEN update_loop_invariant_buffer ELSE pred
          /\ goodToGo' = (goodToGo \/ it[Main] = 0)
          /\ it' = [it EXCEPT ![Main] = @ + 1]
          /\ stage' = 0
     ELSE stage' = stage + 1 /\ UNCHANGED <<it, pcb, goodToGo, pred>>
  /\ UNCHANGED <<pc, src, mem, sh, ro, out, next, code, tcVars, history>>

commit_eow ==
  /\ Committing("EOW")
  /\ take
  /\ UNCHANGED <<pc, it, src, mem, sh, ro, out, pcb, next, code, tcVars,
                 mainVars, history>>

\* An allocation of iteration 0 is passed on to every worker.
commit_alloc ==
  /\ Committing("ALLOC")
  /\ take
  /\ LET from == Runner(stage, it[Main])
         m == Committed
     IN /\ next' = update_ver_malloc(Main, from)
        /\ IF InStep(Main, from, m) THEN UNCHANGED pc ELSE goto(Main, "mismatch")
        /\ out' = IF it[Main] = 0
                  THEN [out EXCEPT ![Main] =
                          reverse_broadcast(AllocBy(m.ptr, from))]
                  ELSE out
  /\ UNCHANGED <<it, src, mem, sh, ro, pcb, code, tcVars, mainVars, history>>

\* The queue is empty: have all children exited?  If so, the queue is looked
\* at once more.
commit_poll ==
  /\ pc[Main] = "commit" /\ out[Main] = <<>>
  /\ q[<<TC, Main>>] = <<>>
  /\ goto(Main, "waitpid")
  /\ UNCHANGED <<it, src, mem, sh, ro, out, q, pcb, next, code, tcVars,
                 mainVars, history>>

\* The status of a child that was waited for before is the one read last, so a
\* child that aborted is never counted.
all_terminated == \A p \in Worker \cup {TC} : pc[p] = "exited"

commit_waitpid ==
  /\ pc[Main] = "waitpid"
  /\ all_terminated \/ q[<<TC, Main>>] # <<>>
  /\ goto(Main, IF all_terminated THEN "recheck" ELSE "commit")
  /\ UNCHANGED <<it, src, mem, sh, ro, out, q, pcb, next, code, tcVars,
                 mainVars, history>>

\* Mutant: the queue is not looked at again.
join_children_once ==
  /\ pc[Main] = "recheck"
  /\ goto(Main, IF pcb.misspec \/ pcb.exit = 0 THEN "recover" ELSE "done")
  /\ pred' = reset_predictors
  /\ UNCHANGED <<it, src, mem, sh, ro, out, q, pcb, next, code, stage,
                 goodToGo, tcVars, history>>

\* The end of commit and of join_children, which forgets the predictions.
join_children ==
  /\ pc[Main] = "recheck"
  /\ IF q[<<TC, Main>>] = <<>>
     THEN /\ goto(Main, IF pcb.misspec \/ pcb.exit = 0
                        THEN "recover" ELSE "done")
          /\ pred' = reset_predictors
     ELSE goto(Main, "commit") /\ UNCHANGED pred
  /\ UNCHANGED <<it, src, mem, sh, ro, out, q, pcb, next, code, stage,
                 goodToGo, tcVars, history>>

\* The recovery function: iterations low .. high on memory m.
Rerun(m, low, high) ==
  [l \in Loc |->
     Max({m[l]} \cup {v \in Ver(low, 0) .. Ver(high, NumStages - 1) :
           Writes((v - 1) \div NumStages, (v - 1) % NumStages, l)})]

\* recovery_finished with the exit the recovery function took, or 0.
recovery_finished(e) ==
  /\ pcb' = [misspec |-> FALSE, iter |-> -1, committed |-> -1,
             exit |-> IF e > 0 THEN e ELSE pcb.exit]
  /\ it' = [it EXCEPT ![Main] = pcb.iter + 1]

\* The code after join_children when it returns 0: what was not committed, up
\* to the misspeculated iteration, is run again, and then the workers are
\* spawned again unless the loop has ended.
recover ==
  /\ pc[Main] = "recover"
  /\ mem' = [mem EXCEPT ![Main] = Rerun(@, pcb.committed + 1, pcb.iter)]
  /\ LET over == pcb.iter + 1 >= Len(prog)
     IN /\ recovery_finished(IF over THEN 1 ELSE 0)
        /\ goto(Main, IF over THEN "done" ELSE "spawn")
  /\ UNCHANGED <<src, sh, ro, out, q, next, code, tcVars, mainVars, history>>

init_queues == [c \in Chan |-> <<>>]

\* spawn_workers_callback: new queues, and processes that start with Main's
\* memory at Main's iteration.
spawn_workers_callback ==
  /\ pc[Main] = "spawn"
  /\ pc' = [p \in Proc |-> CASE p \in Worker -> "begin"
                             [] p = TC -> "try_commit"
                             [] p = Main -> "commit"]
  /\ it' = [p \in Proc |-> it[Main]]
  /\ src' = [p \in Proc |-> 0]
  /\ mem' = [p \in Proc |-> mem[Main]]
  /\ sh' = [w \in Worker |-> [l \in Loc |-> {}]]
  /\ last' = [l \in Loc |-> 0]
  /\ ro' = [w \in Worker |-> FALSE]
  /\ out' = [p \in Proc |-> <<>>]
  /\ q' = init_queues
  /\ buf' = <<>> /\ term' = FALSE /\ stage' = 0 /\ goodToGo' = FALSE
  /\ next' = [p \in Proc |-> next[Main]]
  /\ code' = [w \in Worker |-> 0]
  /\ UNCHANGED <<pcb, pred, history>>

-----------------------------------------------------------------------------
\* begin_invocation
Init ==
  /\ prog \in Programs
  /\ pc = [p \in Proc |-> IF p = Main THEN "spawn" ELSE "none"]
  /\ it = [p \in Proc |-> 0]
  /\ src = [p \in Proc |-> 0]
  /\ mem = [p \in Proc |-> [l \in Loc |-> 0]]
  /\ sh = [w \in Worker |-> [l \in Loc |-> {}]]
  /\ last = [l \in Loc |-> 0]
  /\ ro = [w \in Worker |-> FALSE]
  /\ out = [p \in Proc |-> <<>>]
  /\ q = init_queues
  /\ buf = <<>> /\ term = FALSE /\ stage = 0 /\ goodToGo = FALSE
  /\ pcb = [misspec |-> FALSE, iter |-> -1, committed |-> -1, exit |-> 0]
  /\ next = [p \in Proc |-> [w \in Worker |-> 0]]
  /\ pred = [l \in Inv |-> -1]
  /\ code = [w \in Worker |-> 0]
  /\ fails = 0
  /\ stale = {}

\* A step of either a worker or TC on its way out.
Leave(p) ==
  \/ misspec(p) \/ misspec_test(p) \/ misspec_set(p) \/ misspec_clear(p)
  \/ worker_finishes(p) \/ finish_clear(p)

WorkerStep(w) ==
  \/ begin_iter(w) \/ process_reverse_commit_queue(w)
  \/ process_incoming_packets(w) \/ begin_iter_rest(w)
  \/ body(w) \/ skip_body(w) \/ body_fails(w) \/ end_iter(w)
  \/ finish_set(w) \/ produce(w) \/ Leave(w)

TryCommitStep ==
  \/ try_commit_data \/ try_commit_boi \/ try_commit_ro \/ try_commit_alloc
  \/ try_commit_eoi \/ try_commit_eow \/ try_commit_misspec
  \/ forward_values_to_commit \/ forwarded \/ produce(TC) \/ Leave(TC)

CommitStep ==
  \/ commit_data \/ commit_eoi \/ commit_eow \/ commit_alloc
  \/ commit_poll \/ commit_waitpid \/ join_children
  \/ recover \/ spawn_workers_callback \/ produce(Main)

Next == (\E w \in Worker : WorkerStep(w)) \/ TryCommitStep \/ CommitStep

Spec == Init /\ [][Next]_vars

-----------------------------------------------------------------------------
(* Properties *)

Message ==
  [type : {"EOI", "EOW", "MISSPEC", "BOI", "RO"}]
    \cup [type : {"DATA"}, loc : Loc, val : Nat, bits : SUBSET {"R", "W", "B"}]
    \cup [type : {"ALLOC"}, ptr : Nat]
    \cup [type : {"ALLOC"}, ptr : Nat, from : Worker]

\* The types of the variables; no queue holds more than its entries.
TypeOK ==
  /\ prog \in Programs /\ fails \in 0 .. MaxFail
  /\ pc \in [Proc -> {"none", "begin", "reverse", "incoming", "body", "end",
                      "misspec", "misspec_test", "misspec_set",
                      "misspec_clear", "finish", "finish_set", "clear",
                      "exited", "aborted", "mismatch",
                      "try_commit", "forwarded", "stuck", "spawn", "commit",
                      "waitpid", "recheck", "recover", "done"}]
  /\ it \in [Proc -> 0 .. Len(prog)]
  /\ src \in [Proc -> 0 .. NumStages]
  /\ mem \in [Proc -> [Loc -> Nat]]
  /\ sh \in [Worker -> [Loc -> SUBSET {"R", "W", "B"}]]
  /\ last \in [Loc -> 0 .. NumStages]
  /\ ro \in [Worker -> BOOLEAN]
  /\ \A p \in Proc : \A k \in DOMAIN out[p] :
       <<p, out[p][k][1]>> \in Chan /\ out[p][k][2] \in Message
  /\ \A c \in Chan : q[c] \in Seq(Message) /\ Len(q[c]) <= QCap
  /\ buf \in Seq(Message) /\ Len(buf) <= TCBuf /\ term \in BOOLEAN
  /\ stage \in Stage /\ goodToGo \in BOOLEAN
  /\ pcb \in [misspec : BOOLEAN, iter : -1 .. Len(prog),
              committed : -1 .. Len(prog) - 1, exit : 0 .. 1]
  /\ next \in [Proc -> [Worker -> Nat]]
  /\ pred \in [Inv -> Nat \cup {-1}]
  /\ code \in [Worker -> 0 .. 1]
  /\ stale \subseteq Nat \X Stage \X Loc

\* When join_children returns, memory is what the sequential loop leaves
\* behind after the iterations recorded as committed.  Without
\* misspeculation that is the whole loop, and all of it has been committed;
\* with it, the iterations to run again start right after the committed ones,
\* and running them leaves the memory of the sequential loop.
JoinSequential ==
  /\ pc[Main] = "recover" =>
       mem[Main] = SeqMem(pcb.committed) /\ pcb.committed < pcb.iter
  /\ pc[Main] = "spawn" => mem[Main] = SeqMem(it[Main] - 1)
  /\ pc[Main] = "done" =>
       mem[Main] = SeqMem(Len(prog) - 1) /\ it[Main] = Len(prog)

\* The value stage s of iteration i reads at l was written by an earlier stage
\* of an earlier iteration that another replica of stage s ran, and so was
\* never forwarded to the reader.
NotForwarded(i, s, l) ==
  LET v == SeqVer(l, Ver(i, s) - 1)
      j == (v - 1) \div NumStages
      t == (v - 1) % NumStages
  IN v > 0 /\ t < s /\ j < i /\ Runner(s, j) # Runner(s, i)

\* What try_commit promises: an iteration is committed only if every value it
\* read and then overwrote was the one of the sequential loop.  Values that
\* are not forwarded between the replicas of a stage, and the loop
\* invariants, which stage 0 alone is given, are excepted.
RmwCurrent ==
  \A x \in stale :
    (x[1] <= pcb.committed /\ Writes(x[1], x[2], x[3]) /\ x[3] \notin Inv)
      => NotForwarded(x[1], x[2], x[3])

\* No process finds that its copy of a worker's allocation pointer differs
\* from the pointer that worker sent (the assertions of update_ver_malloc).
AllocInSync == \A p \in Proc : pc[p] # "mismatch"

\* Allocations of worker x in iteration 0.
Alloc0(x) == IF Runner(MyStage[x], 0) = x /\ Do(0, MyStage[x]).alloc
             THEN 1 ELSE 0

\* Once good_to_go is set, every worker knows of each allocation that its own
\* or a later stage made in iteration 0, or still has it in its reverse queue:
\* none is lost on the way back from the commit process.
ReverseComplete ==
  goodToGo =>
    \A w, x \in Worker : (x # w /\ MyStage[x] >= MyStage[w]) =>
      next[w][x] + Len(SelectSeq(q[<<Main, w>>], LAMBDA m : m.from = x))
        = Alloc0(x)

\* TC takes an end-of-worker packet only after every iteration of the loop: a
\* worker that stops early is seen to have misspeculated first.
EndAfterLast == term => it[TC] = Len(prog)

\* The values predicted for loop invariants are those that the sequential loop
\* has at the beginning of each committed iteration but the first.
PredictionsHold ==
  \A l \in Inv : pred[l] # -1 =>
    \A i \in 1 .. pcb.committed : SeqVer(l, i * NumStages) = pred[l]

\* An invocation that nobody disturbs: it begins with iteration 0, no check
\* fails, and TC neither misspeculates nor runs away.
Quiet == /\ fails = 0 /\ ~pcb.misspec /\ pc[TC] \notin {"stuck", "misspec"}
         /\ it[Main] = 0 \/ goodToGo

\* Unless something disturbs the invocation, some process can move until
\* join_children has returned: the pipeline never waits in a circle, whatever
\* queues are full.
NoWedge == (Quiet /\ pc[Main] # "done") => ENABLED Next
=============================================================================
