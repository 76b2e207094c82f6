---------------------------- MODULE RegionCommit ----------------------------
(***************************************************************************)
(* What the checkpoint manager promises to the main process: the effects   *)
(* of a parallel region become visible one checkpoint at a time, in order, *)
(* and only with the state of all workers.                                 *)
(***************************************************************************)
EXTENDS Integers, Sequences, Functions

CONSTANTS Worker, Label   \* Label: a set of integers

VARIABLES
  phase,      \* of the region: open to workers, closed, over, or crashed
  labels,     \* the checkpoints of the region
  given,      \* given[w]: those to which worker w has added its state
  failed,     \* speculation has failed
  released,   \* checkpoints whose output was performed, in that order
  committed   \* <<w, l>>: the state of w at l is in the main heaps

vars == <<phase, labels, given, failed, released, committed>>

Least(S, l) == l \in S /\ \A k \in S : l <= k

\* A region begins.
Begin ==
  /\ labels' \in SUBSET Label
  /\ phase' = "open" /\ failed' = FALSE
  /\ given' = [w \in Worker |-> {}] /\ released' = <<>> /\ committed' = {}

Init ==
  /\ labels \in SUBSET Label
  /\ phase = "open" /\ failed = FALSE
  /\ given = [w \in Worker |-> {}] /\ released = <<>> /\ committed = {}

\* A worker adds its state to the next checkpoint.
Contribute(w) ==
  /\ phase = "open"
  /\ \E l \in labels :
       /\ Least(labels \ given[w], l)
       /\ given' = [given EXCEPT ![w] = @ \cup {l}]
  /\ UNCHANGED <<phase, labels, failed, released, committed>>

\* The output of the next checkpoint is performed: all workers have added
\* their state to it.
ReleaseOf(l) ==
  /\ Least(labels \ Range(released), l)
  /\ \A w \in Worker : l \in given[w]
  /\ released' = Append(released, l)

Release ==
  /\ phase = "open" /\ \E l \in labels : ReleaseOf(l)
  /\ UNCHANGED <<phase, labels, given, failed, committed>>

Fail ==
  /\ phase = "open" /\ failed' = TRUE /\ phase' \in {"open", "crashed"}
  /\ UNCHANGED <<labels, given, released, committed>>

\* No worker is active any more; this may release one more checkpoint.
Close ==
  /\ phase = "open" /\ phase' = "closed"
  /\ UNCHANGED released \/ \E l \in labels : ReleaseOf(l)
  /\ UNCHANGED <<labels, given, failed, committed>>

\* The next checkpoint, with all before it, reaches the main heaps.
Commit ==
  /\ phase = "closed"
  /\ \E l \in labels :
       ReleaseOf(l) /\ committed' = Worker \X {k \in labels : k <= l}
  /\ UNCHANGED <<phase, labels, given, failed>>

\* The region is over: committed as a whole, unless speculation failed.
End ==
  /\ phase = "closed" /\ phase' = "over"
  /\ failed \/ committed = Worker \X labels
  /\ UNCHANGED <<labels, given, failed, released, committed>>

Next ==
  \/ \E w \in Worker : Contribute(w)
  \/ Release \/ Fail \/ Close \/ Commit \/ End
  \/ phase = "over" /\ Begin

Spec == Init /\ [][Next]_vars
=============================================================================
