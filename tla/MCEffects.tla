------------------------------ MODULE MCEffects ------------------------------
(***************************************************************************)
(* Instances of Effects for TLC.                                           *)
(***************************************************************************)
EXTENDS Effects

\* An iteration without output and with a small value, and one with two events
\* of output and a large value.
Quiet == [io |-> 0, val |-> 1, elem |-> 0]
Busy  == [io |-> 2, val |-> 2, elem |-> NumElems - 1]

\* Bound: at most three iterations are busy.  Two are needed for output of two
\* workers to be merged and for a tie of two maxima, the third lies before,
\* between or after them.
MCPrograms ==
  {p \in [Iter -> {Quiet, Busy}] : Cardinality({i \in Iter : p[i] = Busy}) <= 3}
===============================================================================
