----------------------------- MODULE MCSmtxExec -----------------------------
(* Small instances of SmtxExec: two stages, the second one replicated. *)
EXTENDS SmtxExec

\* Stage s of an iteration, from its accesses to locations 1 and 2.
A(a, b) == [acc |-> (1 :> a @@ 2 :> b), alloc |-> FALSE]
M(a, b) == [acc |-> (1 :> a @@ 2 :> b), alloc |-> TRUE]

MCRep == <<1, 2>>
MCPrograms == {
  \* both stages read and write location 1
  <<<<A("rw", "none"), A("rw", "none")>>,
    <<A("rw", "none"), A("none", "none")>>>>,
  \* stage 1 allocates in iteration 0; then a location is only read
  <<<<A("none", "none"), M("none", "none")>>,
    <<A("r", "none"), A("none", "none")>>>>,
  \* the invariant changes in the last stage of iteration 0; both stages
  \* allocate in iteration 1
  <<<<A("none", "w"), A("none", "rw")>>,
    <<M("none", "rw"), M("rw", "none")>>>>,
  \* the invariant changes after iteration 0
  <<<<A("none", "r"), A("none", "none")>>,
    <<A("none", "w"), A("none", "none")>>,
    <<A("none", "r"), A("none", "none")>>>>,
  \* the replicas of stage 1 use one another's value, and that of stage 0
  <<<<A("none", "none"), A("w", "none")>>,
    <<A("none", "none"), A("rw", "none")>>>>,
  <<<<A("w", "none"), A("none", "none")>>,
    <<A("none", "none"), A("rw", "none")>>>>
  }
=============================================================================
