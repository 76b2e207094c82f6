----------------------------- MODULE MCSwQueue -----------------------------
(* SwQueue with a few slots and values. *)
EXTENDS SwQueue
=============================================================================
