---------------------------- MODULE MCPrivateHeap ----------------------------
(* PrivateHeap with two workers and a few bytes and iterations. *)
EXTENDS PrivateHeap

Strided(op, b, n, width, len) ==
  [op |-> op, at |-> b, n |-> n, width |-> width, len |-> len]
Bytes(op, l, h) == Strided(op, l, 1, 0, h - l)
At(op, b) == Strided(op, b, 1, 0, 1)

Loop(body, granularity, end) == [body |-> body, granularity |-> granularity, end |-> end]

\* One byte, written and read
OneByte == {Loop({Bytes("write_range", 0, 1), Bytes("read_range", 0, 1)}, 4, 2)}

\* With two groups of iterations: ranges within a word; small accesses inside
\* a larger one; strided accesses of single bytes; a strided access of two
\* words, and a write to the second.
TwoGroups ==
  {{Bytes(op, r[1], r[2]) : op \in {"write_range", "read_range"}, r \in {<<0, 1>>, <<0, 2>>, <<1, 2>>}},
   {At("read_4b", 0), At("read_4b", 1), At("write_4b", 1), At("write_8b", 0), At("read_8b", 0)},
   {At("write_1b", 3), Strided("write_stride", 0, 2, 3, 1), Strided("read_stride", 0, 2, 3, 1)},
   {Strided("read_stride", 0, 1, 5, 4), At("write_8b", 2)}}

\* With two iterations of a worker in one group, which the final checkpoint ends
OneGroup ==
  {{At("read_1b", 0), At("write_1b", 0)},
   {At("read_2b", 1), At("write_2b", 1)},
   {At("read_4b", 0), At("write_4b", 0), At("read_8b", 0)},
   {Strided("read_stride", 1, 1, 4, 3), At("write_1b", 3)}}

MixedLoops == {Loop(b, 2, 4) : b \in TwoGroups} \cup {Loop(b, 4, 3) : b \in OneGroup}

\* State constraint: do not look beyond the first excuse, after which
\* LiveOutUnlessExcused claims nothing.
NotExcused == excused = {}
=============================================================================
