------------------------------ MODULE ByteSum ------------------------------
(***************************************************************************)
(* The number of bytes held in a queue of buffers.                         *)
(*                                                                         *)
(* Every transport keeps an atomic counter beside a deque of buffers       *)
(* (queue_bytes_ beside tx_, pending_bytes_ beside pending_).  The models  *)
(* compare the counter with the bytes that are really in the deque, which  *)
(* is the sum defined here.  SumSeq is a recursive function rather than a  *)
(* RECURSIVE operator, so that the lemmas about it can be proved.          *)
(***************************************************************************)
EXTENDS Integers, Sequences

\* The sum of a sequence of numbers.
PrefixSum(s) ==
  LET f[i \in 0..Len(s)] == IF i = 0 THEN 0 ELSE f[i-1] + s[i]
  IN  f

SumSeq(s) == PrefixSum(s)[Len(s)]

\* The bytes in a sequence of buffers, each a record with a size.
SizesOf(q) == [i \in 1..Len(q) |-> q[i].size]
Bytes(q) == SumSeq(SizesOf(q))
=============================================================================
