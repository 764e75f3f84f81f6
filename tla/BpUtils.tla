------------------------------ MODULE BpUtils ------------------------------
(***************************************************************************)
(* The arithmetic of backpressure that every transport shares:             *)
(* transport/base/bp_utils.hpp and the bounds each constructor derives     *)
(* from the configured high-water mark.                                    *)
(*                                                                         *)
(* These are the pure parts.  The loads, compare-exchanges and stores they *)
(* are made of in the code are steps of the transports' own modules,       *)
(* because another thread may run between any two of them.                 *)
(***************************************************************************)
EXTENDS Integers, Sequences, ByteSum

\* A release without the floor at zero.
MonusUnchecked(a, b) == a - b

\* release_reserved_write_bytes(): subtracts, but not below zero.
Monus(a, b) == IF a > b THEN a - b ELSE 0

AtMost(a, b) == IF a < b THEN a ELSE b

AtLeast(a, b) == IF a > b THEN a ELSE b

\* bp_limit_: four times the high-water mark, not below the default
\* threshold and not above the largest buffer.
LimitOf(high, default, maxBuffer) == AtMost(AtLeast(4 * high, default), maxBuffer)

\* bp_low_: half the high-water mark, and at least one byte.
LowOf(high) == AtLeast(IF high > 1 THEN high \div 2 ELSE high, 1)

\* The checks of one round of try_reserve_write_bytes, on the values of
\* queue_bytes_ and pending_bytes_ that the round has loaded.
ReserveFits(current, pending, bytes, high, limit) ==
  /\ current + bytes =< high
  /\ current + pending + bytes =< limit

\* The oldest buffers that one pass of maybe_flush_for_keep_latest removes:
\* the whole queue for a buffer that fills it alone, otherwise the front.
KeepLatestVictims(tx, added, high) ==
  IF added >= high THEN tx ELSE SubSeq(tx, 1, 1)

\* The trimming loop goes on while the new buffer does not fit.
KeepLatestMore(tx, queued, added, high) ==
  \/ added >= high
  \/ tx # <<>> /\ queued + added > high

\* How many buffers the whole of maybe_flush_for_keep_latest removes, when
\* nobody else changes the count meanwhile.
KeepLatestDrops(tx, queued, added, high) ==
  LET left(k) == Monus(queued, Bytes(SubSeq(tx, 1, k)))
  IN  IF added >= high THEN Len(tx)
      ELSE CHOOSE k \in 0..Len(tx) :
             /\ k = Len(tx) \/ left(k) + added =< high
             /\ \A j \in 0..(k-1) : left(j) + added > high
=============================================================================
