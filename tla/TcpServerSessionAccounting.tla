-------------------- MODULE TcpServerSessionAccounting --------------------
(***************************************************************************)
(* The byte counters of a session tell the truth about its deques.         *)
(*                                                                         *)
(* Held is a sum of sums: over the buffers of tx_ and of the write in      *)
(* flight, over the user threads that have reserved, and over the handlers *)
(* that are queued.  The lemmas say by how much each step moves each part, *)
(* and the theorem that queue_bytes_ moves by the same amount.             *)
(***************************************************************************)
EXTENDS TcpServerSessionProofs, SequenceTheorems

\* What the reservations of the threads and of the queued handlers are.
LEMMA ReservedType ==
  ASSUME TypeOK
  PROVE  /\ ReservedByThreads \in Nat /\ ReservedOnStrand \in Nat
         /\ [t \in 1..NThreads |-> ReservedBy(t)] \in Seq(Nat)
         /\ [i \in 1..Len(strandQ) |-> ReservedIn(strandQ[i])] \in Seq(Nat)
<1>1. ASSUME NEW t \in 1..NThreads PROVE ReservedBy(t) \in Nat
  BY DEF TypeOK, Threads, Calls, Messages, ReservedBy
<1>2. ASSUME NEW i \in 1..Len(strandQ) PROVE ReservedIn(strandQ[i]) \in Nat
  <2>1. strandQ[i] \in Handlers
    BY DEF TypeOK
  <2> QED BY <2>1 DEF Handlers, Messages, ReservedIn
<1>3. [t \in 1..NThreads |-> ReservedBy(t)] \in Seq(Nat)
  BY <1>1, BoundsType
<1>4. Len(strandQ) \in Nat
  BY DEF TypeOK
<1>5. [i \in 1..Len(strandQ) |-> ReservedIn(strandQ[i])] \in Seq(Nat)
  BY <1>2, <1>4
<1> QED
  BY <1>3, <1>5, SumNat DEF ReservedByThreads, ReservedOnStrand

\* A thread that moves on changes the threads' reservations by its own.
LEMMA ThreadReserved ==
  ASSUME TypeOK, TypeOK', NEW t \in Threads,
         \A u \in Threads : u # t => th'[u] = th[u]
  PROVE  ReservedByThreads' = ReservedByThreads - ReservedBy(t) + ReservedBy(t)'
<1> DEFINE s == [u \in 1..NThreads |-> ReservedBy(u)]
           r == [u \in 1..NThreads |-> ReservedBy(u)']
<1>1. s \in Seq(Nat) /\ Len(s) = NThreads
  BY ReservedType, BoundsType
<1>2. ASSUME NEW u \in 1..NThreads PROVE ReservedBy(u)' \in Nat
  BY DEF TypeOK, Threads, Calls, Messages, ReservedBy
<1>3. r \in Seq(Nat) /\ Len(r) = NThreads
  BY <1>2, BoundsType
<1>4. s \in Seq(Int) /\ r \in Seq(Int)
  BY <1>1, <1>3
<1>5. t \in 1..NThreads /\ s[t] = ReservedBy(t) /\ r[t] = ReservedBy(t)'
  BY DEF Threads
<1>6. \A u \in 1..NThreads : u # t => r[u] = s[u]
  BY DEF Threads, ReservedBy
<1>7. ReservedByThreads' = SumSeq(r) /\ ReservedByThreads = SumSeq(s)
  BY DEF ReservedByThreads
<1> HIDE DEF s, r
<1>8. SumSeq(r) = SumSeq(s) - s[t] + r[t]
  BY <1>1, <1>3, <1>4, <1>5, <1>6, SumChange
<1> QED
  BY <1>5, <1>7, <1>8

\* Threads that stay where they are keep their reservations.
LEMMA SameThreads ==
  ASSUME UNCHANGED th
  PROVE  ReservedByThreads' = ReservedByThreads
BY DEF ReservedByThreads, ReservedBy

\* Posting a handler adds what it reserves.
LEMMA PostReserved ==
  ASSUME TypeOK, TypeOK', NEW h, Post(h)
  PROVE  ReservedOnStrand' = ReservedOnStrand + ReservedIn(h)
<1> DEFINE s == [i \in 1..Len(strandQ) |-> ReservedIn(strandQ[i])]
           r == [i \in 1..Len(strandQ') |-> ReservedIn(strandQ'[i])]
<1>1. s \in Seq(Nat) /\ Len(strandQ) \in Nat /\ Len(strandQ') = Len(strandQ) + 1
  BY ReservedType, PostEntries
<1>2. \A i \in 1..Len(strandQ) : strandQ'[i] = strandQ[i]
  BY PostEntries
<1>3. strandQ'[Len(strandQ) + 1] = h /\ h \in Handlers
  <2>1. strandQ' \in Seq(Handlers) /\ Len(strandQ) + 1 \in 1..Len(strandQ')
    BY <1>1 DEF TypeOK
  <2> QED BY <2>1, PostEntries
<1>4. ReservedIn(h) \in Nat
  BY <1>3 DEF Handlers, Messages, ReservedIn
<1>5. Len(s) = Len(strandQ) /\ \A i \in 1..Len(s) : s[i] = ReservedIn(strandQ[i])
  BY <1>1
<1>6. \A i \in 1..Len(strandQ') : strandQ'[i] \in Handlers
  BY DEF TypeOK
<1>7. \A i \in 1..Len(strandQ') : ReservedIn(strandQ'[i]) \in Int
  BY <1>6 DEF Handlers, Messages, ReservedIn
<1>8. r \in Seq(Int) /\ Len(r) = Len(s) + 1
  BY <1>1, <1>5, <1>7
<1>9. \A i \in 1..Len(s) : r[i] = s[i]
  BY <1>1, <1>2, <1>5
<1>10. r[Len(r)] = ReservedIn(h)
  BY <1>1, <1>3, <1>5, <1>8
<1>11. ReservedOnStrand' = SumSeq(r) /\ ReservedOnStrand = SumSeq(s) /\ s \in Seq(Int)
  BY <1>1 DEF ReservedOnStrand
<1> HIDE DEF s, r
<1>12. SumSeq(r) = SumSeq(s) + r[Len(r)]
  BY <1>8, <1>9, <1>11, SumExtend
<1> QED
  BY <1>10, <1>11, <1>12

\* Taking a handler removes what it has reserved.
LEMMA TakeReserved ==
  ASSUME TypeOK, NEW kind, Take(kind)
  PROVE  /\ ReservedOnStrand' = ReservedOnStrand - ReservedIn(Head(strandQ))
         /\ ReservedIn(Head(strandQ)) \in Nat
         /\ ReservedIn(Head(strandQ)) =< ReservedOnStrand
<1> DEFINE s == [i \in 1..Len(strandQ) |-> ReservedIn(strandQ[i])]
           r == [i \in 1..Len(strandQ') |-> ReservedIn(strandQ'[i])]
<1>1. s \in Seq(Nat) /\ Len(strandQ) \in Nat \ {0} /\ Len(strandQ') = Len(strandQ) - 1
  BY ReservedType, TakeEntries
<1>2. \A i \in 1..Len(strandQ') : strandQ'[i] = strandQ[i + 1]
  BY TakeEntries
<1>3. strandQ[1] = Head(strandQ) /\ 1 \in 1..Len(s)
  BY <1>1, TakeEntries
<1>4. /\ Len(s) = Len(strandQ) /\ Len(r) = Len(strandQ') /\ Len(s) = Len(r) + 1
      /\ s[1] = ReservedIn(Head(strandQ))
  BY <1>1, <1>3
<1>5. ASSUME NEW i \in 1..Len(r) PROVE r[i] = s[i + 1] /\ r[i] \in Int
  <2>1. i \in 1..Len(strandQ') /\ i + 1 \in 1..Len(s)
    BY <1>1, <1>4
  <2>2. r[i] = s[i + 1]
    BY <1>2, <1>4, <2>1
  <2>3. s[i + 1] \in Nat
    BY <1>1, <2>1
  <2> QED BY <2>2, <2>3
<1>6. r \in Seq(Int) /\ s \in Seq(Int)
  <2>1. \A i \in 1..Len(strandQ') : ReservedIn(strandQ'[i]) \in Int
    BY <1>4, <1>5
  <2> QED BY <1>1, <2>1
<1>7. ReservedOnStrand' = SumSeq(r) /\ ReservedOnStrand = SumSeq(s)
  BY DEF ReservedOnStrand
<1> HIDE DEF s, r
<1>8. SumSeq(s) = s[1] + SumSeq(r)
  BY <1>4, <1>5, <1>6, SumDrop
<1>9. s[1] \in Nat /\ s[1] =< SumSeq(s) /\ SumSeq(s) \in Nat
  BY <1>1, <1>3, SumNat
<1>10. SumSeq(r) \in Int
  BY <1>6, SumType
<1> QED
  BY <1>4, <1>7, <1>8, <1>9, <1>10

\* Every part of Held is a natural number.
LEMMA HeldType ==
  ASSUME TypeOK, InFlight
  PROVE  /\ Bytes(cur) \in Nat /\ Bytes(tx) \in Nat /\ Bytes(pending) \in Nat
         /\ ReservedByThreads \in Nat /\ ReservedOnStrand \in Nat /\ Reserved \in Nat
         /\ Unsent \in Nat /\ Held \in Nat
         /\ queue_bytes \in Nat /\ pending_bytes \in Nat /\ strand.q \in Nat
         /\ strand.msg \in Messages /\ strand.msg.size \in Nat /\ strand.n \in Nat
<1>1. /\ tx \in Seq(Messages) /\ cur \in Seq(Messages) /\ pending \in Seq(Messages)
      /\ queue_bytes \in Nat /\ pending_bytes \in Nat /\ strand \in Running
  BY DEF TypeOK
<1>2. Bytes(cur) \in Nat /\ Bytes(tx) \in Nat /\ Bytes(pending) \in Nat
  BY <1>1, BytesType, RecordTypes
<1>3. /\ strand.q \in Nat /\ strand.msg \in Messages /\ strand.msg.size \in Nat
      /\ strand.n \in Nat
  BY <1>1 DEF Running, Messages
<1>4. Unsent \in Nat
  BY <1>3 DEF Unsent, InFlight
<1>5. ReservedByThreads \in Nat /\ ReservedOnStrand \in Nat
  BY ReservedType
<1>6. Reserved \in Nat
  BY <1>5 DEF Reserved
<1>7. Held \in Nat
  BY <1>2, <1>4, <1>6 DEF Held
<1> QED
  BY <1>1, <1>2, <1>3, <1>4, <1>5, <1>6, <1>7

\* What each step is shown to do: it keeps the invariant, and it loses from the
\* count only what it overwrites.
Kept == Counted' /\ KeepsCount

\* What a step may lose is never negative.
LEMMA OverwrittenType ==
  ASSUME Bounded, Counted
  PROVE  Overwritten \in Nat
<1>1. queue_bytes \in Nat /\ strand.q \in Nat /\ strand.n \in Nat
  BY HeldType DEF Bounded
<1>2. CASE strand.pc = "store"
  <2>1. strand.q =< queue_bytes
    BY <1>2 DEF Counted
  <2> QED BY <1>1, <1>2, <2>1 DEF Overwritten
<1>3. CASE strand.pc = "zero"
  BY <1>1, <1>3 DEF Overwritten, Monus
<1>4. CASE strand.pc \notin {"store", "zero"}
  BY <1>4 DEF Overwritten
<1> QED
  BY <1>2, <1>3, <1>4

\* A step that moves the count and what is held by the same amount, or the
\* count by less, loses nothing.
LEMMA NothingLost ==
  ASSUME Bounded, Counted, Held' \in Int, queue_bytes' \in Int,
         Held' - Held =< queue_bytes' - queue_bytes
  PROVE  KeepsCount
<1>1. Overwritten \in Nat /\ Held \in Nat /\ queue_bytes \in Nat
  BY OverwrittenType, HeldType DEF Bounded
<1>2. ASSUME NEW h \in Int, NEW q \in Int, NEW old \in Nat, NEW count \in Nat,
             NEW more \in Nat, h - old =< q - count
      PROVE  h - q =< (old - count) + more
  BY <1>2
<1>3. Held' - queue_bytes' =< (Held - queue_bytes) + Overwritten
  BY <1>1, <1>2, Zenon
<1> QED
  BY <1>3 DEF KeepsCount, Uncounted

\* So does one that moves neither.
LEMMA NothingMoved ==
  ASSUME Bounded, Counted, Held' = Held, queue_bytes' = queue_bytes
  PROVE  KeepsCount
<1>1. Held \in Nat /\ queue_bytes \in Nat
  BY HeldType DEF Bounded
<1> QED
  BY <1>1, NothingLost

\* A step that adds as much to queue_bytes_ as to what the session holds.
LEMMA Balanced ==
  ASSUME Bounded, Bounded', Counted, NEW d \in Nat,
         queue_bytes' = queue_bytes + d, Held' = Held + d,
         (pending_bytes + Moving)' = Bytes(pending)', closing => closing',
         cleanup_done' => cleanup_done /\ Reserved' = Reserved + d,
         strand'.pc = "store" =>
           (strand.pc = "store" /\ strand'.q = strand.q) \/ strand'.q = queue_bytes,
         strand'.pc = "zero" => strand.pc = "zero" \/ Strategy = "BestEffort"
  PROVE  Kept
<1>1. Held \in Nat /\ Reserved \in Nat /\ queue_bytes \in Nat /\ strand.q \in Nat
  BY HeldType DEF Bounded
<1>2. ~closing' => queue_bytes' =< Held'
  BY <1>1 DEF Counted, Accounting, Moving
<1>3. ~closing' /\ Strategy = "Reliable" => queue_bytes' = Held'
  BY <1>1 DEF Counted, Accounting, Moving
<1>4. cleanup_done' => queue_bytes' =< Reserved'
  BY <1>1 DEF Counted, Accounting, Moving
<1>5. strand'.pc = "store" /\ ~closing' => strand'.q =< Held'
  BY <1>1 DEF Counted, Accounting, Moving
<1>6. strand'.pc = "store" => strand'.q =< queue_bytes'
  BY <1>1 DEF Counted
<1>7. KeepsCount
  BY <1>1, NothingLost
<1> QED
  BY <1>2, <1>3, <1>4, <1>5, <1>6, <1>7 DEF Kept, Counted, Accounting, Moving

\* A step that releases bytes, from queue_bytes_ as far as it goes.
LEMMA Released ==
  ASSUME Bounded, Bounded', Counted, NEW d \in Nat,
         queue_bytes' = Monus(queue_bytes, d), Held' = Held - d, d =< Held,
         (pending_bytes + Moving)' = Bytes(pending)', closing => closing',
         cleanup_done' => cleanup_done /\ Reserved' = Reserved - d /\ d =< Reserved,
         strand'.pc \notin {"store", "zero"}
  PROVE  Kept
<1>1. Held \in Nat /\ Reserved \in Nat /\ queue_bytes \in Nat
  BY HeldType DEF Bounded
<1>2. ~closing' => queue_bytes' =< Held'
  BY <1>1 DEF Counted, Accounting, Moving, Monus
<1>3. ~closing' /\ Strategy = "Reliable" => queue_bytes' = Held'
  BY <1>1 DEF Counted, Accounting, Moving, Monus
<1>4. cleanup_done' => queue_bytes' =< Reserved'
  BY <1>1 DEF Counted, Accounting, Moving, Monus
<1>5. KeepsCount
  <2>1. queue_bytes' \in Int /\ Held' \in Int /\ Held' - Held =< queue_bytes' - queue_bytes
    BY <1>1 DEF Monus
  <2> QED BY <2>1, NothingLost
<1> QED
  BY <1>2, <1>3, <1>4, <1>5 DEF Kept, Counted, Accounting, Moving

\* One step of a user thread.
LEMMA CountedUser ==
  ASSUME Bounded, Bounded', Counted, NEW t \in Threads, User(t)
  PROVE  Kept
<1> USE DEF Bounded
<1>a. TypeOK /\ TypeOK' /\ InFlight /\ Calling /\ th \in [Threads -> Calls]
  BY DEF TypeOK
<1>b. pending_bytes + Moving = Bytes(pending)
  BY DEF Counted, Accounting, Moving
<1>c. Bytes(cur) \in Nat /\ Bytes(tx) \in Nat /\ ReservedByThreads \in Nat
      /\ ReservedOnStrand \in Nat /\ Unsent \in Nat /\ Reserved \in Nat
  BY <1>a, HeldType
<1>d. ReservedBy(t) \in Nat /\ th[t].msg.size \in Nat
  BY <1>a DEF ReservedBy, Calls, Messages
<1> HIDE DEF Bounded
<1>1. ASSUME UNCHANGED <<flags, queues, io, strandQ, strand>>,
             \A u \in Threads : u # t => th'[u] = th[u],
             ReservedBy(t) = 0, ReservedBy(t)' = 0
      PROVE  Kept
  <2>1. ReservedByThreads' = ReservedByThreads
    BY <1>1, <1>a, <1>c, ThreadReserved
  <2>2. ReservedOnStrand' = ReservedOnStrand
    BY <1>1 DEF ReservedOnStrand
  <2>3. Held' = Held /\ Reserved' = Reserved
    BY <1>1, <2>1, <2>2 DEF Held, Reserved, Unsent, OnWrite, queues
  <2>4. queue_bytes' = queue_bytes /\ (pending_bytes + Moving)' = Bytes(pending)' /\ closing' = closing
        /\ cleanup_done' = cleanup_done /\ strand' = strand
    BY <1>1, <1>b DEF flags, queues, Moving
  <2>5. KeepsCount
    BY <2>3, <2>4, NothingMoved
  <2> QED BY <2>3, <2>4, <2>5 DEF Kept, Counted, Accounting, Moving
<1>2. ASSUME NEW n \in Sizes, Call(t, "load", "write", n) PROVE Kept
  BY <1>1, <1>2, <1>a DEF Call, ReservedBy, Resting
<1>3. ASSUME NEW n \in Sizes, Call(t, "check", "try", n) PROVE Kept
  BY <1>1, <1>3, <1>a DEF Call, ReservedBy, Resting
<1>9. CASE WriteLoad(t)
  BY <1>1, <1>9, <1>a DEF WriteLoad, ReservedBy, Calls
<1>10. CASE TryCheck(t)
  BY <1>1, <1>10, <1>a DEF TryCheck, ReservedBy, Resting, Calls
<1>4. CASE WriteRoom(t)
  <2>1. th[t].msg.op = "write" /\ th[t].pc = "room"
    BY <1>4, <1>a DEF WriteRoom, Calling
  <2>2. ReservedBy(t) = 0
    BY <2>1 DEF ReservedBy
  <2>3. th'[t].pc = "post" => th'[t].msg.op = "write"
    BY <1>4, <1>a, <2>1 DEF WriteRoom, Calls, Resting
  <2>4. ReservedBy(t)' = 0
    BY <2>3 DEF ReservedBy
  <2> QED BY <1>1, <1>4, <1>a, <2>2, <2>4 DEF WriteRoom
<1>5. CASE ReserveLoad(t)
  BY <1>1, <1>5, <1>a DEF ReserveLoad, ReservedBy, Resting, Calls
<1>6. CASE ReserveRetry(t)
  BY <1>1, <1>6, <1>a DEF ReserveRetry, ReservedBy, Calls
<1>7. CASE ReserveExchange(t)
  <2> DEFINE d == th[t].msg.size
  <2>1. ReservedBy(t) = 0 /\ ReservedBy(t)' = d
    <3>1. th[t].pc = "exchange" /\ th[t].msg.op = "try"
      BY <1>7, <1>a DEF ReserveExchange, Calling
    <3>2. th'[t].pc = "post" /\ th'[t].msg = th[t].msg
      BY <1>7, <1>a DEF ReserveExchange, Calls
    <3> QED BY <3>1, <3>2 DEF ReservedBy
  <2>2. /\ UNCHANGED <<cur, tx, pending, pending_bytes, strandQ, strand, closing, cleanup_done>>
        /\ queue_bytes' = queue_bytes + d
        /\ \A u \in Threads : u # t => th'[u] = th[u]
    BY <1>7, <1>a DEF ReserveExchange, flags
  <2> HIDE DEF d
  <2>3. ReservedByThreads' = ReservedByThreads + d
    BY <2>1, <2>2, <1>a, <1>c, <1>d, ThreadReserved DEF d
  <2>4. ReservedOnStrand' = ReservedOnStrand /\ Unsent' = Unsent
    BY <2>2 DEF ReservedOnStrand, Unsent, OnWrite
  <2>5. d \in Nat
    BY <1>d DEF d
  <2>6. Reserved' = Reserved + d
    BY <2>3, <2>4, <2>5, <1>c DEF Reserved
  <2>7. Held' = Held + d
    BY <2>2, <2>4, <2>5, <2>6, <1>c DEF Held
  <2>8. (pending_bytes + Moving)' = Bytes(pending)'
    BY <2>2, <1>b DEF Moving
  <2> QED BY <2>2, <2>5, <2>6, <2>7, <2>8, Balanced
<1>8. CASE PostWrite(t)
  <2> DEFINE h == Handler(th[t].msg.op, [th[t].msg EXCEPT !.id = nextId], 0, TRUE)
  <2>1. /\ UNCHANGED <<queues, strand, flags>> /\ Post(h) /\ th[t].pc = "post"
        /\ ReservedBy(t)' = 0
        /\ \A u \in Threads : u # t => th'[u] = th[u]
    BY <1>8, <1>a DEF PostWrite, Resting, ReservedBy
  <2>2. ReservedIn(h) = ReservedBy(t)
    BY <2>1, <1>a DEF ReservedIn, ReservedBy, Handler, Calls, Messages
  <2> HIDE DEF h
  <2>3. ReservedByThreads' = ReservedByThreads - ReservedBy(t)
    BY <2>1, <1>a, <1>c, <1>d, ThreadReserved
  <2>4. ReservedOnStrand' = ReservedOnStrand + ReservedBy(t)
    BY <2>1, <2>2, <1>a, PostReserved
  <2>5. Reserved' = Reserved
    BY <2>3, <2>4, <1>c, <1>d DEF Reserved
  <2>6. Held' = Held
    BY <2>1, <2>5 DEF Held, Unsent, OnWrite, queues
  <2>7. KeepsCount
    BY <2>1, <2>6, NothingMoved DEF queues
  <2> QED BY <2>1, <2>5, <2>6, <2>7 DEF Kept, Counted, Accounting, Moving, queues, flags
<1> QED
  BY <1>2, <1>3, <1>4, <1>5, <1>6, <1>7, <1>8, <1>9, <1>10
     DEF User, AsyncWriteCopy, AsyncWriteMove, AsyncWriteShared, AsyncTryWriteMove,
         AsyncTryWriteShared

\* One step from outside: what is posted reserves nothing.
LEMMA CountedEnvironment ==
  ASSUME Bounded, Bounded', Counted, Environment
  PROVE  Kept
<1>1. ASSUME NEW h, Post(h), h.kind # "try", UNCHANGED <<queues, strand, th, cleanup_done>>,
             closing => closing'
      PROVE  Kept
  <2>1. ReservedIn(h) = 0 /\ TypeOK /\ TypeOK'
    BY <1>1 DEF ReservedIn, Bounded
  <2>2. ReservedOnStrand' = ReservedOnStrand
    BY <1>1, <2>1, PostReserved, ReservedType
  <2>3. ReservedByThreads' = ReservedByThreads
    BY <1>1, SameThreads
  <2>4. Held' = Held /\ Reserved' = Reserved
    BY <1>1, <2>2, <2>3 DEF Held, Reserved, Unsent, OnWrite, queues
  <2>5. KeepsCount
    BY <1>1, <2>4, NothingMoved DEF queues
  <2> QED BY <1>1, <2>4, <2>5 DEF Kept, Counted, Accounting, Moving, queues
<1>2. CASE Register
  BY <1>1, <1>2 DEF Register, Handler, flags
<1>3. CASE Start
  BY <1>1, <1>3 DEF Start, Handler, flags
<1>4. CASE Stop
  BY <1>1, <1>4 DEF Stop, Handler, flags
<1>5. CASE Cancel
  BY <1>1, <1>5 DEF Cancel, Handler, flags
<1>6. ASSUME NEW ok \in BOOLEAN, ReadCompletes(ok) PROVE Kept
  BY <1>1, <1>6 DEF ReadCompletes, Handler, flags
<1>7. ASSUME NEW n \in 0..MaxBuffer, WriteCompletes(n) PROVE Kept
  BY <1>1, <1>7 DEF WriteCompletes, Handler, flags
<1>8. CASE IdleExpires
  BY <1>1, <1>8 DEF IdleExpires, Handler, flags
<1> QED
  BY <1>2, <1>3, <1>4, <1>5, <1>6, <1>7, <1>8 DEF Environment

\* do_write() moves the front buffer from tx_ to the write in flight.
LEMMA DoWriteBytes ==
  ASSUME TypeOK, cur = <<>>, DoWrite
  PROVE  Bytes(cur)' + Bytes(tx)' = Bytes(cur) + Bytes(tx)
<1>1. tx \in Seq(Messages) /\ Sized(Messages) /\ Bytes(cur) = 0
  BY RecordTypes, BytesEmpty DEF TypeOK
<1>2. CASE tx = <<>>
  BY <1>2 DEF DoWrite
<1>3. CASE tx # <<>>
  <2>1. cur' = <<Head(tx)>> /\ tx' = Tail(tx)
    BY <1>3 DEF DoWrite
  <2>2. Head(tx) \in Messages /\ Tail(tx) \in Seq(Messages)
        /\ Bytes(tx) = Head(tx).size + Bytes(Tail(tx))
    BY <1>1, <1>3, BytesTail
  <2>3. Bytes(<<Head(tx)>>) = Head(tx).size /\ Head(tx).size \in Nat
    BY <1>1, <2>2, BytesOne DEF Messages
  <2>4. Bytes(Tail(tx)) \in Nat
    BY <1>1, <2>2, BytesType
  <2> QED BY <1>1, <2>1, <2>2, <2>3, <2>4
<1> QED
  BY <1>2, <1>3

\* The front of a deque and what trimming leaves of it.
LEMMA VictimsBytes ==
  ASSUME NEW q \in Seq(Messages), NEW added
  PROVE  LET v == KeepLatestVictims(q, added, High)
             rest == SubSeq(q, Len(v) + 1, Len(q))
         IN  /\ Bytes(v) \in Nat /\ Bytes(rest) \in Nat
             /\ Bytes(q) = Bytes(v) + Bytes(rest)
<1> DEFINE v == KeepLatestVictims(q, added, High)
           rest == SubSeq(q, Len(v) + 1, Len(q))
<1>1. v \in Seq(Messages) /\ Len(v) \in Nat /\ Len(v) =< Len(q) /\ Sized(Messages)
  BY VictimsType, RecordTypes
<1>2. rest \in Seq(Messages)
  BY <1>1
<1>3. Bytes(v) \in Nat /\ Bytes(rest) \in Nat
  BY <1>1, <1>2, BytesType
<1>4. CASE added >= High
  <2>1. v = q
    BY <1>4 DEF KeepLatestVictims
  <2>2. rest = <<>>
    BY <2>1
  <2> HIDE DEF v, rest
  <2>3. Bytes(q) = Bytes(v) + Bytes(rest)
    BY <1>3, <2>1, <2>2, BytesEmpty
  <2> QED BY <1>3, <2>3 DEF v, rest
<1>5. CASE ~(added >= High) /\ q = <<>>
  <2>1. v = <<>>
    BY <1>5 DEF KeepLatestVictims
  <2>2. rest = <<>>
    BY <1>5, <2>1
  <2> HIDE DEF v, rest
  <2>3. Bytes(q) = Bytes(v) + Bytes(rest)
    BY <1>3, <1>5, <2>1, <2>2, BytesEmpty
  <2> QED BY <1>3, <2>3 DEF v, rest
<1>6. CASE ~(added >= High) /\ q # <<>>
  <2>1. v = SubSeq(q, 1, 1)
    BY <1>6 DEF KeepLatestVictims
  <2>2. Len(q) \in Nat /\ Len(q) >= 1
    BY <1>6
  <2>3. Len(v) = 1 /\ v[1] = q[1] /\ v # <<>> /\ q[1] = Head(q)
    BY <2>1, <2>2
  <2>4. rest = Tail(q)
    BY <1>6, <2>3, TailIsSubSeq
  <2> HIDE DEF v, rest
  <2>5. v = <<Head(q)>>
    BY <1>1, <2>3, OnlyOne
  <2>6. Head(q) \in Messages /\ Bytes(q) = Head(q).size + Bytes(Tail(q))
    BY <1>1, <1>6, BytesTail
  <2>7. Bytes(<<Head(q)>>) = Head(q).size
    BY <1>1, <2>6, BytesOne
  <2>8. Bytes(q) = Bytes(v) + Bytes(rest)
    BY <2>4, <2>5, <2>6, <2>7
  <2> QED BY <1>3, <2>8 DEF v, rest
<1> QED
  BY <1>4, <1>5, <1>6

\* do_close() leaves nothing counted, whatever is still reserved.
LEMMA CountedClose ==
  ASSUME Bounded, Bounded', Counted, NEW cbs, DoClose(cbs), Reserved' = Reserved,
         strand'.pc = "idle"
  PROVE  Kept
<1>1. CASE cleanup_done
  <2>1. /\ closing /\ UNCHANGED <<closing, cleanup_done, queue_bytes, pending_bytes, pending>>
        /\ strand.pc = "idle"
    BY <1>1 DEF DoClose, Bounded, Closed, flags, queues
  <2> QED BY <1>1, <2>1 DEF Kept, KeepsCount, Counted, Accounting, Moving
<1>2. CASE ~cleanup_done
  <2>1. /\ closing' = TRUE /\ queue_bytes' = 0 /\ pending_bytes' = 0 /\ pending' = <<>>
    BY <1>2 DEF DoClose, DropQueues, ReportClose
  <2>2. Reserved \in Nat
    BY HeldType DEF Bounded
  <2>3. 0 =< Reserved'
    BY <2>2
  <2> QED BY <2>1, <2>3, BytesEmpty DEF Kept, KeepsCount, Counted, Accounting, Moving
<1> QED
  BY <1>1, <1>2

\* One step of a handler.
LEMMA CountedStrand ==
  ASSUME Bounded, Bounded', Counted, Strand
  PROVE  Kept
<1>a. TypeOK /\ TypeOK' /\ InFlight /\ InFlight' /\ Sized(Messages)
  BY RecordTypes DEF Bounded
<1>b. pending_bytes + Moving = Bytes(pending)
  BY DEF Counted, Accounting, Moving
<1>c. /\ Bytes(cur) \in Nat /\ Bytes(tx) \in Nat /\ Bytes(pending) \in Nat
      /\ ReservedByThreads \in Nat /\ ReservedOnStrand \in Nat /\ Unsent \in Nat
      /\ Reserved \in Nat /\ Held \in Nat
      /\ queue_bytes \in Nat /\ pending_bytes \in Nat /\ strand.q \in Nat
      /\ strand.msg \in Messages /\ strand.msg.size \in Nat /\ strand.n \in Nat
  BY <1>a, HeldType
<1>s. /\ Returns /\ Returns'
      /\ strand.pc \notin {"zero", "wrote", "flush", "again", "finish"} => ~OnWrite
      /\ strand'.pc \notin {"zero", "wrote", "flush", "again", "finish"} => ~OnWrite'
      /\ strand.pc \in {"zero", "wrote", "finish"} => OnWrite
      /\ strand'.pc \in {"zero", "wrote", "finish"} => OnWrite'
  BY DEF Bounded, Returns
<1>d. ASSUME UNCHANGED <<th, strandQ>> PROVE Reserved' = Reserved
  BY <1>d, SameThreads DEF Reserved, ReservedOnStrand
<1>e. ASSUME NEW kind, Take(kind), kind # "try", UNCHANGED th PROVE Reserved' = Reserved
  <2>1. Head(strandQ).kind = kind
    BY <1>e, <1>a, TakeType
  <2>2. ReservedIn(Head(strandQ)) = 0
    BY <1>e, <2>1 DEF ReservedIn
  <2>3. ReservedOnStrand' = ReservedOnStrand
    BY <1>e, <1>a, <1>c, <2>2, TakeReserved
  <2> QED BY <1>e, <2>3, SameThreads DEF Reserved
<1>m. ASSUME strand.pc # "flush", strand'.pc # "flush", UNCHANGED <<pending, pending_bytes>>
      PROVE  (pending_bytes + Moving)' = Bytes(pending)'
  BY <1>m, <1>b DEF Moving
<1>f. ASSUME NEW kind, Take(kind), kind # "try", UNCHANGED <<th, strand, queues>>,
             UNCHANGED <<closing, cleanup_done>>
      PROVE  Kept
  <2>1. Reserved' = Reserved
    BY <1>e, <1>f
  <2>2. Held' = Held
    BY <1>f, <2>1 DEF Held, Unsent, OnWrite, queues
  <2>3. KeepsCount
    BY <1>f, <2>2, NothingMoved DEF queues
  <2> QED BY <1>f, <2>1, <2>2, <2>3 DEF Kept, Counted, Accounting, Moving, queues
<1>g. ASSUME NEW kind, Take(kind), kind # "try", UNCHANGED <<th, strand>>, NEW cbs, DoClose(cbs)
      PROVE  Kept
  BY <1>e, <1>g, CountedClose DEF Take
<1>1. CASE RunRegister
  BY <1>1, <1>f DEF RunRegister
<1>2. CASE RunStart
  BY <1>2, <1>f DEF RunStart, flags
<1>3. CASE RunStop
  BY <1>3, <1>f, <1>g DEF RunStop, flags
<1>4. CASE RunCancel
  BY <1>4, <1>f DEF RunCancel, flags
<1>5. CASE RunRead
  BY <1>5, <1>f, <1>g DEF RunRead, flags
<1>6. CASE RunIdle
  BY <1>6, <1>f, <1>g DEF RunIdle, flags
<1>7. CASE RunWrite
  <2> DEFINE m == Head(strandQ).msg
  <2>1. /\ Take("write") /\ UNCHANGED <<th, cur, tx, closing, cleanup_done, queue_bytes>>
    BY <1>7 DEF RunWrite, MustPark, NoRoomToPark, flags
  <2>2. m \in Messages /\ m.size \in Nat /\ strand.pc = "idle"
    BY <2>1, <1>a, TakeType DEF Messages, Take
  <2>3. Reserved' = Reserved
    BY <2>1, <1>e
  <2> HIDE DEF m
  <2>4. \/ pending' = pending /\ pending_bytes' = pending_bytes
        \/ pending' = Append(pending, m) /\ pending_bytes' = pending_bytes + m.size
    BY <1>7, <1>c DEF RunWrite, MustPark, NoRoomToPark, m
  <2>6. strand'.pc \in {"idle", "trim", "check"}
    BY <1>7, <2>2 DEF RunWrite, MustPark, NoRoomToPark, Idle
  <2>5. (pending_bytes + Moving)' = Bytes(pending)'
    <3>1. pending \in Seq(Messages)
      BY <1>a DEF TypeOK
    <3>2. Bytes(Append(pending, m)) = Bytes(pending) + m.size
      BY <1>a, <2>2, <3>1, BytesAppend
    <3>3. pending_bytes = Bytes(pending) /\ Moving' = 0
      BY <1>b, <1>c, <2>2, <2>6 DEF Moving
    <3>4. CASE pending' = pending /\ pending_bytes' = pending_bytes
      BY <3>3, <3>4, <1>c
    <3>5. CASE pending' = Append(pending, m) /\ pending_bytes' = pending_bytes + m.size
      <4>1. Bytes(pending') = Bytes(pending) + m.size
        BY <3>2, <3>5
      <4>2. pending_bytes' + 0 = Bytes(pending')
        BY <2>2, <3>3, <3>5, <4>1, <1>c
      <4> QED BY <3>3, <4>2
    <3> QED BY <2>4, <3>4, <3>5
  <2>7. Unsent' = 0 /\ Unsent = 0
    BY <2>2, <2>6, <1>s DEF Unsent
  <2>8. Held' = Held
    BY <2>1, <2>3, <2>7 DEF Held
  <2>9. KeepsCount
    BY <2>1, <2>8, NothingMoved
  <2> QED BY <2>1, <2>3, <2>5, <2>6, <2>8, <2>9 DEF Kept, Counted, Accounting, Moving
<1>8. CASE TrimLoad
  <2>1. /\ UNCHANGED <<queues, closing, cleanup_done, th, strandQ>> /\ strand.pc = "trim"
        /\ strand'.pc \in {"store", "check"} /\ (strand'.pc = "store" => strand'.q = queue_bytes)
    BY <1>8, <1>a DEF TrimLoad, TypeOK, Running, flags
  <2>2. Unsent' = 0 /\ Unsent = 0 /\ Reserved' = Reserved
    BY <2>1, <1>d, <1>s DEF Unsent
  <2>3. Held' = Held
    BY <2>1, <2>2 DEF Held, queues
  <2>4. KeepsCount
    BY <2>1, <2>3, NothingMoved DEF queues
  <2> QED BY <2>1, <2>2, <2>3, <2>4, <1>c DEF Kept, Counted, Accounting, Moving, queues
<1>9. CASE TrimStore
  <2> DEFINE v == KeepLatestVictims(tx, strand.msg.size, High)
             rest == SubSeq(tx, Len(v) + 1, Len(tx))
  <2>1. /\ UNCHANGED <<cur, pending, pending_bytes, closing, cleanup_done, th, strandQ>>
        /\ strand.pc = "store" /\ strand'.pc \in {"trim", "check"}
        /\ queue_bytes' = Monus(strand.q, Bytes(v)) /\ tx' = rest
    BY <1>9, <1>a DEF TrimStore, TypeOK, Running, flags
  <2>2. tx \in Seq(Messages)
    BY <1>a DEF TypeOK
  <2>3. Bytes(v) \in Nat /\ Bytes(rest) \in Nat /\ Bytes(tx) = Bytes(v) + Bytes(rest)
    BY <2>2, VictimsBytes
  <2> HIDE DEF v, rest
  <2>4. Unsent' = 0 /\ Unsent = 0 /\ Reserved' = Reserved
    BY <2>1, <1>d, <1>s DEF Unsent
  <2>5. Held' = Held - Bytes(v) /\ Bytes(v) =< Held
    BY <2>1, <2>3, <2>4, <1>c DEF Held
  <2>6. ~closing' => queue_bytes' =< Held'
    <3>1. ~closing => strand.q =< Held
      BY <2>1 DEF Counted
    <3> QED BY <2>1, <2>3, <2>5, <3>1, <1>c DEF Monus
  <2>7. Strategy = "BestEffort" /\ ~cleanup_done
    BY <2>1 DEF Bounded, Handling, Closed
  <2>8. KeepsCount
    <3>1. Overwritten = queue_bytes - strand.q
      BY <2>1 DEF Overwritten
    <3>2. Held' - queue_bytes' =< Held - queue_bytes + (queue_bytes - strand.q)
      BY <2>1, <2>3, <2>5, <1>c DEF Monus
    <3> QED BY <3>1, <3>2 DEF KeepsCount, Uncounted
  <2> QED BY <2>1, <2>6, <2>7, <2>8, <1>b DEF Kept, Counted, Accounting, Moving
<1>10. CASE CheckLimit
  <2>1. /\ UNCHANGED <<queues, closing, cleanup_done, th, strandQ>> /\ strand.pc = "check"
        /\ strand'.pc \in {"over", "enqueue"}
    BY <1>10, <1>a DEF CheckLimit, TypeOK, Running, flags
  <2>2. Unsent' = 0 /\ Unsent = 0 /\ Reserved' = Reserved
    BY <2>1, <1>d, <1>s DEF Unsent
  <2>3. Held' = Held
    BY <2>1, <2>2 DEF Held, queues
  <2>4. KeepsCount
    BY <2>1, <2>3, NothingMoved DEF queues
  <2> QED BY <2>1, <2>2, <2>3, <2>4, <1>c DEF Kept, Counted, Accounting, Moving, queues
<1>11. CASE Enqueue
  <2> DEFINE d == strand.msg.size
  <2>1. /\ UNCHANGED <<cur, pending, pending_bytes, closing, cleanup_done, th, strandQ>>
        /\ strand.pc = "enqueue" /\ strand'.pc = "queued"
        /\ queue_bytes' = queue_bytes + d /\ tx' = Append(tx, strand.msg)
    BY <1>11 DEF Enqueue, flags, Idle
  <2>2. Bytes(tx)' = Bytes(tx) + d /\ d \in Nat
    <3>1. tx \in Seq(Messages)
      BY <1>a DEF TypeOK
    <3>2. Bytes(Append(tx, strand.msg)) = Bytes(tx) + d
      BY <1>a, <1>c, <3>1, BytesAppend
    <3> QED BY <2>1, <3>2, <1>c
  <2>3. Unsent' = 0 /\ Unsent = 0 /\ Reserved' = Reserved /\ ~cleanup_done
    BY <2>1, <1>d, <1>s DEF Unsent, Bounded, Closed
  <2> HIDE DEF d
  <2>4. Held' = Held + d
    BY <2>1, <2>2, <2>3, <1>c DEF Held
  <2> QED BY <2>1, <2>2, <2>3, <2>4, <1>m, Balanced
<1>12. CASE RunTry
  <2> DEFINE m == Head(strandQ).msg
             d == m.size
  <2>1. /\ Take("try") /\ UNCHANGED <<th, cur, pending, pending_bytes, closing, cleanup_done>>
        /\ strand.pc = "idle"
    BY <1>12 DEF RunTry, flags, Take
  <2>2. m \in Messages /\ d \in Nat /\ Head(strandQ).kind = "try"
    BY <2>1, <1>a, TakeType DEF Messages
  <2>3. ReservedIn(Head(strandQ)) = d
    BY <2>2 DEF ReservedIn
  <2>4. ReservedOnStrand' = ReservedOnStrand - d /\ d =< ReservedOnStrand
    BY <2>1, <2>3, <1>a, TakeReserved
  <2>5. Reserved' = Reserved - d /\ d =< Reserved
    BY <2>1, <2>2, <2>4, <1>c, SameThreads DEF Reserved
  <2>6. CASE Live
    <3>1. tx' = Append(tx, m) /\ strand'.pc = "queued" /\ queue_bytes' = queue_bytes
      BY <1>12, <2>6 DEF RunTry, Idle
    <3>2. tx \in Seq(Messages)
      BY <1>a DEF TypeOK
    <3>3. Bytes(Append(tx, m)) = Bytes(tx) + d
      BY <1>a, <2>2, <3>2, BytesAppend
    <3> HIDE DEF m, d
    <3>4. Unsent' = 0 /\ Unsent = 0
      BY <2>1, <3>1, <1>s DEF Unsent
    <3>5. Held' = Held
      BY <2>1, <2>2, <2>5, <3>1, <3>3, <3>4, <1>c DEF Held
    <3>6. ~cleanup_done
      BY <2>6 DEF Live, Bounded, Closed
    <3>7. KeepsCount
      BY <3>1, <3>5, NothingMoved
    <3> QED BY <2>1, <3>1, <3>5, <3>6, <3>7, <1>b DEF Kept, Counted, Accounting, Moving
  <2>7. CASE ~Live
    <3>1. tx' = tx /\ strand' = strand /\ queue_bytes' = Monus(queue_bytes, d)
      BY <1>12, <2>7 DEF RunTry
    <3> HIDE DEF m, d
    <3>2. Unsent' = Unsent
      BY <3>1 DEF Unsent, OnWrite
    <3>3. Held' = Held - d /\ d =< Held
      BY <2>1, <2>2, <2>5, <3>1, <3>2, <1>c DEF Held
    <3> QED BY <2>1, <2>2, <2>5, <3>1, <3>3, <1>m, Released
  <2> QED BY <2>6, <2>7
<1>13. CASE RunWrote
  <2> DEFINE h == Head(strandQ)
  <2>1. /\ Take("wrote") /\ UNCHANGED <<th, tx, pending, pending_bytes, closing, cleanup_done>>
        /\ cur' = <<>> /\ strand.pc = "idle"
    BY <1>13 DEF RunWrote, flags, Take
  <2>2. h.msg \in Messages /\ h.n \in Nat /\ h.msg.size \in Nat
    BY <2>1, <1>a, TakeType DEF Messages
  <2>3. cur = <<h.msg>> /\ h.n =< h.msg.size
    BY <2>1, <1>a, TakeEntries DEF InFlight
  <2> HIDE DEF h
  <2>4. Bytes(cur) = h.msg.size /\ Bytes(cur') = 0
    BY <2>1, <2>2, <2>3, <1>a, BytesOne, BytesEmpty
  <2>5. Reserved' = Reserved
    BY <2>1, <1>e
  <2>a. Held = h.msg.size + Bytes(tx) + Reserved
    <3>1. Unsent = 0
      BY <2>1, <1>s DEF Unsent
    <3> QED BY <2>2, <2>4, <3>1, <1>c DEF Held
  <2>6. CASE Live /\ queue_bytes >= h.n
    <3>1. /\ strand'.pc = "wrote" /\ strand'.msg = h.msg /\ strand'.n = h.n
          /\ queue_bytes' = queue_bytes - h.n
      BY <1>13, <2>6 DEF RunWrote, Idle, h
    <3>2. queue_bytes' = Monus(queue_bytes, h.n)
      BY <2>2, <2>6, <3>1, <1>c DEF Monus
    <3>3. Unsent' = h.msg.size - h.n
      BY <3>1, <1>s DEF Unsent
    <3>4. Held' = Bytes(tx) + Reserved + (h.msg.size - h.n)
      <4>1. Held' = 0 + Bytes(tx) + Reserved + (h.msg.size - h.n)
        BY <2>1, <2>4, <2>5, <3>3 DEF Held
      <4> QED BY <4>1, <2>2, <1>c
    <3>5. Held' = Held - h.n /\ h.n =< Held
      BY <2>2, <2>3, <2>a, <3>4, <1>c
    <3>6. ~cleanup_done
      BY <2>6 DEF Live, Bounded, Closed
    <3> QED BY <2>1, <2>2, <3>1, <3>2, <3>5, <3>6, <1>m, Released
  <2>8. CASE Live /\ ~(queue_bytes >= h.n)
    <3>1. /\ strand'.pc = "zero" /\ strand'.msg = h.msg
          /\ queue_bytes' = queue_bytes - 0
      BY <1>13, <2>8 DEF RunWrote, Idle, h
    <3>2. Unsent' = h.msg.size
      BY <3>1, <1>s DEF Unsent
    <3>3. Held' = Held
      <4>1. Held' = 0 + Bytes(tx) + Reserved + h.msg.size
        BY <2>1, <2>4, <2>5, <3>2 DEF Held
      <4> QED BY <4>1, <2>2, <2>a, <1>c
    <3>4. Strategy = "BestEffort"
      <4>1. queue_bytes < Held
        BY <2>2, <2>3, <2>8, <2>a, <1>c
      <4>2. Strategy # "Reliable"
        BY <2>8, <4>1, <1>c DEF Live, Counted, Accounting
      <4> QED BY <4>2, SessionAssumption
    <3>5. queue_bytes' = queue_bytes /\ ~cleanup_done
      BY <2>8, <3>1, <1>c DEF Live, Bounded, Closed
    <3>6. KeepsCount
      BY <3>3, <3>5, NothingMoved
    <3> QED BY <2>1, <3>1, <3>3, <3>4, <3>5, <3>6, <1>b DEF Kept, Counted, Accounting, Moving
  <2>7. CASE ~Live
    <3>1. queue_bytes' = queue_bytes /\ strand' = strand
      BY <1>13, <2>7 DEF RunWrote
    <3>2. closing
      BY <2>3, <2>7 DEF Live, Bounded, Fresh
    <3> QED BY <2>1, <2>5, <3>1, <3>2, <1>b DEF Kept, KeepsCount, Counted, Accounting, Moving
  <2> QED BY <2>6, <2>7, <2>8
<1>14. CASE ReportBackpressure
  <2>1. /\ UNCHANGED <<cur, tx, pending, queue_bytes, closing, cleanup_done, th, strandQ>>
        /\ strand.pc \in {"queued", "wrote", "over"} /\ strand'.pc \notin {"store", "zero"}
        /\ strand'.pc # "flush" => pending_bytes' = pending_bytes
        /\ strand'.pc = "flush" => pending_bytes' = 0 /\ strand'.q = pending_bytes
    BY <1>14, <1>a DEF ReportBackpressure, TypeOK, flags, Idle, Running
  <2>5. OnWrite' = OnWrite /\ (OnWrite => strand'.n = strand.n /\ strand'.msg = strand.msg)
    <3>1. \/ strand' = Idle /\ strand.pc = "over"
          \/ strand'.n = strand.n /\ strand'.msg = strand.msg /\ strand'.after = strand.after
      BY <1>14, <1>a DEF ReportBackpressure, TypeOK, Running
    <3> QED BY <3>1, <1>s DEF OnWrite, Idle
  <2>6. pending_bytes' + Moving' = pending_bytes
    BY <2>1, <1>c DEF Moving
  <2>2. Unsent' = Unsent /\ Reserved' = Reserved /\ ~cleanup_done
    BY <2>1, <2>5, <1>d DEF Unsent, Bounded, Closed
  <2>3. Moving = 0
    BY <2>1 DEF Moving
  <2>4. Held' = Held
    BY <2>1, <2>2 DEF Held
  <2>7. KeepsCount
    BY <2>1, <2>4, NothingMoved
  <2> QED BY <2>1, <2>2, <2>3, <2>4, <2>6, <2>7, <1>b, <1>c DEF Kept, Counted, Accounting
<1>18. CASE FlushPending
  <2>1. /\ UNCHANGED <<cur, closing, cleanup_done, th, strandQ, pending_bytes>>
        /\ strand.pc = "flush" /\ strand'.pc = "again"
        /\ strand'.n = strand.n /\ strand'.msg = strand.msg /\ strand'.after = strand.after
        /\ tx' = tx \o pending /\ pending' = <<>> /\ queue_bytes' = queue_bytes + strand.q
    BY <1>18, <1>a DEF FlushPending, Flushed, TypeOK, flags, Running
  <2>2. Unsent' = Unsent /\ Reserved' = Reserved /\ ~cleanup_done
    BY <2>1, <1>d DEF Unsent, OnWrite, Bounded, Closed
  <2>3. pending_bytes = 0 /\ Bytes(pending) = strand.q
    <3>1. pending_bytes = 0
      BY <2>1 DEF Bounded, Handling
    <3> QED BY <2>1, <3>1, <1>b, <1>c DEF Moving
  <2>4. tx \in Seq(Messages) /\ pending \in Seq(Messages)
    BY <1>a DEF TypeOK
  <2>5. Bytes(tx \o pending) = Bytes(tx) + strand.q
    BY <1>a, <2>3, <2>4, BytesConcat
  <2>6. Held' = Held + strand.q
    <3>1. Held' = Bytes(cur) + (Bytes(tx) + strand.q) + Reserved + Unsent
      BY <2>1, <2>2, <2>5 DEF Held
    <3> QED BY <3>1, <1>c DEF Held
  <2>7. (pending_bytes + Moving)' = Bytes(pending)'
    BY <2>1, <2>3, BytesEmpty DEF Moving
  <2> QED BY <2>1, <2>2, <2>6, <2>7, <1>c, Balanced
<1>19. CASE TurnOnAgain
  <2>1. /\ UNCHANGED <<cur, tx, pending, queue_bytes, pending_bytes, closing, cleanup_done, th>>
        /\ strandQ' = strandQ /\ strand.pc = "again" /\ strand'.pc \in {"kick", "finish"}
        /\ strand'.n = strand.n /\ strand'.msg = strand.msg /\ strand'.after = strand.after
    BY <1>19, <1>a DEF TurnOnAgain, TypeOK, flags, Running
  <2>2. Unsent' = Unsent /\ Reserved' = Reserved
    BY <2>1, <1>d DEF Unsent, OnWrite
  <2>3. Held' = Held
    BY <2>1, <2>2 DEF Held
  <2>4. KeepsCount
    BY <2>1, <2>3, NothingMoved
  <2> QED BY <2>1, <2>2, <2>3, <2>4 DEF Kept, Counted, Accounting, Moving
<1>15. CASE Kick
  <2>1. /\ UNCHANGED <<pending, queue_bytes, pending_bytes, closing, cleanup_done, th, strandQ>>
        /\ strand.pc = "kick" /\ strand'.pc = "idle"
    BY <1>15 DEF Kick, flags, Idle
  <2>2. Unsent' = 0 /\ Unsent = 0 /\ Reserved' = Reserved
    BY <2>1, <1>d, <1>s DEF Unsent
  <2>3. Bytes(cur)' + Bytes(tx)' = Bytes(cur) + Bytes(tx)
    <3>1. CASE writing
      BY <1>15, <3>1 DEF Kick
    <3>2. CASE ~writing
      <4>1. cur = <<>> /\ DoWrite
        BY <1>15, <3>2, <1>a DEF Kick, InFlight
      <4> QED BY <4>1, <1>a, DoWriteBytes
    <3> QED BY <3>1, <3>2
  <2>4. Held' = Held
    BY <2>2, <2>3 DEF Held
  <2>5. KeepsCount
    BY <2>1, <2>4, NothingMoved
  <2> QED BY <2>1, <2>2, <2>4, <2>5 DEF Kept, Counted, Accounting, Moving
<1>16. CASE FinishWrote
  <2>1. strand.pc = "finish" /\ strand'.pc = "idle" /\ UNCHANGED <<strandQ, th>>
    BY <1>16 DEF FinishWrote, Idle
  <2>2. Reserved' = Reserved /\ ~cleanup_done
    BY <2>1, <1>d DEF Bounded, Closed
  <2>3. CASE strand.ok
    <3>1. DoWrite /\ UNCHANGED <<pending, queue_bytes, pending_bytes, closing, cleanup_done>>
      BY <1>16, <2>3 DEF FinishWrote, flags
    <3>2. cur = <<>> /\ strand.n = strand.msg.size
      BY <2>1, <2>3, <1>a, <1>s DEF InFlight
    <3>3. Unsent = 0 /\ Unsent' = 0
      <4>1. Unsent = strand.msg.size - strand.n
        BY <2>1, <1>s DEF Unsent
      <4>2. strand.msg.size \in Nat
        BY <1>c
      <4>3. Unsent' = 0
        BY <1>16 DEF FinishWrote, Idle, Unsent, OnWrite
      <4> QED BY <3>2, <4>1, <4>2, <4>3
    <3>4. Bytes(cur)' + Bytes(tx)' = Bytes(cur) + Bytes(tx)
      BY <3>1, <3>2, <1>a, DoWriteBytes
    <3>5. Held' = Held
      BY <2>2, <3>3, <3>4 DEF Held
    <3>6. KeepsCount
      BY <3>1, <3>5, NothingMoved
    <3> QED BY <2>1, <2>2, <3>1, <3>5, <3>6 DEF Kept, Counted, Accounting, Moving
  <2>4. CASE ~strand.ok
    <3>1. DoClose(callbacks)
      BY <1>16, <2>4 DEF FinishWrote
    <3> QED BY <2>1, <2>2, <3>1, CountedClose
  <2> QED BY <2>3, <2>4
<1>17. CASE ZeroBytes
  <2>1. /\ UNCHANGED <<cur, tx, pending, pending_bytes, closing, cleanup_done, th, strandQ>>
        /\ strand.pc = "zero" /\ strand'.pc = "wrote" /\ queue_bytes' = 0
        /\ strand'.n = strand.n /\ strand'.msg = strand.msg
    BY <1>17, <1>a DEF ZeroBytes, TypeOK, Running, flags
  <2>2. /\ Unsent = strand.msg.size /\ Unsent' = strand.msg.size - strand.n
        /\ strand.n =< strand.msg.size /\ Reserved' = Reserved
    BY <2>1, <1>a, <1>d, <1>s DEF Unsent, InFlight
  <2>3. Held' >= 0
    <3>1. Held' = Bytes(cur) + Bytes(tx) + Reserved + (strand.msg.size - strand.n)
      BY <2>1, <2>2 DEF Held
    <3> QED BY <3>1, <2>2, <1>c
  <2>4. Strategy = "BestEffort" /\ ~cleanup_done
    BY <2>1 DEF Counted, Bounded, Closed
  <2>5. KeepsCount
    <3>1. Overwritten = Monus(queue_bytes, strand.n)
      BY <2>1 DEF Overwritten
    <3>2. Held' = Held - strand.n
      <4>1. Held' = Bytes(cur) + Bytes(tx) + Reserved + (strand.msg.size - strand.n)
        BY <2>1, <2>2 DEF Held
      <4>2. Held = Bytes(cur) + Bytes(tx) + Reserved + strand.msg.size
        BY <2>2 DEF Held
      <4> QED BY <4>1, <4>2, <1>c
    <3>3. Held' - queue_bytes' =< (Held - queue_bytes) + Monus(queue_bytes, strand.n)
      BY <2>1, <3>2, <1>c DEF Monus
    <3> QED BY <3>1, <3>3 DEF KeepsCount, Uncounted
  <2> QED BY <2>1, <2>3, <2>4, <2>5, <1>b DEF Kept, Counted, Accounting, Moving
<1> QED
  BY <1>1, <1>2, <1>3, <1>4, <1>5, <1>6, <1>7, <1>8, <1>9, <1>10, <1>11, <1>12, <1>13,
     <1>14, <1>15, <1>16, <1>17, <1>18, <1>19 DEF Strand

\* Both counters are right initially.
LEMMA CountedInit == Init => Counted
<1> SUFFICES ASSUME Init PROVE Counted
  OBVIOUS
<1>1. Bounded
  BY BoundedInit
<1>2. /\ queue_bytes = 0 /\ pending_bytes = 0 /\ pending = <<>> /\ tx = <<>> /\ cur = <<>>
      /\ strandQ = <<>> /\ strand = Idle /\ th = [t \in Threads |-> Resting] /\ ~cleanup_done
  BY DEF Init
<1>3. Bytes(<<>>) = 0
  BY BytesEmpty
<1>4. ReservedOnStrand = 0
  <2>1. [i \in 1..Len(strandQ) |-> ReservedIn(strandQ[i])] \in Seq(Int)
        /\ Len([i \in 1..Len(strandQ) |-> ReservedIn(strandQ[i])]) = 0
    BY <1>2
  <2> QED BY <2>1, SumEmpty DEF ReservedOnStrand
<1>5. Unsent = 0
  BY <1>2 DEF Unsent, OnWrite, Idle
<1>6. ReservedByThreads = 0
  <2> DEFINE s == [t \in 1..NThreads |-> ReservedBy(t)]
  <2>1. \A t \in 1..NThreads : ReservedBy(t) = 0
    BY <1>2 DEF ReservedBy, Resting, Threads
  <2>2. s \in Seq(Nat) /\ \A t \in 1..Len(s) : s[t] = 0
    BY <2>1, BoundsType
  <2> HIDE DEF s
  <2>3. SumSeq(s) = 0
    BY <2>2, SumZero
  <2> QED BY <2>3 DEF ReservedByThreads, s
<1>7. Held = 0 /\ Reserved = 0
  BY <1>2, <1>3, <1>4, <1>5, <1>6 DEF Held, Reserved
<1> QED
  BY <1>2, <1>3, <1>7 DEF Counted, Accounting, Moving, Idle

\* No step of the session spoils the counters.
LEMMA CountedStep == Bounded /\ Bounded' /\ Counted /\ [Next]_vars => Kept
<1> SUFFICES ASSUME Bounded, Bounded', Counted, [Next]_vars PROVE Kept
  OBVIOUS
<1>1. CASE UNCHANGED vars
  <2>1. ReservedByThreads' = ReservedByThreads
    BY <1>1, SameThreads DEF vars
  <2>2. ReservedOnStrand' = ReservedOnStrand
    BY <1>1 DEF ReservedOnStrand, vars
  <2>3. Held' = Held /\ Reserved' = Reserved
    BY <1>1, <2>1, <2>2 DEF Held, Reserved, Unsent, OnWrite, vars, queues
  <2>4. KeepsCount
    BY <1>1, <2>3, NothingMoved DEF vars, queues
  <2> QED BY <1>1, <2>3, <2>4 DEF Kept, Counted, Accounting, Moving, vars, queues, flags
<1> QED
  BY <1>1, CountedUser, CountedStrand, CountedEnvironment DEF Next

\* For every number of threads, strategy, threshold and size of buffer, the
\* counters that admit writes and switch backpressure are right: a Reliable
\* session never miscounts, a BestEffort session never counts too much, and
\* what a closed session still counts will be released.
THEOREM SessionAccounting == Spec => []Accounting
<1>1. Init => Bounded /\ Counted
  BY BoundedInit, CountedInit
<1>2. Bounded /\ Counted /\ [Next]_vars => (Bounded /\ Counted)'
  BY BoundedStep, CountedStep DEF Kept
<1>3. Counted => Accounting
  BY DEF Counted
<1> QED
  BY <1>1, <1>2, <1>3, PTL DEF Spec

\* For every instance, what queue_bytes_ misses of the bytes held was lost by a
\* trimming pass or by on_write's overwrite, and no more than was reserved
\* in between.
THEOREM SessionOnlyOverwritesLose == Spec => OnlyOverwritesLose
<1>1. Init => Bounded /\ Counted
  BY BoundedInit, CountedInit
<1>2. Bounded /\ Counted /\ [Next]_vars => (Bounded /\ Counted)'
  BY BoundedStep, CountedStep DEF Kept
<1>3. Bounded /\ Bounded' /\ Counted /\ [Next]_vars => [KeepsCount]_vars
  BY CountedStep DEF Kept
<1> QED
  BY <1>1, <1>2, <1>3, PTL DEF Spec, OnlyOverwritesLose
=============================================================================
