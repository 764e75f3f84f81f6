----------------------- MODULE TcpServerSessionProofs -----------------------
(***************************************************************************)
(* The inductive invariant Bounded of a session, and what follows from it: *)
(* types, the bound on what is accounted for, and one write at a time.     *)
(*                                                                         *)
(* The bound rests on what each check has established at the time its      *)
(* result is used, however stale: a thread that is about to exchange has   *)
(* a sum below the high-water mark, a handler about to enqueue one below   *)
(* the hard limit or a queue that only reservations have raised since.     *)
(***************************************************************************)
EXTENDS TcpServerSession, ByteSumProofs, TLAPS

\* The bounds the constructor computes are natural numbers.
LEMMA BoundsType ==
  /\ High \in Nat /\ High > 0 /\ Limit \in Nat /\ Low \in Nat
  /\ NThreads \in Nat /\ MaxBuffer \in Nat
BY SessionAssumption DEF Limit, Low, LimitOf, LowOf, AtMost, AtLeast

\* Records that the actions build have their types.
LEMMA RecordTypes ==
  /\ NoMsg \in Messages /\ Idle \in Running /\ Resting \in Calls
  /\ Sized(Messages)
BY DEF NoMsg, Idle, Resting, Messages, Running, Calls, Sized

\* The front and the rest of a non-empty deque.
LEMMA HeadTailType ==
  ASSUME NEW S, NEW q \in Seq(S), q # <<>>
  PROVE  Head(q) \in S /\ Tail(q) \in Seq(S)
OBVIOUS

\* Adding to a deque.
LEMMA AppendType ==
  ASSUME NEW S, NEW q \in Seq(S), NEW x \in S
  PROVE  Append(q, x) \in Seq(S)
OBVIOUS

\* Joining two deques.
LEMMA ConcatType ==
  ASSUME NEW S, NEW q \in Seq(S), NEW r \in Seq(S)
  PROVE  q \o r \in Seq(S)
OBVIOUS

\* A deque of at most one buffer that is not empty.
LEMMA OnlyOne ==
  ASSUME NEW S, NEW q \in Seq(S), q # <<>>, Len(q) =< 1
  PROVE  q = <<q[1]>> /\ q[1] \in S
<1>1. Len(q) \in Nat /\ Len(q) # 0
  OBVIOUS
<1>2. Len(q) = 1
  BY <1>1
<1> QED
  BY <1>2

\* A difference of byte counts that stops at zero.
LEMMA MonusType ==
  ASSUME NEW a \in Nat, NEW b \in Nat
  PROVE  Monus(a, b) \in Nat /\ Monus(a, b) =< a
BY DEF Monus

\* A smaller count keeps a bound on a sum.
LEMMA StaysBelow ==
  ASSUME NEW a \in Nat, NEW b \in Nat, NEW c \in Nat, NEW d \in Nat, a =< b, b + c =< d
  PROVE  a + c =< d
OBVIOUS

\* The buffers that trimming removes are the front of the deque.
LEMMA VictimsType ==
  ASSUME NEW S, NEW q \in Seq(S), NEW added
  PROVE  LET v == KeepLatestVictims(q, added, High)
         IN  v \in Seq(S) /\ Len(v) =< Len(q)
<1>1. q \in Seq(S) /\ Len(q) =< Len(q)
  OBVIOUS
<1>2. CASE q = <<>>
  <2>1. SubSeq(q, 1, 1) = <<>>
    BY <1>2
  <2> QED BY <1>1, <1>2, <2>1 DEF KeepLatestVictims
<1>3. CASE q # <<>>
  <2>1. 1 \in 1..Len(q)
    BY <1>3
  <2>2. SubSeq(q, 1, 1) \in Seq(S) /\ Len(SubSeq(q, 1, 1)) = 1
    BY <2>1
  <2> QED BY <1>1, <2>1, <2>2 DEF KeepLatestVictims
<1> QED
  BY <1>2, <1>3

\* What the strand takes from its queue.
LEMMA TakeType ==
  ASSUME TypeOK, NEW kind, Take(kind)
  PROVE  /\ strandQ' \in Seq(Handlers) /\ Head(strandQ) \in Handlers
         /\ Head(strandQ).kind = kind /\ Head(strandQ).msg \in Messages
         /\ Head(strandQ).n \in Nat /\ Head(strandQ).ok \in BOOLEAN
<1>1. strandQ \in Seq(Handlers) /\ strandQ # <<>> /\ strandQ' = Tail(strandQ)
      /\ Head(strandQ).kind = kind
  BY DEF TypeOK, Take
<1>2. Head(strandQ) \in Handlers /\ Tail(strandQ) \in Seq(Handlers)
  BY <1>1, HeadTailType
<1> QED
  BY <1>1, <1>2 DEF Handlers

\* do_write() keeps the types of what it moves.
LEMMA DoWriteType ==
  ASSUME TypeOK, DoWrite
  PROVE  tx' \in Seq(Messages) /\ cur' \in Seq(Messages) /\ Len(cur') =< 1 /\ writing' \in BOOLEAN
<1>1. tx \in Seq(Messages) /\ cur \in Seq(Messages) /\ Len(cur) =< 1
  BY DEF TypeOK
<1>2. CASE tx = <<>>
  BY <1>1, <1>2 DEF DoWrite
<1>3. CASE tx # <<>>
  <2>1. Head(tx) \in Messages /\ Tail(tx) \in Seq(Messages)
    BY <1>1, <1>3, HeadTailType
  <2>2. cur' = <<Head(tx)>> /\ tx' = Tail(tx) /\ writing' = TRUE
    BY <1>3 DEF DoWrite
  <2>3. <<Head(tx)>> \in Seq(Messages) /\ Len(<<Head(tx)>>) = 1
    BY <2>1
  <2> QED BY <2>1, <2>2, <2>3
<1> QED
  BY <1>2, <1>3

\* Posting a handler keeps the type of the strand's queue.
LEMMA PostType ==
  ASSUME TypeOK, NEW h \in Handlers, Post(h)
  PROVE  strandQ' \in Seq(Handlers)
BY DEF TypeOK, Post

\* do_close() keeps the type of everything it resets.
LEMMA DoCloseType ==
  ASSUME TypeOK, NEW cbs \in BOOLEAN, DoClose(cbs)
  PROVE  /\ alive' \in BOOLEAN /\ closing' \in BOOLEAN /\ cleanup_done' \in BOOLEAN
         /\ callbacks' \in BOOLEAN
         /\ tx' \in Seq(Messages) /\ pending' \in Seq(Messages) /\ cur' = cur
         /\ queue_bytes' \in Nat /\ pending_bytes' \in Nat
         /\ bp' \in BOOLEAN /\ writing' = writing
         /\ socket_open' \in BOOLEAN /\ armed' \subseteq {"read", "write", "idle"}
         /\ told' \in BOOLEAN /\ closes' \in Nat /\ sent' = sent /\ lost' = lost
<1>1. CASE cleanup_done
  BY <1>1 DEF DoClose, TypeOK, flags, queues, io, ghosts
<1>2. CASE ~cleanup_done
  <2>1. closes + (IF cbs THEN 1 ELSE 0) \in Nat
    BY DEF TypeOK
  <2>2. armed \ {"idle"} \subseteq {"read", "write", "idle"}
    BY DEF TypeOK
  <2>3. <<>> \in Seq(Messages) /\ (told /\ ~(bp /\ cbs)) \in BOOLEAN
    OBVIOUS
  <2>4. /\ alive' = FALSE /\ closing' = TRUE /\ cleanup_done' = TRUE /\ callbacks' = FALSE
        /\ tx' = <<>> /\ pending' = <<>> /\ queue_bytes' = 0 /\ pending_bytes' = 0
        /\ bp' = FALSE /\ socket_open' = FALSE
    BY <1>2 DEF DoClose, DropQueues, ReportClose
  <2>5. /\ armed' = armed \ {"idle"}
        /\ told' = (told /\ ~(bp /\ cbs))
        /\ closes' = closes + (IF cbs THEN 1 ELSE 0)
        /\ cur' = cur /\ writing' = writing /\ sent' = sent /\ lost' = lost
    BY <1>2 DEF DoClose, DropQueues, ReportClose
  <2> QED BY <2>1, <2>2, <2>3, <2>4, <2>5
<1> QED
  BY <1>1, <1>2

\* One step of a user thread keeps the types.
LEMMA TypeUser ==
  ASSUME TypeOK, NEW t \in Threads, User(t)
  PROVE  TypeOK'
<1> USE BoundsType, RecordTypes
<1>1. ASSUME NEW n \in Sizes, NEW pc \in {"load", "check"}, NEW op \in {"write", "try"},
             Call(t, pc, op, n)
      PROVE  TypeOK'
  <2>1. n \in Nat
    BY SessionAssumption
  <2>2. [Resting EXCEPT !.pc = pc, !.msg = [id |-> 0, size |-> n, op |-> op]] \in Calls
    BY <2>1 DEF Calls, Messages, Resting
  <2>3. th' \in [Threads -> Calls]
    BY <1>1, <2>2 DEF Call, TypeOK
  <2>4. \A u \in Threads : th'[u].pc # "rest" => th'[u].msg.op \in {"write", "try"}
    BY <1>1 DEF Call, TypeOK, Resting
  <2> QED BY <1>1, <2>3, <2>4 DEF Call, TypeOK, flags, queues, io, ghosts
<1>2. CASE WriteRoom(t)
  <2>1. th' \in [Threads -> Calls]
    BY <1>2 DEF WriteRoom, TypeOK, Calls
  <2>2. \A u \in Threads : th'[u].pc # "rest" => th'[u].msg.op \in {"write", "try"}
    BY <1>2 DEF WriteRoom, TypeOK, Calls, Resting
  <2> QED BY <1>2, <2>1, <2>2 DEF WriteRoom, TypeOK, flags, queues, io, ghosts
<1>7. CASE WriteLoad(t)
  <2>1. th' \in [Threads -> Calls]
    BY <1>7 DEF WriteLoad, TypeOK, Calls
  <2>2. \A u \in Threads : th'[u].pc # "rest" => th'[u].msg.op \in {"write", "try"}
    BY <1>7 DEF WriteLoad, TypeOK, Calls
  <2> QED BY <1>7, <2>1, <2>2 DEF WriteLoad, TypeOK, flags, queues, io, ghosts
<1>8. CASE TryCheck(t)
  <2>1. th' \in [Threads -> Calls]
    BY <1>8 DEF TryCheck, TypeOK, Calls
  <2>2. \A u \in Threads : th'[u].pc # "rest" => th'[u].msg.op \in {"write", "try"}
    BY <1>8 DEF TryCheck, TypeOK, Calls, Resting
  <2> QED BY <1>8, <2>1, <2>2 DEF TryCheck, TypeOK, flags, queues, io, ghosts
<1>3. CASE ReserveLoad(t)
  <2>1. th' \in [Threads -> Calls]
    BY <1>3 DEF ReserveLoad, TypeOK, Calls
  <2>2. \A u \in Threads : th'[u].pc # "rest" => th'[u].msg.op \in {"write", "try"}
    BY <1>3 DEF ReserveLoad, TypeOK, Calls, Resting
  <2> QED BY <1>3, <2>1, <2>2 DEF ReserveLoad, TypeOK, flags, queues, io, ghosts
<1>4. CASE ReserveExchange(t)
  <2>1. th' \in [Threads -> Calls]
    BY <1>4 DEF ReserveExchange, TypeOK, Calls
  <2>2. \A u \in Threads : th'[u].pc # "rest" => th'[u].msg.op \in {"write", "try"}
    BY <1>4 DEF ReserveExchange, TypeOK, Calls, Resting
  <2>3. th[t] \in Calls /\ th[t].msg \in Messages
    BY DEF TypeOK, Calls
  <2>4. queue_bytes + th[t].msg.size \in Nat
    BY <2>3 DEF TypeOK, Messages
  <2>5. queue_bytes' \in Nat
    BY <1>4, <2>4 DEF ReserveExchange
  <2> QED BY <1>4, <2>1, <2>2, <2>5 DEF ReserveExchange, TypeOK, flags, queues, io, ghosts
<1>5. CASE ReserveRetry(t)
  <2>1. th' \in [Threads -> Calls]
    BY <1>5 DEF ReserveRetry, TypeOK, Calls
  <2>2. \A u \in Threads : th'[u].pc # "rest" => th'[u].msg.op \in {"write", "try"}
    BY <1>5 DEF ReserveRetry, TypeOK, Calls, Resting
  <2> QED BY <1>5, <2>1, <2>2 DEF ReserveRetry, TypeOK, flags, queues, io, ghosts
<1>6. CASE PostWrite(t)
  <2>1. th' \in [Threads -> Calls]
    BY <1>6 DEF PostWrite, TypeOK, Calls
  <2>2. \A u \in Threads : th'[u].pc # "rest" => th'[u].msg.op \in {"write", "try"}
    BY <1>6 DEF PostWrite, TypeOK, Calls, Resting
  <2>3. th[t] \in Calls /\ th[t].msg \in Messages
    BY DEF TypeOK, Calls
  <2>4. [th[t].msg EXCEPT !.id = nextId] \in Messages
    BY <2>3 DEF TypeOK, Messages
  <2>5. th[t].msg.op \in {"write", "try"}
    BY <1>6 DEF PostWrite, TypeOK
  <2>6. Handler(th[t].msg.op, [th[t].msg EXCEPT !.id = nextId], 0, TRUE) \in Handlers
    BY <2>4, <2>5 DEF Handler, Handlers
  <2>7. strandQ' \in Seq(Handlers)
    BY <1>6, <2>6, PostType DEF PostWrite
  <2>8. nextId' \in Nat \ {0}
    <3>1. nextId \in Nat \ {0}
      BY DEF TypeOK
    <3>2. nextId' = nextId + 1
      BY <1>6 DEF PostWrite
    <3> QED BY <3>1, <3>2
  <2> QED BY <1>6, <2>1, <2>2, <2>7, <2>8 DEF PostWrite, TypeOK, flags, queues, io, ghosts
<1> QED
  BY <1>1, <1>2, <1>3, <1>4, <1>5, <1>6, <1>7, <1>8
     DEF User, AsyncWriteCopy, AsyncWriteMove, AsyncWriteShared, AsyncTryWriteMove,
         AsyncTryWriteShared

\* One step of a handler keeps the types.
LEMMA TypeStrand ==
  ASSUME TypeOK, Strand
  PROVE  TypeOK'
<1> USE BoundsType, RecordTypes
<1>1. CASE RunRegister
  BY <1>1, TakeType DEF RunRegister, TypeOK, flags, queues, io, ghosts
<1>2. CASE RunStart
  BY <1>2, TakeType DEF RunStart, ResetIdle, TypeOK, flags, queues, io, ghosts
<1>3. CASE RunStop
  <2>1. CASE cleanup_done
    BY <1>3, <2>1, TakeType DEF RunStop, TypeOK, flags, queues, io, ghosts
  <2>2. CASE ~cleanup_done
    <3>1. DoClose(FALSE)
      BY <1>3, <2>2 DEF RunStop
    <3> QED BY <1>3, <3>1, TakeType, DoCloseType DEF RunStop, TypeOK
  <2> QED BY <2>1, <2>2
<1>4. CASE RunCancel
  BY <1>4, TakeType DEF RunCancel, TypeOK, flags, queues, io, ghosts
<1>5. CASE RunRead
  <2>1. strandQ' \in Seq(Handlers) /\ strand' = strand /\ th' = th /\ nextId' = nextId
    BY <1>5, TakeType DEF RunRead
  <2>2. CASE UNCHANGED <<flags, queues, io, ghosts>>
    BY <2>1, <2>2 DEF TypeOK, flags, queues, io, ghosts
  <2>3. CASE DoClose(callbacks)
    <3>1. callbacks \in BOOLEAN
      BY DEF TypeOK
    <3> QED BY <2>1, <2>3, <3>1, DoCloseType DEF TypeOK
  <2>4. CASE /\ armed' = armed \cup ResetIdle \cup {"read"}
             /\ UNCHANGED <<flags, queues, socket_open, ghosts>>
    BY <2>1, <2>4 DEF ResetIdle, TypeOK, flags, queues, ghosts
  <2> QED BY <1>5, <2>2, <2>3, <2>4 DEF RunRead
<1>6. CASE RunIdle
  <2>1. strandQ' \in Seq(Handlers) /\ strand' = strand /\ th' = th /\ nextId' = nextId
    BY <1>6, TakeType DEF RunIdle
  <2>2. CASE UNCHANGED <<flags, queues, io, ghosts>>
    BY <2>1, <2>2 DEF TypeOK, flags, queues, io, ghosts
  <2>3. CASE DoClose(callbacks)
    <3>1. callbacks \in BOOLEAN
      BY DEF TypeOK
    <3> QED BY <2>1, <2>3, <3>1, DoCloseType DEF TypeOK
  <2> QED BY <1>6, <2>2, <2>3 DEF RunIdle
<1>7. CASE RunWrite
  <2> DEFINE m == Head(strandQ).msg
  <2>1. strandQ' \in Seq(Handlers) /\ m \in Messages
    BY <1>7, TakeType DEF RunWrite, MustPark, NoRoomToPark
  <2>2. m.size \in Nat
    BY <2>1 DEF Messages
  <2> HIDE DEF m
  <2>3. /\ pending' = pending \/ pending' = Append(pending, m)
        /\ \/ pending_bytes' = pending_bytes \/ pending_bytes' = pending_bytes + 0
           \/ pending_bytes' = pending_bytes + m.size
        /\ lost' = lost \/ lost' = lost \cup {m}
    BY <1>7 DEF RunWrite, MustPark, NoRoomToPark, m
  <2>a. pending' \in Seq(Messages)
    <3>1. pending \in Seq(Messages)
      BY DEF TypeOK
    <3>2. Append(pending, m) \in Seq(Messages)
      BY <2>1, <3>1, AppendType
    <3> QED BY <2>3, <3>1, <3>2
  <2>b. pending_bytes' \in Nat
    BY <2>2, <2>3 DEF TypeOK
  <2>c. lost' \subseteq Messages
    BY <2>1, <2>3 DEF TypeOK
  <2>4. strand' \in Running
    <3>1. \/ strand' = strand
          \/ \E pc \in {"trim", "check"} : strand' = [Idle EXCEPT !.pc = pc, !.msg = m]
      BY <1>7 DEF RunWrite, m
    <3>2. \A pc \in {"trim", "check"} : [Idle EXCEPT !.pc = pc, !.msg = m] \in Running
      BY <2>1 DEF Running, Idle
    <3> QED BY <3>1, <3>2 DEF TypeOK
  <2> QED BY <1>7, <2>1, <2>a, <2>b, <2>c, <2>4 DEF RunWrite, MustPark, NoRoomToPark, TypeOK, flags, io
<1>8. CASE TrimLoad
  <2>1. strand' \in Running
    BY <1>8 DEF TrimLoad, TypeOK, Running
  <2> QED BY <1>8, <2>1 DEF TrimLoad, TypeOK, flags, queues, io, ghosts
<1>9. CASE TrimStore
  <2> DEFINE v == KeepLatestVictims(tx, strand.msg.size, High)
  <2>1. tx \in Seq(Messages) /\ strand \in Running /\ strand.q \in Nat
    BY DEF TypeOK, Running
  <2>2. v \in Seq(Messages) /\ Len(v) =< Len(tx)
    BY <2>1, VictimsType
  <2>3. Bytes(v) \in Nat
    BY <2>2, BytesType
  <2>4. SubSeq(tx, Len(v) + 1, Len(tx)) \in Seq(Messages)
    BY <2>1, <2>2
  <2>5. strand' \in Running
    BY <1>9 DEF TrimStore, TypeOK, Running
  <2>6. queue_bytes' = Monus(strand.q, Bytes(v)) /\ tx' = SubSeq(tx, Len(v) + 1, Len(tx))
    BY <1>9 DEF TrimStore
  <2> HIDE DEF v
  <2>7. queue_bytes' \in Nat
    BY <2>1, <2>3, <2>6 DEF Monus
  <2> QED BY <1>9, <2>4, <2>5, <2>6, <2>7 DEF TrimStore, TypeOK, flags, io, ghosts
<1>10. CASE CheckLimit
  <2>1. strand' \in Running
    <3>1. strand \in Running
      BY DEF TypeOK
    <3>2. \A pc \in {"over", "enqueue"} : [strand EXCEPT !.pc = pc] \in Running
      BY <3>1 DEF Running
    <3> QED BY <1>10, <3>2 DEF CheckLimit
  <2>2. lost' \subseteq Messages
    BY <1>10 DEF CheckLimit, TypeOK, Running
  <2> QED BY <1>10, <2>1, <2>2 DEF CheckLimit, TypeOK, flags, queues, io
<1>11. CASE Enqueue
  <2>1. strand.msg \in Messages /\ strand.msg.size \in Nat
    BY DEF TypeOK, Running, Messages
  <2>2. strand' \in Running
    BY <1>11 DEF Enqueue, Running, Idle
  <2>3. tx' \in Seq(Messages) /\ queue_bytes' \in Nat
    <3>1. tx \in Seq(Messages) /\ queue_bytes + strand.msg.size \in Nat
      BY <2>1 DEF TypeOK
    <3>2. Append(tx, strand.msg) \in Seq(Messages)
      BY <2>1, <3>1, AppendType
    <3> QED BY <1>11, <3>1, <3>2 DEF Enqueue
  <2> QED BY <1>11, <2>2, <2>3 DEF Enqueue, TypeOK, flags, io, ghosts
<1>12. CASE RunTry
  <2> DEFINE m == Head(strandQ).msg
  <2>1. strandQ' \in Seq(Handlers) /\ m \in Messages
    BY <1>12, TakeType DEF RunTry
  <2>2. m.size \in Nat
    BY <2>1 DEF Messages
  <2> HIDE DEF m
  <2>3. tx' \in Seq(Messages) /\ queue_bytes' \in Nat
    <3>1. /\ tx' = tx \/ tx' = Append(tx, m)
          /\ queue_bytes' = queue_bytes \/ queue_bytes' = Monus(queue_bytes, m.size)
      BY <1>12 DEF RunTry, m
    <3>2. tx \in Seq(Messages) /\ queue_bytes \in Nat
      BY DEF TypeOK
    <3>3. Append(tx, m) \in Seq(Messages)
      BY <2>1, <3>2, AppendType
    <3>4. Monus(queue_bytes, m.size) \in Nat
      BY <2>2, <3>2, MonusType
    <3> QED BY <3>1, <3>2, <3>3, <3>4
  <2>4. strand' \in Running
    <3>1. strand \in Running
      BY DEF TypeOK
    <3>2. [Idle EXCEPT !.pc = "queued"] \in Running
      BY DEF Running, Idle
    <3> QED BY <1>12, <3>1, <3>2 DEF RunTry
  <2> QED BY <1>12, <2>1, <2>3, <2>4 DEF RunTry, TypeOK, flags, io, ghosts
<1>13. CASE RunWrote
  <2> DEFINE h == Head(strandQ)
  <2>1. strandQ' \in Seq(Handlers) /\ h.msg \in Messages /\ h.n \in Nat /\ h.ok \in BOOLEAN
    BY <1>13, TakeType DEF RunWrote
  <2> HIDE DEF h
  <2>2. queue_bytes' \in Nat
    <3>1. \/ queue_bytes' = queue_bytes \/ queue_bytes' = queue_bytes - 0
          \/ queue_bytes >= h.n /\ queue_bytes' = queue_bytes - h.n
      BY <1>13 DEF RunWrote, h
    <3> QED BY <2>1, <3>1 DEF TypeOK
  <2>3. strand' \in Running
    <3>1. \/ strand' = strand
          \/ \E pc \in {"zero", "wrote"} :
               strand' = [Idle EXCEPT !.pc = pc, !.msg = h.msg, !.n = h.n, !.ok = h.ok,
                                         !.after = "finish"]
      BY <1>13 DEF RunWrote, h
    <3>2. \A pc \in {"zero", "wrote"} :
            [Idle EXCEPT !.pc = pc, !.msg = h.msg, !.n = h.n, !.ok = h.ok,
                                         !.after = "finish"] \in Running
      BY <2>1 DEF Running, Idle
    <3> QED BY <3>1, <3>2 DEF TypeOK
  <2>4. cur' \in Seq(Messages) /\ Len(cur') =< 1
    BY <1>13 DEF RunWrote
  <2> QED BY <1>13, <2>1, <2>2, <2>3, <2>4 DEF RunWrote, TypeOK, flags, io, ghosts
<1>14. CASE ReportBackpressure
  <2>1. pending_bytes' \in Nat /\ bp' \in BOOLEAN /\ told' \in BOOLEAN
    BY <1>14 DEF ReportBackpressure, TypeOK
  <2>2. strand' \in Running
    BY <1>14 DEF ReportBackpressure, TypeOK, Running, Idle
  <2> QED BY <1>14, <2>1, <2>2 DEF ReportBackpressure, TypeOK, flags, io
<1>18. CASE FlushPending
  <2>1. tx' \in Seq(Messages) /\ pending' \in Seq(Messages)
    <3>1. tx' = tx \o pending /\ pending' = <<>>
      BY <1>18 DEF FlushPending, Flushed
    <3>2. tx \in Seq(Messages) /\ pending \in Seq(Messages) /\ <<>> \in Seq(Messages)
      BY DEF TypeOK
    <3>3. tx \o pending \in Seq(Messages)
      BY <3>2, ConcatType
    <3> QED BY <3>1, <3>3
  <2>2. queue_bytes' \in Nat
    <3>1. strand.q \in Nat /\ queue_bytes \in Nat
      BY DEF TypeOK, Running
    <3>2. queue_bytes' = queue_bytes + strand.q
      BY <1>18 DEF FlushPending
    <3> QED BY <3>1, <3>2
  <2>3. bp' \in BOOLEAN /\ told' \in BOOLEAN
    BY <1>18 DEF FlushPending, TypeOK
  <2>4. strand' \in Running
    BY <1>18 DEF FlushPending, TypeOK, Running
  <2> QED BY <1>18, <2>1, <2>2, <2>3, <2>4 DEF FlushPending, TypeOK, flags, io
<1>19. CASE TurnOnAgain
  <2>1. bp' \in BOOLEAN /\ told' \in BOOLEAN
    BY <1>19 DEF TurnOnAgain, TypeOK
  <2>2. strand' \in Running
    BY <1>19 DEF TurnOnAgain, TypeOK, Running
  <2> QED BY <1>19, <2>1, <2>2 DEF TurnOnAgain, TypeOK, flags, io
<1>15. CASE Kick
  <2>1. /\ tx' \in Seq(Messages) /\ cur' \in Seq(Messages) /\ Len(cur') =< 1
        /\ writing' \in BOOLEAN /\ armed' \subseteq {"read", "write", "idle"}
    BY <1>15, DoWriteType DEF Kick, TypeOK, StartedWrite
  <2> QED BY <1>15, <2>1 DEF Kick, TypeOK, flags, ghosts
<1>16. CASE FinishWrote
  <2>1. strand' \in Running /\ strandQ' = strandQ /\ th' = th /\ nextId' = nextId
    BY <1>16 DEF FinishWrote
  <2>2. CASE strand.ok
    <3>1. strand.msg \in Messages
      BY DEF TypeOK, Running
    <3>2. sent' \in Seq(Messages) /\ armed' \subseteq {"read", "write", "idle"}
      <4>1. sent' = Append(sent, strand.msg) /\ sent \in Seq(Messages)
        BY <1>16, <2>2 DEF FinishWrote, TypeOK
      <4>2. armed' \subseteq {"read", "write", "idle"}
        BY <1>16, <2>2 DEF FinishWrote, TypeOK, ResetIdle, StartedWrite
      <4>3. Append(sent, strand.msg) \in Seq(Messages)
        BY <3>1, <4>1, AppendType
      <4> QED BY <4>1, <4>2, <4>3
    <3> QED BY <1>16, <2>1, <2>2, <3>2, DoWriteType DEF FinishWrote, TypeOK, flags
  <2>3. CASE ~strand.ok
    <3>1. callbacks \in BOOLEAN /\ DoClose(callbacks)
      BY <1>16, <2>3 DEF FinishWrote, TypeOK
    <3> QED BY <2>1, <3>1, DoCloseType DEF TypeOK
  <2> QED BY <2>2, <2>3
<1>17. CASE ZeroBytes
  <2>1. strand' \in Running /\ queue_bytes' = 0
    BY <1>17 DEF ZeroBytes, TypeOK, Running
  <2> QED BY <1>17, <2>1 DEF ZeroBytes, TypeOK, flags, io, ghosts
<1> QED
  BY <1>1, <1>2, <1>3, <1>4, <1>5, <1>6, <1>7, <1>8, <1>9, <1>10, <1>11, <1>12, <1>13,
     <1>14, <1>15, <1>16, <1>17, <1>18, <1>19 DEF Strand

\* A call from outside, a completion or an expiry keeps the types.
LEMMA TypeEnvironment ==
  ASSUME TypeOK, InFlight, Environment
  PROVE  TypeOK'
<1> USE BoundsType, RecordTypes
<1>1. CASE Register
  <2>1. strandQ' \in Seq(Handlers)
    BY <1>1, PostType DEF Register, Handler, Handlers
  <2> QED BY <1>1, <2>1 DEF Register, TypeOK, flags, queues, io, ghosts
<1>2. CASE Start
  <2>1. strandQ' \in Seq(Handlers)
    BY <1>2, PostType DEF Start, Handler, Handlers
  <2> QED BY <1>2, <2>1 DEF Start, TypeOK, flags, queues, io, ghosts
<1>3. CASE Stop
  <2>1. strandQ' \in Seq(Handlers)
    BY <1>3, PostType DEF Stop, Handler, Handlers
  <2> QED BY <1>3, <2>1 DEF Stop, TypeOK, flags, queues, io, ghosts
<1>4. CASE Cancel
  <2>1. strandQ' \in Seq(Handlers)
    BY <1>4, PostType DEF Cancel, Handler, Handlers
  <2> QED BY <1>4, <2>1 DEF Cancel, TypeOK, flags, queues, io, ghosts
<1>5. ASSUME NEW ok \in BOOLEAN, ReadCompletes(ok) PROVE TypeOK'
  <2>1. Handler("read", NoMsg, 0, ok) \in Handlers
    BY DEF Handler, Handlers
  <2>2. strandQ' \in Seq(Handlers)
    BY <1>5, <2>1, PostType DEF ReadCompletes
  <2> QED BY <1>5, <2>2 DEF ReadCompletes, TypeOK, flags, queues, io, ghosts
<1>6. ASSUME NEW n \in 0..MaxBuffer, WriteCompletes(n), cur # <<>> PROVE TypeOK'
  <2>1. cur[1] \in Messages
    <3>1. cur \in Seq(Messages)
      BY DEF TypeOK
    <3> QED BY <1>6, <3>1
  <2>2. Handler("wrote", cur[1], n, n = cur[1].size) \in Handlers
    BY <2>1 DEF Handler, Handlers
  <2>3. strandQ' \in Seq(Handlers)
    BY <1>6, <2>2, PostType DEF WriteCompletes
  <2> QED BY <1>6, <2>3 DEF WriteCompletes, TypeOK, flags, queues, io, ghosts
<1>7. CASE IdleExpires
  <2>1. strandQ' \in Seq(Handlers)
    BY <1>7, PostType DEF IdleExpires, Handler, Handlers
  <2> QED BY <1>7, <2>1 DEF IdleExpires, TypeOK, flags, queues, io, ghosts
<1> QED
  BY <1>1, <1>2, <1>3, <1>4, <1>5, <1>6, <1>7 DEF Environment, InFlight, WriteCompletes

-----------------------------------------------------------------------------
(* The strand's queue, entry by entry.                                     *)

\* Posting adds one entry at the end.
LEMMA PostEntries ==
  ASSUME TypeOK, NEW h, Post(h)
  PROVE  /\ Len(strandQ) \in Nat /\ Len(strandQ') = Len(strandQ) + 1
         /\ \A i \in 1..Len(strandQ) : strandQ'[i] = strandQ[i]
         /\ strandQ'[Len(strandQ) + 1] = h
         /\ \A i \in 1..Len(strandQ') : i \in 1..Len(strandQ) \/ i = Len(strandQ) + 1
<1>1. strandQ \in Seq(Handlers) /\ strandQ' = Append(strandQ, h)
  BY DEF TypeOK, Post
<1> QED
  BY <1>1

\* Taking a handler moves every other entry up.
LEMMA TakeEntries ==
  ASSUME TypeOK, NEW kind, Take(kind)
  PROVE  /\ Len(strandQ) \in Nat \ {0} /\ Len(strandQ') = Len(strandQ) - 1
         /\ strandQ[1] = Head(strandQ) /\ Head(strandQ).kind = kind
         /\ \A i \in 1..Len(strandQ') : i + 1 \in 1..Len(strandQ) /\ strandQ'[i] = strandQ[i + 1]
<1>1. strandQ \in Seq(Handlers) /\ strandQ # <<>> /\ strandQ' = Tail(strandQ)
      /\ Head(strandQ).kind = kind
  BY DEF TypeOK, Take
<1> QED
  BY <1>1

\* Posting anything but a completed write leaves the write in flight alone.
LEMMA PostFlight ==
  ASSUME TypeOK, InFlight, NEW h, Post(h), h.kind # "wrote",
         UNCHANGED <<cur, writing, strand>>, "write" \in armed' => "write" \in armed
  PROVE  InFlight'
<1>1. ASSUME NEW i \in 1..Len(strandQ'), strandQ'[i].kind = "wrote"
      PROVE  i \in 1..Len(strandQ) /\ strandQ'[i] = strandQ[i]
  BY <1>1, PostEntries
<1> QED
  BY <1>1 DEF InFlight, InQueue, OnWrite

\* So does taking one, as long as the strand does not begin with it.
LEMMA TakeFlight ==
  ASSUME TypeOK, InFlight, NEW kind, Take(kind), kind # "wrote",
         UNCHANGED <<cur, writing>>, Returns, ~OnWrite',
         "write" \in armed' => "write" \in armed
  PROVE  InFlight'
<1>1. ASSUME NEW i \in 1..Len(strandQ')
      PROVE  i + 1 \in 1..Len(strandQ) /\ strandQ'[i] = strandQ[i + 1]
  BY TakeEntries
<1>2. \A i, j \in 1..Len(strandQ') : i + 1 = j + 1 => i = j
  BY TakeEntries
<1>3. ~OnWrite
  BY DEF Take, Returns
<1> QED
  BY <1>1, <1>2, <1>3 DEF InFlight, InQueue, OnWrite

\* Posting a write that was checked, or anything else.
LEMMA PostPosted ==
  ASSUME TypeOK, Posted, NEW h, Post(h),
         h.kind \in {"write", "try"} => h.msg.size =< Limit
  PROVE  Posted'
BY PostEntries DEF Posted

\* Taking the front entry leaves the others checked, and itself.
LEMMA TakePosted ==
  ASSUME TypeOK, Posted, NEW kind, Take(kind)
  PROVE  /\ Posted'
         /\ kind \in {"write", "try"} => Head(strandQ).msg.size =< Limit
<1>1. 1 \in 1..Len(strandQ)
  BY TakeEntries
<1>2. kind \in {"write", "try"} => Head(strandQ).msg.size =< Limit
  BY <1>1, TakeEntries DEF Posted
<1>3. Posted'
  BY TakeEntries DEF Posted
<1> QED
  BY <1>2, <1>3

-----------------------------------------------------------------------------
(* Bounded is inductive.  First the steps that change few of its parts.    *)

\* A step that leaves the queues and the strand's handler alone keeps what
\* they have to satisfy.
LEMMA StillBounded ==
  ASSUME Bounded, UNCHANGED <<queues, strand>>
  PROVE  Parked' /\ Handling' /\ QueueBound'
BY DEF Bounded, Parked, Handling, QueueBound, queues

\* One step of a user thread.  A reservation is exchanged against the value
\* that was checked to fit below the high-water mark, and nothing else a
\* thread does moves a counter.
LEMMA BoundedUser ==
  ASSUME Bounded, NEW t \in Threads, User(t)
  PROVE  /\ Closed' /\ InFlight' /\ Parked' /\ Handling'
         /\ Calling' /\ Posted' /\ QueueBound'
<1> USE BoundsType DEF Bounded
<1>a. th \in [Threads -> Calls] /\ \A u \in Threads : th[u].msg.size \in Nat /\ th[u].q \in Nat
  BY DEF TypeOK, Calls, Messages
<1>b. queue_bytes \in Nat /\ pending_bytes \in Nat
  BY DEF TypeOK
<1>1. ASSUME NEW n \in Sizes, Call(t, "load", "write", n)
      PROVE  UNCHANGED <<flags, queues, io, strandQ, strand>> /\ Calling'
  BY <1>1, <1>a DEF Call, Calling, Resting
<1>8. ASSUME NEW n \in Sizes, Call(t, "check", "try", n)
      PROVE  UNCHANGED <<flags, queues, io, strandQ, strand>> /\ Calling'
  BY <1>8, <1>a DEF Call, Calling, Resting
<1>9. ASSUME WriteLoad(t)
      PROVE  UNCHANGED <<flags, queues, io, strandQ, strand>> /\ Calling'
  BY <1>9, <1>a DEF WriteLoad, Calling
<1>10. ASSUME TryCheck(t)
       PROVE  UNCHANGED <<flags, queues, io, strandQ, strand>> /\ Calling'
  BY <1>10, <1>a DEF TryCheck, Calling, Resting
<1>2. ASSUME WriteRoom(t)
      PROVE  UNCHANGED <<flags, queues, io, strandQ, strand>> /\ Calling'
  BY <1>2, <1>a, <1>b DEF WriteRoom, Calling, Resting
<1>3. ASSUME ReserveLoad(t)
      PROVE  UNCHANGED <<flags, queues, io, strandQ, strand>> /\ Calling'
  BY <1>3, <1>a, <1>b DEF ReserveLoad, ReserveFits, Calling, Resting
<1>4. ASSUME ReserveRetry(t)
      PROVE  UNCHANGED <<flags, queues, io, strandQ, strand>> /\ Calling'
  BY <1>4, <1>a, <1>b DEF ReserveRetry, Calling
<1>5. ASSUME UNCHANGED <<flags, queues, io, strandQ, strand>>, Calling'
      PROVE  /\ Closed' /\ InFlight' /\ Parked' /\ Handling'
             /\ Calling' /\ Posted' /\ QueueBound'
  <2>1. Parked' /\ Handling' /\ QueueBound'
    BY <1>5, StillBounded
  <2>2. InFlight'
    BY <1>5 DEF InFlight, InQueue, OnWrite, queues, io
  <2>3. Closed' /\ Posted'
    BY <1>5 DEF Closed, Posted, flags
  <2> QED BY <1>5, <2>1, <2>2, <2>3
<1>6. CASE ReserveExchange(t)
  <2>1. queue_bytes' =< High /\ queue_bytes' = queue_bytes + th[t].msg.size
    BY <1>6, <1>a, <1>b DEF ReserveExchange, Calling
  <2>2. /\ UNCHANGED <<flags, tx, pending, cur, pending_bytes, bp, writing, io, strandQ, strand>>
    BY <1>6 DEF ReserveExchange
  <2>3. Calling'
    BY <1>6, <1>a DEF ReserveExchange, Calling
  <2>a. Parked' /\ QueueBound'
    BY <2>1, <2>2, <1>a, <1>b DEF Parked, QueueBound
  <2>b. strand'.pc = "flush" => queue_bytes' + strand'.q =< Limit + High
    <3>1. strand' = strand /\ strand.q \in Nat
      BY <2>2 DEF TypeOK, Running
    <3> QED BY <2>1, <3>1, <1>a, <1>b DEF Handling
  <2>4. Parked' /\ Handling' /\ QueueBound'
    BY <2>a, <2>b, <2>1, <2>2, <1>a, <1>b DEF Handling
  <2>5. InFlight'
    BY <2>2 DEF InFlight, InQueue, OnWrite, io
  <2>6. Closed' /\ Posted'
    BY <2>2 DEF Closed, Posted, flags
  <2> QED BY <2>3, <2>4, <2>5, <2>6
<1>7. CASE PostWrite(t)
  <2> DEFINE h == Handler(th[t].msg.op, [th[t].msg EXCEPT !.id = nextId], 0, TRUE)
  <2>1. Post(h) /\ UNCHANGED <<flags, queues, io, strand>> /\ th' = [th EXCEPT ![t] = Resting]
        /\ th[t].pc = "post"
    BY <1>7 DEF PostWrite
  <2>2. th[t].msg \in Messages /\ th[t].msg.op \in {"write", "try"}
    BY <2>1, <1>a DEF TypeOK, Calls
  <2>3. h.kind # "wrote" /\ h.msg.size =< Limit
    BY <2>1, <2>2 DEF Handler, Calling, Messages
  <2> HIDE DEF h
  <2>4. InFlight'
    BY <2>1, <2>3, PostFlight DEF queues, io
  <2>5. Posted'
    BY <2>1, <2>3, PostPosted
  <2>6. Calling'
    BY <2>1, <1>a DEF Calling, Resting
  <2>7. Closed'
    BY <2>1 DEF Closed, flags
  <2> QED BY <2>1, <2>4, <2>5, <2>6, <2>7, StillBounded
<1> QED
  BY <1>1, <1>2, <1>3, <1>4, <1>5, <1>6, <1>7, <1>8, <1>9, <1>10
     DEF User, AsyncWriteCopy, AsyncWriteMove, AsyncWriteShared, AsyncTryWriteMove,
         AsyncTryWriteShared

\* One step from outside the session: each only posts, and a write that
\* completes is the one whose buffer current_write_buffer_ holds.
LEMMA BoundedEnvironment ==
  ASSUME Bounded, Environment
  PROVE  /\ Closed' /\ InFlight' /\ Parked' /\ Handling'
         /\ Calling' /\ Posted' /\ QueueBound'
<1> USE BoundsType DEF Bounded
<1>1. ASSUME NEW h, Post(h), h.kind \notin {"wrote", "write", "try"},
             UNCHANGED <<cleanup_done, queues, strand, th>>, closing => closing',
             "write" \in armed' => "write" \in armed
      PROVE  /\ Closed' /\ InFlight' /\ Parked' /\ Handling'
             /\ Calling' /\ Posted' /\ QueueBound'
  <2>1. InFlight'
    BY <1>1, PostFlight DEF queues
  <2>2. Posted'
    BY <1>1, PostPosted
  <2>3. Closed' /\ Calling'
    BY <1>1 DEF Closed, Calling
  <2> QED BY <1>1, <2>1, <2>2, <2>3, StillBounded
<1>2. CASE Register
  BY <1>1, <1>2 DEF Register, Handler, flags, io
<1>3. CASE Start
  BY <1>1, <1>3 DEF Start, Handler, flags, io
<1>4. CASE Stop
  BY <1>1, <1>4 DEF Stop, Handler, flags, io
<1>5. CASE Cancel
  BY <1>1, <1>5 DEF Cancel, Handler, flags, io
<1>6. ASSUME NEW ok \in BOOLEAN, ReadCompletes(ok)
      PROVE  /\ Closed' /\ InFlight' /\ Parked' /\ Handling'
             /\ Calling' /\ Posted' /\ QueueBound'
  BY <1>1, <1>6 DEF ReadCompletes, Handler, flags, io
<1>7. CASE IdleExpires
  BY <1>1, <1>7 DEF IdleExpires, Handler, flags, io
<1>8. ASSUME NEW n \in 0..MaxBuffer, WriteCompletes(n)
      PROVE  /\ Closed' /\ InFlight' /\ Parked' /\ Handling'
             /\ Calling' /\ Posted' /\ QueueBound'
  <2> DEFINE h == Handler("wrote", cur[1], n, n = cur[1].size)
  <2>1. /\ Post(h) /\ "write" \in armed /\ n =< cur[1].size /\ armed' = armed \ {"write"}
        /\ UNCHANGED <<flags, queues, strand, th>>
    BY <1>8 DEF WriteCompletes
  <2>2. cur # <<>> /\ ~InQueue("wrote") /\ ~OnWrite /\ writing
    BY <2>1 DEF InFlight
  <2>3. cur = <<cur[1]>>
    <3>1. cur \in Seq(Messages) /\ Len(cur) =< 1
      BY DEF TypeOK
    <3> QED BY <2>2, <3>1, OnlyOne
  <2>4. h.kind = "wrote" /\ h.msg = cur[1] /\ h.n = n /\ (h.ok => n = cur[1].size)
    BY DEF Handler
  <2> HIDE DEF h
  <2>5. InFlight'
    <3>1. ASSUME NEW i \in 1..Len(strandQ'), strandQ'[i].kind = "wrote"
          PROVE  i = Len(strandQ) + 1 /\ strandQ'[i] = h
      BY <3>1, <2>1, <2>2, PostEntries DEF InQueue
    <3>2. cur' = cur /\ writing' = writing /\ strand' = strand /\ "write" \notin armed'
      BY <2>1 DEF queues
    <3> QED BY <3>1, <3>2, <2>1, <2>2, <2>3, <2>4 DEF InFlight, OnWrite
  <2>6. Posted'
    BY <2>1, <2>4, PostPosted
  <2>7. Closed' /\ Calling'
    BY <2>1 DEF Closed, Calling, flags
  <2> QED BY <2>1, <2>5, <2>6, <2>7, StillBounded
<1> QED
  BY <1>2, <1>3, <1>4, <1>5, <1>6, <1>7, <1>8 DEF Environment

\* do_close() leaves nothing queued or pending; nothing it does is a write.
LEMMA BoundedClose ==
  ASSUME Bounded, NEW cbs, DoClose(cbs)
  PROVE  /\ cleanup_done' /\ closing' /\ QueueBound' /\ Parked'
         /\ UNCHANGED <<cur, writing>> /\ ("write" \in armed' => "write" \in armed)
<1>1. CASE cleanup_done
  BY <1>1 DEF DoClose, Bounded, Closed, QueueBound, Parked, flags, queues, io
<1>2. CASE ~cleanup_done
  <2>1. /\ closing' = TRUE /\ cleanup_done' = TRUE /\ queue_bytes' = 0 /\ pending_bytes' = 0
        /\ armed' = armed \ {"idle"} /\ cur' = cur /\ writing' = writing
    BY <1>2 DEF DoClose, DropQueues, ReportClose
  <2> QED BY <2>1, BoundsType DEF QueueBound, Parked
<1> QED
  BY <1>1, <1>2

\* A handler never forgets whether it is on_write.
LEMMA ReturnsStep ==
  ASSUME Bounded, Next
  PROVE  Returns'
<1>a. Returns /\ strand \in Running
  BY DEF Bounded, TypeOK
<1>b. ASSUME UNCHANGED strand PROVE Returns'
  BY <1>a, <1>b DEF Returns, OnWrite
<1>1. ASSUME NEW t \in Threads, User(t) PROVE Returns'
  BY <1>1, <1>b DEF User, AsyncWriteCopy, AsyncWriteMove, AsyncWriteShared, AsyncTryWriteMove,
       AsyncTryWriteShared, Call, WriteLoad, WriteRoom, TryCheck, ReserveLoad, ReserveExchange,
       ReserveRetry, PostWrite
<1>2. CASE Environment
  BY <1>2, <1>b DEF Environment, Register, Start, Stop, Cancel, ReadCompletes, WriteCompletes,
       IdleExpires
<1>3. CASE RunRegister \/ RunStart \/ RunCancel \/ RunStop \/ RunRead \/ RunIdle
  BY <1>3, <1>b DEF RunRegister, RunStart, RunCancel, RunStop, RunRead, RunIdle
<1>4. CASE RunWrite \/ RunTry \/ RunWrote
  BY <1>4, <1>b DEF RunWrite, RunTry, RunWrote, Returns, OnWrite, Idle
<1>5. CASE TrimLoad \/ TrimStore \/ CheckLimit \/ Enqueue
  BY <1>5, <1>a DEF TrimLoad, TrimStore, CheckLimit, Enqueue, Returns, OnWrite, Running, Idle
<1>6. CASE ReportBackpressure \/ FlushPending \/ TurnOnAgain
  <2>1. CASE ReportBackpressure
    <3>1. strand.pc = "wrote" => strand.after = "finish"
      BY <1>a DEF Returns, OnWrite
    <3>2. strand.pc \in {"queued", "over"} => strand.after = "kick"
      BY <1>a DEF Returns, OnWrite, Running
    <3>3. strand.pc \in {"queued", "wrote", "over"}
      BY <2>1 DEF ReportBackpressure
    <3>4. \/ strand' = Idle
          \/ strand'.pc = "flush" /\ strand'.after = strand.after
          \/ strand'.pc = strand.after /\ strand'.after = strand.after
      BY <2>1, <1>a DEF ReportBackpressure, Running
    <3> QED BY <3>1, <3>2, <3>3, <3>4 DEF Returns, OnWrite, Idle
  <2>2. CASE FlushPending
    BY <2>2, <1>a DEF FlushPending, Returns, OnWrite, Running
  <2>3. CASE TurnOnAgain
    <3>1. strand'.pc = strand.after /\ strand'.after = strand.after /\ strand.after \in {"kick", "finish"}
      BY <2>3, <1>a DEF TurnOnAgain, Running
    <3> QED BY <3>1 DEF Returns, OnWrite
  <2> QED BY <1>6, <2>1, <2>2, <2>3
<1>7. CASE Kick \/ FinishWrote \/ ZeroBytes
  BY <1>7, <1>a DEF Kick, FinishWrote, ZeroBytes, Returns, OnWrite, Running, Idle
<1> QED
  BY <1>1, <1>2, <1>3, <1>4, <1>5, <1>6, <1>7 DEF Next, Strand

\* do_write(), when no write is in flight, begins the only one.
LEMMA BeginWrite ==
  ASSUME TypeOK, cur = <<>>, DoWrite, "write" \notin armed, ~InQueue("wrote"),
         UNCHANGED strandQ, ~OnWrite',
         "write" \in armed' => tx # <<>>
  PROVE  InFlight'
<1>1. \A i \in 1..Len(strandQ') : strandQ'[i].kind # "wrote"
  BY DEF InQueue
<1>2. ~InQueue("wrote")'
  BY DEF InQueue
<1>3. CASE tx = <<>>
  BY <1>1, <1>2, <1>3 DEF DoWrite, InFlight
<1>4. CASE tx # <<>>
  <2>1. cur' = <<Head(tx)>> /\ writing' = TRUE
    BY <1>4 DEF DoWrite
  <2>2. cur' # <<>>
    BY <2>1
  <2> QED BY <1>1, <1>2, <2>1, <2>2 DEF InFlight
<1> QED
  BY <1>3, <1>4

\* One step of a handler.
LEMMA BoundedStrand ==
  ASSUME Bounded, Strand
  PROVE  /\ Closed' /\ InFlight' /\ Parked' /\ Handling'
         /\ Calling' /\ Posted' /\ QueueBound'
<1> DEFINE Goal == /\ Closed' /\ InFlight' /\ Parked' /\ Handling'
                   /\ Calling' /\ Posted' /\ QueueBound'
<1> USE BoundsType DEF Bounded
<1>a. /\ queue_bytes \in Nat /\ pending_bytes \in Nat /\ strand.msg.size \in Nat
      /\ strand \in Running /\ strand.q \in Nat
  BY DEF TypeOK, Running, Messages
<1>r. Returns' /\ (strand'.pc \notin {"zero", "wrote", "flush", "again", "finish"} => ~OnWrite')
  BY ReturnsStep DEF Returns, Next
<1>s. Returns /\ (strand.pc \notin {"zero", "wrote", "flush", "again", "finish"} => ~OnWrite)
  BY DEF Returns
<1>b. ASSUME NEW kind, Take(kind), kind # "wrote", UNCHANGED <<strand, th>>,
             QueueBound', Parked', UNCHANGED <<cur, writing>>,
             "write" \in armed' => "write" \in armed, cleanup_done' => closing'
      PROVE  Goal
  <2>1. strand'.pc = "idle"
    BY <1>b DEF Take
  <2>2. Closed' /\ Handling'
    BY <1>b, <2>1 DEF Closed, Handling
  <2>3. Calling'
    BY <1>b DEF Calling
  <2>4. Posted'
    BY <1>b, TakePosted
  <2>5. InFlight'
    BY <1>b, <1>r, <1>s, <2>1, TakeFlight
  <2> QED BY <1>b, <2>2, <2>3, <2>4, <2>5
<1>c. ASSUME NEW kind, Take(kind), kind # "wrote", UNCHANGED <<strand, th>>,
             NEW cbs, DoClose(cbs)
      PROVE  Goal
  BY <1>b, <1>c, BoundedClose
<1>d. ASSUME UNCHANGED <<strandQ, th, cur, writing, armed>>,
             ~OnWrite', ~OnWrite
      PROVE  InFlight' /\ Calling' /\ Posted'
  BY <1>d DEF InFlight, InQueue, Calling, Posted
<1>1. CASE RunRegister
  BY <1>1, <1>b, StillBounded DEF RunRegister, Closed, queues, io
<1>2. CASE RunStart
  BY <1>2, <1>b, StillBounded DEF RunStart, ResetIdle, Closed, queues, flags
<1>3. CASE RunStop
  <2>1. CASE cleanup_done
    BY <1>3, <2>1, <1>b, StillBounded DEF RunStop, Closed, queues, flags
  <2>2. CASE ~cleanup_done
    BY <1>3, <2>2, <1>c DEF RunStop
  <2> QED BY <2>1, <2>2
<1>4. CASE RunCancel
  BY <1>4, <1>b, StillBounded DEF RunCancel, Closed, queues, flags
<1>5. CASE RunRead
  <2>1. Take("read") /\ UNCHANGED <<strand, th>>
    BY <1>5 DEF RunRead
  <2>2. CASE UNCHANGED <<flags, queues, io, ghosts>>
    BY <2>1, <2>2, <1>b, StillBounded DEF Closed, queues, flags, io
  <2>3. CASE DoClose(callbacks)
    BY <2>1, <2>3, <1>c
  <2>4. CASE /\ armed' = armed \cup ResetIdle \cup {"read"}
             /\ UNCHANGED <<flags, queues, socket_open, ghosts>>
    BY <2>1, <2>4, <1>b, StillBounded DEF ResetIdle, Closed, queues, flags
  <2> QED BY <1>5, <2>2, <2>3, <2>4 DEF RunRead
<1>6. CASE RunIdle
  <2>1. Take("idle") /\ UNCHANGED <<strand, th>>
    BY <1>6 DEF RunIdle
  <2>2. CASE UNCHANGED <<flags, queues, io, ghosts>>
    BY <2>1, <2>2, <1>b, StillBounded DEF Closed, queues, flags, io
  <2>3. CASE DoClose(callbacks)
    BY <2>1, <2>3, <1>c
  <2> QED BY <1>6, <2>2, <2>3 DEF RunIdle
<1>7. CASE RunWrite
  <2> DEFINE m == Head(strandQ).msg
  <2>1. /\ Take("write") /\ UNCHANGED <<th, cur, writing, armed, closing, cleanup_done>>
        /\ UNCHANGED <<queue_bytes, bp>>
    BY <1>7 DEF RunWrite, MustPark, NoRoomToPark, flags, io
  <2>2. m \in Messages /\ m.size \in Nat /\ m.size =< Limit
    BY <2>1, TakeType, TakePosted DEF Messages
  <2>3. strand.pc = "idle"
    BY <2>1 DEF Take
  <2> HIDE DEF m
  <2>4. CASE ~Live
    BY <1>7, <2>1, <2>4, <1>b DEF RunWrite, MustPark, NoRoomToPark, QueueBound, Parked, Closed
  <2>5. CASE Live /\ MustPark
    <3>1. /\ UNCHANGED strand
          /\ \/ pending_bytes' = pending_bytes
             \/ /\ queue_bytes + pending_bytes + m.size =< Limit
                /\ pending_bytes' = pending_bytes + m.size
      BY <1>7, <2>2, <2>5, <1>a DEF RunWrite, MustPark, NoRoomToPark, m
    <3>2. QueueBound' /\ Parked'
      BY <3>1, <2>1, <2>2, <2>5, <1>a DEF QueueBound, Parked, MustPark
    <3> QED BY <2>1, <3>1, <3>2, <1>b DEF Closed
  <2>6. CASE Live /\ ~MustPark
    <3>1. /\ strand' = [Idle EXCEPT !.pc = IF Strategy = "BestEffort" THEN "trim" ELSE "check",
                                    !.msg = m]
          /\ pending_bytes' = pending_bytes
      BY <1>7, <2>6 DEF RunWrite, MustPark, NoRoomToPark, m
    <3>2. strand'.pc \in {"trim", "check"} /\ strand'.msg = m
          /\ (strand'.pc = "trim" => Strategy = "BestEffort")
      BY <3>1 DEF Idle
    <3>3. pending_bytes = 0
      BY <2>6, <1>a, SessionAssumption DEF Parked, MustPark
    <3>4. Handling' /\ Parked' /\ QueueBound'
      BY <2>1, <2>2, <3>1, <3>2, <3>3, <1>a DEF Handling, Parked, QueueBound
    <3>5. ~cleanup_done'
      BY <2>1, <2>6 DEF Live, Closed
    <3>6. InFlight'
      BY <2>1, <3>2, TakeFlight, <1>r, <1>s
    <3> QED BY <2>1, <3>4, <3>5, <3>6, TakePosted DEF Closed, Calling
  <2> QED BY <2>4, <2>5, <2>6
<1>8. CASE TrimLoad
  <2>1. /\ UNCHANGED <<closing, cleanup_done, strandQ, th, cur, writing, armed>>
        /\ UNCHANGED <<pending_bytes, queue_bytes, bp>>
        /\ strand.pc = "trim" /\ strand'.pc \in {"store", "check"} /\ strand'.msg = strand.msg
        /\ (strand'.pc = "store" => strand'.q = queue_bytes)
    BY <1>8, <1>a DEF TrimLoad, Running, flags, queues, io
  <2>2. Handling' /\ Parked' /\ QueueBound'
    BY <2>1, <1>a DEF Handling, Parked, QueueBound
  <2> QED BY <2>1, <2>2, <1>d, <1>r, <1>s DEF Closed
<1>9. CASE TrimStore
  <2> DEFINE v == KeepLatestVictims(tx, strand.msg.size, High)
  <2>1. /\ UNCHANGED <<closing, cleanup_done, strandQ, th, cur, writing, armed>>
        /\ UNCHANGED <<pending_bytes, bp>>
        /\ strand.pc = "store" /\ strand'.pc \in {"trim", "check"} /\ strand'.msg = strand.msg
        /\ queue_bytes' = Monus(strand.q, Bytes(v))
    BY <1>9, <1>a DEF TrimStore, Running, flags, io
  <2>2. Bytes(v) \in Nat
    <3>1. v \in Seq(Messages)
      BY VictimsType DEF TypeOK
    <3> QED BY <3>1, BytesType, RecordTypes
  <2> HIDE DEF v
  <2>3. queue_bytes' \in Nat /\ queue_bytes' =< strand.q
    BY <2>1, <2>2, <1>a, MonusType
  <2>4. Parked' /\ pending_bytes = 0 /\ strand.msg.size =< Limit /\ strand.q =< Limit + High
    BY <2>1, <1>a DEF Handling, Parked
  <2>5. Handling'
    BY <2>1, <2>4, <1>a DEF Handling
  <2>6. QueueBound'
    BY <2>1, <2>3, <2>4, <1>a DEF QueueBound
  <2> QED BY <2>1, <2>4, <2>5, <2>6, <1>d, <1>r, <1>s DEF Closed
<1>10. CASE CheckLimit
  <2>1. /\ UNCHANGED <<closing, cleanup_done, strandQ, th, cur, writing, armed>>
        /\ UNCHANGED <<pending_bytes, queue_bytes, bp>>
        /\ strand.pc = "check" /\ strand'.pc \in {"over", "enqueue"} /\ strand'.msg = strand.msg
        /\ (strand'.pc = "enqueue" => queue_bytes + strand.msg.size =< Limit)
    BY <1>10, <1>a DEF CheckLimit, Running, flags, queues, io
  <2>2. Handling' /\ Parked' /\ QueueBound'
    BY <2>1, <1>a DEF Handling, Parked, QueueBound
  <2> QED BY <2>1, <2>2, <1>d, <1>r, <1>s DEF Closed
<1>11. CASE Enqueue
  <2>1. /\ UNCHANGED <<closing, cleanup_done, strandQ, th, cur, writing, armed>>
        /\ UNCHANGED <<pending_bytes, bp>>
        /\ strand.pc = "enqueue" /\ strand'.pc = "queued"
        /\ queue_bytes' = queue_bytes + strand.msg.size
    BY <1>11 DEF Enqueue, flags, io, Idle
  <2>2. Handling' /\ Parked' /\ QueueBound'
    BY <2>1, <1>a DEF Handling, Parked, QueueBound
  <2> QED BY <2>1, <2>2, <1>d, <1>r, <1>s DEF Closed
<1>12. CASE RunTry
  <2> DEFINE m == Head(strandQ).msg
  <2>1. /\ Take("try") /\ UNCHANGED <<th, cur, writing, armed, closing, cleanup_done>>
        /\ UNCHANGED <<pending_bytes, bp>>
    BY <1>12 DEF RunTry, flags, io
  <2>2. m \in Messages /\ m.size \in Nat
    BY <2>1, TakeType DEF Messages
  <2>3. CASE Live
    <3>1. strand'.pc = "queued" /\ queue_bytes' = queue_bytes
      BY <1>12, <2>3 DEF RunTry, Idle
    <3>2. Handling' /\ Parked' /\ QueueBound'
      BY <2>1, <3>1 DEF Handling, Parked, QueueBound
    <3>3. ~cleanup_done'
      BY <2>1, <2>3 DEF Live, Closed
    <3>4. InFlight'
      BY <2>1, <3>1, TakeFlight, <1>r, <1>s
    <3> QED BY <2>1, <3>2, <3>3, <3>4, TakePosted DEF Closed, Calling
  <2>4. CASE ~Live
    <3>1. strand' = strand /\ queue_bytes' = Monus(queue_bytes, m.size)
      BY <1>12, <2>4 DEF RunTry
    <3> HIDE DEF m
    <3>2. queue_bytes' \in Nat /\ queue_bytes' =< queue_bytes
      BY <3>1, <2>2, <1>a, MonusType
    <3>3. Parked'
      BY <2>1 DEF Parked
    <3>4. QueueBound'
      <4>1. pending_bytes' = pending_bytes /\ queue_bytes + pending_bytes =< Limit + High
        BY <2>1 DEF QueueBound
      <4> HIDE DEF Bounded
      <4>2. Limit + High \in Nat
        OBVIOUS
      <4>3. queue_bytes' + pending_bytes =< Limit + High
        BY <4>1, <4>2, <3>2, <1>a, StaysBelow
      <4> QED BY <4>1, <4>3 DEF QueueBound
    <3> QED BY <2>1, <3>1, <3>3, <3>4, <1>b DEF Closed
  <2> QED BY <2>3, <2>4
<1>13. CASE RunWrote
  <2> DEFINE h == Head(strandQ)
  <2>1. /\ Take("wrote") /\ UNCHANGED <<th, writing, armed, closing, cleanup_done>>
        /\ UNCHANGED <<pending_bytes, bp>> /\ cur' = <<>>
    BY <1>13 DEF RunWrote, flags, io
  <2>2. h.n \in Nat /\ strandQ[1] = h /\ h.kind = "wrote" /\ 1 \in 1..Len(strandQ)
    BY <2>1, TakeType, TakeEntries
  <2>3. /\ cur = <<h.msg>> /\ h.n =< h.msg.size /\ (h.ok => h.n = h.msg.size)
        /\ writing /\ "write" \notin armed
    BY <2>2 DEF InFlight, InQueue, OnWrite
  <2> HIDE DEF h
  <2>4. \A i \in 1..Len(strandQ') : strandQ'[i].kind # "wrote"
    <3>1. \A i \in 1..Len(strandQ) : strandQ[i].kind = "wrote" => i = 1
      BY <2>2 DEF InFlight
    <3>2. ASSUME NEW i \in 1..Len(strandQ')
          PROVE  i + 1 \in 1..Len(strandQ) /\ strandQ'[i] = strandQ[i + 1] /\ i + 1 # 1
      BY <2>1, TakeEntries
    <3> QED BY <3>1, <3>2
  <2>5. CASE Live
    <3>1. /\ strand'.pc \in {"zero", "wrote"}
          /\ strand'.msg = h.msg /\ strand'.n = h.n /\ strand'.ok = h.ok
          /\ \/ queue_bytes' = queue_bytes - 0
             \/ queue_bytes >= h.n /\ queue_bytes' = queue_bytes - h.n
      BY <1>13, <2>5 DEF RunWrote, Idle, h
    <3>2. queue_bytes' \in Nat /\ queue_bytes' =< queue_bytes
      BY <3>1, <2>2, <1>a
    <3>a. Handling' /\ Parked'
      BY <2>1, <3>1 DEF Handling, Parked
    <3>b. QueueBound'
      <4>1. /\ pending_bytes' = pending_bytes /\ queue_bytes + pending_bytes =< Limit + High
            /\ Limit + High \in Nat
        BY <2>1 DEF QueueBound
      <4>2. queue_bytes' + pending_bytes =< Limit + High
        BY <4>1, <3>2, <1>a, StaysBelow
      <4> QED BY <4>1, <4>2 DEF QueueBound
    <3>3. Handling' /\ Parked' /\ QueueBound'
      BY <3>a, <3>b
    <3>4. ~cleanup_done'
      BY <2>1, <2>5 DEF Live, Closed
    <3>5. InFlight'
      BY <2>1, <2>3, <2>4, <3>1 DEF InFlight
    <3> QED BY <2>1, <3>3, <3>4, <3>5, TakePosted DEF Closed, Calling
  <2>6. CASE ~Live
    <3>1. strand' = strand /\ queue_bytes' = queue_bytes /\ strand.pc = "idle"
      BY <1>13, <2>1, <2>6 DEF RunWrote, Take
    <3>2. Handling' /\ Parked' /\ QueueBound'
      BY <2>1, <3>1 DEF Handling, Parked, QueueBound
    <3>3. InFlight'
      BY <2>1, <2>3, <2>4, <3>1, <1>r DEF InFlight
    <3> QED BY <2>1, <3>1, <3>2, <3>3, TakePosted DEF Closed, Calling
  <2> QED BY <2>5, <2>6
<1>14. CASE ReportBackpressure
  <2>1. /\ UNCHANGED <<closing, cleanup_done, strandQ, th, cur, writing, armed, queue_bytes>>
        /\ strand.pc \in {"queued", "wrote", "over"}
        /\ OnWrite' = OnWrite
        /\ OnWrite => strand'.n = strand.n /\ strand'.msg = strand.msg /\ strand'.ok = strand.ok
    BY <1>14, <1>a, <1>s DEF ReportBackpressure, flags, io, Idle, Running, OnWrite, Returns
  <2>2. QueueBound' /\ Parked' /\ Handling'
    <3>1. CASE TurnOff
      <4>1. /\ strand'.pc = "flush" /\ strand'.q = pending_bytes /\ pending_bytes' = 0
        BY <1>14, <3>1, <1>a DEF ReportBackpressure, Running
      <4>2. Parked'
        BY <4>1, <1>a DEF Parked
      <4>3. QueueBound'
        BY <2>1, <4>1, <1>a DEF QueueBound
      <4>4. Handling'
        BY <2>1, <4>1, <1>a DEF QueueBound, Parked, Handling
      <4> QED BY <4>2, <4>3, <4>4
    <3>2. CASE ~TurnOff
      <4>1. /\ pending_bytes' = pending_bytes /\ bp' = (bp \/ TurnOn)
            /\ strand'.pc \in {"kick", "finish", "idle"}
        BY <1>14, <3>2, <1>a DEF ReportBackpressure, Idle, Running
      <4> QED BY <2>1, <4>1, <1>a DEF QueueBound, Parked, Handling
    <3> QED BY <3>1, <3>2
  <2>3. InFlight'
    BY <2>1 DEF InFlight, InQueue
  <2>4. Closed' /\ Calling' /\ Posted'
    BY <2>1 DEF Closed, Calling, Posted
  <2> QED BY <2>2, <2>3, <2>4
<1>18. CASE FlushPending
  <2>1. /\ UNCHANGED <<closing, cleanup_done, strandQ, th, cur, writing, armed, pending_bytes>>
        /\ strand.pc = "flush" /\ strand'.pc = "again" /\ queue_bytes' = queue_bytes + strand.q
        /\ strand'.n = strand.n /\ strand'.msg = strand.msg /\ strand'.ok = strand.ok
        /\ strand'.after = strand.after
    BY <1>18, <1>a DEF FlushPending, flags, io, Running
  <2>2. pending_bytes = 0 /\ queue_bytes + strand.q =< Limit + High
    BY <2>1 DEF Handling
  <2>3. QueueBound' /\ Parked' /\ Handling'
    <3>1. QueueBound'
      BY <2>1, <2>2, <1>a DEF QueueBound
    <3>2. Parked'
      BY <2>1, <2>2, <1>a DEF Parked
    <3>3. Handling'
      BY <2>1, <2>2 DEF Handling
    <3> QED BY <3>1, <3>2, <3>3
  <2>4. InFlight'
    BY <2>1 DEF InFlight, InQueue, OnWrite
  <2>5. Closed' /\ Calling' /\ Posted'
    BY <2>1 DEF Closed, Calling, Posted
  <2> QED BY <2>3, <2>4, <2>5
<1>19. CASE TurnOnAgain
  <2>1. /\ UNCHANGED <<closing, cleanup_done, strandQ, th, cur, writing, armed>>
        /\ UNCHANGED <<pending_bytes, queue_bytes>>
        /\ strand.pc = "again" /\ strand'.pc \in {"kick", "finish"}
        /\ strand'.n = strand.n /\ strand'.msg = strand.msg /\ strand'.ok = strand.ok
        /\ strand'.after = strand.after /\ bp' = (queue_bytes >= High)
    BY <1>19, <1>a DEF TurnOnAgain, flags, io, Running
  <2>2. QueueBound' /\ Handling'
    BY <2>1 DEF QueueBound, Handling
  <2>3. Parked'
    BY <2>1, <1>a DEF Parked, Handling
  <2>4. InFlight'
    BY <2>1 DEF InFlight, InQueue, OnWrite
  <2>5. Closed' /\ Calling' /\ Posted'
    BY <2>1 DEF Closed, Calling, Posted
  <2> QED BY <2>2, <2>3, <2>4, <2>5
<1>15. CASE Kick
  <2>1. /\ UNCHANGED <<closing, cleanup_done, strandQ, th, pending_bytes, queue_bytes, bp>>
        /\ strand.pc = "kick" /\ strand'.pc = "idle"
    BY <1>15 DEF Kick, flags, Idle
  <2>2. Closed' /\ Handling' /\ Parked' /\ QueueBound' /\ Calling' /\ Posted'
    BY <2>1 DEF Closed, Handling, Parked, QueueBound, Calling, Posted
  <2>3. CASE writing
    BY <1>15, <2>1, <2>2, <2>3, <1>d, <1>r, <1>s DEF Kick
  <2>4. CASE ~writing
    <3>1. cur = <<>> /\ "write" \notin armed
      BY <2>4 DEF InFlight
    <3>2. ~InQueue("wrote")
      BY <3>1 DEF InFlight, InQueue, OnWrite
    <3>3. DoWrite /\ armed' = armed \cup StartedWrite
      BY <1>15, <2>4 DEF Kick
    <3>4. InFlight'
      BY <2>1, <3>1, <3>2, <3>3, BeginWrite, <1>r DEF StartedWrite
    <3> QED BY <2>2, <3>4
  <2> QED BY <2>3, <2>4
<1>16. CASE FinishWrote
  <2>1. strand.pc = "finish" /\ strand'.pc = "idle" /\ UNCHANGED <<strandQ, th>>
    BY <1>16 DEF FinishWrote, Idle
  <2>2. cur = <<>> /\ "write" \notin armed /\ ~InQueue("wrote") /\ writing
    BY <2>1, <1>s DEF InFlight, InQueue, Returns
  <2>3. Handling' /\ Calling' /\ Posted'
    BY <2>1 DEF Handling, Calling, Posted
  <2>4. CASE strand.ok
    <3>1. /\ DoWrite /\ armed' = armed \cup ResetIdle \cup StartedWrite
          /\ UNCHANGED <<closing, cleanup_done, queue_bytes, pending_bytes, bp>>
      BY <1>16, <2>4 DEF FinishWrote, flags
    <3>2. InFlight'
      BY <2>1, <2>2, <3>1, BeginWrite, <1>r DEF StartedWrite, ResetIdle
    <3> QED BY <2>1, <2>3, <3>1, <3>2 DEF Closed, Parked, QueueBound
  <2>5. CASE ~strand.ok
    <3>1. DoClose(callbacks)
      BY <1>16, <2>5 DEF FinishWrote
    <3>2. InFlight'
      BY <2>1, <2>2, <3>1, BoundedClose, <1>r DEF InFlight, InQueue
    <3> QED BY <2>1, <2>3, <3>1, <3>2, BoundedClose DEF Closed
  <2> QED BY <2>4, <2>5
<1>17. CASE ZeroBytes
  <2>1. /\ UNCHANGED <<closing, cleanup_done, strandQ, th, cur, writing, armed>>
        /\ UNCHANGED <<pending_bytes, bp>> /\ queue_bytes' = 0
        /\ strand.pc = "zero" /\ strand'.pc = "wrote"
        /\ strand'.n = strand.n /\ strand'.msg = strand.msg /\ strand'.ok = strand.ok
    BY <1>17, <1>a DEF ZeroBytes, Running, flags, io
  <2>2. QueueBound' /\ Parked'
    BY <2>1, <1>a DEF QueueBound, Parked
  <2>3. InFlight'
    BY <2>1, <1>r, <1>s DEF InFlight, InQueue, Returns
  <2>4. Closed' /\ Handling' /\ Calling' /\ Posted'
    BY <2>1 DEF Closed, Handling, Calling, Posted
  <2> QED BY <2>2, <2>3, <2>4
<1> QED
  BY <1>1, <1>2, <1>3, <1>4, <1>5, <1>6, <1>7, <1>8, <1>9, <1>10, <1>11, <1>12, <1>13,
     <1>14, <1>15, <1>16, <1>17, <1>18, <1>19 DEF Strand

\* Only a live session gets past the first check of a handler, and a session
\* that is no longer alive is closing.
LEMMA FreshStep ==
  ASSUME Bounded, Next
  PROVE  Fresh'
<1> USE DEF Bounded
<1>1. ASSUME NEW t \in Threads, User(t) PROVE Fresh'
  BY <1>1 DEF User, AsyncWriteCopy, AsyncWriteMove, AsyncWriteShared, AsyncTryWriteMove,
       AsyncTryWriteShared, Call, WriteLoad, WriteRoom, TryCheck, ReserveLoad, ReserveExchange,
       ReserveRetry, PostWrite, Fresh, flags, queues
<1>2. CASE Environment
  BY <1>2 DEF Environment, Register, Start, Stop, Cancel, ReadCompletes, WriteCompletes,
       IdleExpires, Fresh, flags, queues
<1>3. ASSUME NEW cbs, DoClose(cbs) PROVE Fresh'
  BY <1>3, BoundedClose DEF Fresh
<1>4. CASE RunRegister \/ RunStart \/ RunCancel
  BY <1>4 DEF RunRegister, RunStart, RunCancel, Fresh, flags, queues
<1>5. CASE RunStop \/ RunRead \/ RunIdle
  BY <1>3, <1>5 DEF RunStop, RunRead, RunIdle, Fresh, flags, queues
<1>6. CASE RunWrite \/ RunTry \/ RunWrote
  BY <1>6 DEF RunWrite, MustPark, NoRoomToPark, RunTry, RunWrote, Live, Fresh, flags
<1>7. CASE \/ TrimLoad \/ TrimStore \/ CheckLimit \/ Enqueue
           \/ ReportBackpressure \/ FlushPending \/ TurnOnAgain \/ Kick
  BY <1>7 DEF TrimLoad, TrimStore, CheckLimit, Enqueue, ReportBackpressure, FlushPending,
       TurnOnAgain, Kick, Fresh, flags
<1>8. CASE FinishWrote \/ ZeroBytes
  BY <1>3, <1>8 DEF FinishWrote, ZeroBytes, Fresh, flags
<1> QED
  BY <1>1, <1>2, <1>4, <1>5, <1>6, <1>7, <1>8 DEF Next, Strand

\* The session starts bounded.
LEMMA BoundedInit == Init => Bounded
<1> SUFFICES ASSUME Init PROVE Bounded
  OBVIOUS
<1> USE BoundsType, RecordTypes
<1>1. TypeOK
  <2>1. th \in [Threads -> Calls] /\ \A t \in Threads : th[t].pc = "rest"
    BY DEF Init, Resting
  <2>2. strand \in Running /\ strandQ \in Seq(Handlers)
    BY DEF Init
  <2>3. <<>> \in Seq(Messages) /\ Len(<<>>) =< 1
    OBVIOUS
  <2>4. /\ tx \in Seq(Messages) /\ pending \in Seq(Messages) /\ cur \in Seq(Messages)
        /\ Len(cur) =< 1 /\ sent \in Seq(Messages)
    BY <2>3 DEF Init
  <2>5. \A t \in Threads : th[t].pc # "rest" => th[t].msg.op \in {"write", "try"}
    BY <2>1
  <2>6. /\ armed \subseteq {"read", "write", "idle"} /\ lost \subseteq Messages
        /\ queue_bytes \in Nat /\ pending_bytes \in Nat /\ nextId \in Nat \ {0} /\ closes \in Nat
    BY DEF Init
  <2>7. /\ alive \in BOOLEAN /\ closing \in BOOLEAN /\ cleanup_done \in BOOLEAN
        /\ callbacks \in BOOLEAN /\ bp \in BOOLEAN /\ writing \in BOOLEAN
        /\ socket_open \in BOOLEAN /\ told \in BOOLEAN
    BY DEF Init
  <2> QED BY <2>1, <2>2, <2>4, <2>5, <2>6, <2>7 DEF TypeOK
<1>2. Closed /\ Fresh /\ InFlight /\ Returns /\ Posted
  <2>1. strandQ = <<>> /\ Len(strandQ) = 0 /\ strand.pc = "idle"
    BY DEF Init, Idle
  <2>2. Closed /\ Fresh
    BY <2>1 DEF Init, Closed, Fresh, InQueue
  <2>3. InFlight
    <3>1. cur = <<>> /\ armed = {} /\ ~OnWrite
      BY DEF Init, OnWrite, Idle
    <3> QED BY <2>1, <3>1 DEF InFlight
  <2>4. Returns
    BY <2>1 DEF Init, Returns, OnWrite, Idle
  <2>5. Posted
    BY <2>1 DEF Posted
  <2> QED BY <2>2, <2>3, <2>4, <2>5
<1>3. Parked /\ Handling /\ Calling /\ QueueBound
  <2>1. strand.pc = "idle" /\ queue_bytes = 0 /\ pending_bytes = 0
    BY DEF Init, Idle
  <2>2. \A t \in Threads : th[t].pc = "rest"
    BY DEF Init, Resting
  <2>3. Handling /\ Calling
    BY <2>1, <2>2 DEF Handling, Calling
  <2>4. Parked /\ QueueBound
    BY <2>1 DEF Parked, QueueBound
  <2> QED BY <2>3, <2>4
<1> QED
  BY <1>1, <1>2, <1>3 DEF Bounded

\* Every step of the session keeps Bounded.
LEMMA BoundedStep == Bounded /\ [Next]_vars => Bounded'
<1> SUFFICES ASSUME Bounded, [Next]_vars PROVE Bounded'
  OBVIOUS
<1>1. TypeOK /\ InFlight
  BY DEF Bounded
<1>2. ASSUME NEW t \in Threads, User(t) PROVE Bounded'
  BY <1>1, <1>2, TypeUser, BoundedUser, FreshStep, ReturnsStep DEF Bounded, Next
<1>3. CASE Strand
  BY <1>1, <1>3, TypeStrand, BoundedStrand, FreshStep, ReturnsStep DEF Bounded, Next
<1>4. CASE Environment
  BY <1>1, <1>4, TypeEnvironment, BoundedEnvironment, FreshStep, ReturnsStep DEF Bounded, Next
<1>5. CASE UNCHANGED vars
  <2>1. TypeOK'
    BY <1>1, <1>5 DEF TypeOK, vars, flags, queues, io, ghosts
  <2>2. InFlight' /\ Returns' /\ Closed' /\ Fresh' /\ Posted' /\ Calling'
    BY <1>5 DEF Bounded, InFlight, Returns, OnWrite, Fresh, InQueue, Closed, Posted, Calling, vars, flags, queues, io
  <2>3. Parked' /\ Handling' /\ QueueBound'
    BY <1>5, StillBounded DEF vars
  <2> QED BY <2>1, <2>2, <2>3 DEF Bounded
<1> QED
  BY <1>2, <1>3, <1>4, <1>5 DEF Next

\* In every behaviour of the session, for every number of threads, threshold,
\* strategy and size of buffer, the inductive invariant holds.
THEOREM SessionBounded == Spec => []Bounded
BY BoundedInit, BoundedStep, PTL DEF Spec

\* The session's variables keep their types; in particular no counter of
\* bytes goes below zero.
THEOREM SessionTypeOK == Spec => []TypeOK
<1>1. Bounded => TypeOK
  BY DEF Bounded
<1> QED
  BY <1>1, SessionBounded, PTL

\* However the checks of the user threads, the reservations and the flush of
\* pending_ interleave, the session accounts for at most the hard limit and
\* one high-water mark.
THEOREM SessionQueueBound == Spec => []QueueBound
<1>1. Bounded => QueueBound
  BY DEF Bounded
<1> QED
  BY <1>1, SessionBounded, PTL

\* do_write() is never called while a write is outstanding, so that at most
\* one completion exists and its buffer stays alive until it runs.
THEOREM SessionOneWriteAtATime == Spec => []OneWriteAtATime
<1>1. Bounded => OneWriteAtATime
  BY DEF Bounded, InFlight, OneWriteAtATime
<1> QED
  BY <1>1, SessionBounded, PTL
=============================================================================
