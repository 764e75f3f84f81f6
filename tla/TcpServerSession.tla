-------------------------- MODULE TcpServerSession --------------------------
(***************************************************************************)
(* One accepted TCP connection: transport/tcp_server/tcp_server_session.cc *)
(*                                                                         *)
(* User threads call async_write_* and async_try_write_*, which read the   *)
(* session's atomics one at a time and post a handler.  The strand runs    *)
(* the handlers one after the other, in the order they were queued.  The   *)
(* socket and the idle timer complete operations at any time, which queues *)
(* their handlers too.                                                     *)
(*                                                                         *)
(* A handler is several steps here where a user thread can change          *)
(* queue_bytes_ or closing_ between two of its accesses: strand.pc says    *)
(* how far it has come.  Everything else in a handler is one step.         *)
(***************************************************************************)
EXTENDS Integers, Sequences, FiniteSets, BpUtils

CONSTANTS
  NThreads,    \* user threads
  High,        \* bp_high_: the configured backpressure threshold
  DefaultBp,   \* base::constants::DEFAULT_BACKPRESSURE_THRESHOLD
  MaxBuffer,   \* base::constants::MAX_BUFFER_SIZE
  Strategy,    \* bp_strategy_
  IdleTimeout, \* idle_timeout_ms_ > 0
  Sizes,       \* sizes of the buffers the user writes
  Events,      \* what may happen to the session besides writes that succeed
  MaxMsgs      \* no write begins once this many were posted

ASSUME SessionAssumption ==
  /\ NThreads \in Nat
  /\ High \in Nat \ {0} /\ DefaultBp \in Nat /\ MaxBuffer \in Nat \ {0}
  /\ Strategy \in {"Reliable", "BestEffort"}
  /\ IdleTimeout \in BOOLEAN
  /\ Sizes \subseteq Nat
  /\ Events \subseteq {"read", "readError", "writeError", "stop", "cancel"}
  /\ MaxMsgs \in Nat

Threads == 1..NThreads
Limit == LimitOf(High, DefaultBp, MaxBuffer)
Low == LowOf(High)

VARIABLES
  alive, closing, cleanup_done, \* alive_, closing_, cleanup_done_
  callbacks,      \* on_bytes_, on_bp_ and on_close_ are set
  tx, pending,    \* tx_, pending_
  cur,            \* current_write_buffer_: at most one buffer
  queue_bytes, pending_bytes,
  bp,             \* backpressure_active_
  writing,        \* writing_
  socket_open,
  armed,          \* operations in flight: subset of {"read","write","idle"}
  strandQ,        \* handlers queued on strand_
  strand,         \* the handler that is running, and how far it is
  th,             \* each user thread, inside one write call
  nextId,         \* number of the next message to be posted
  told,           \* last state reported through on_bp_ (TRUE: ON)
  closes,         \* calls of on_close_
  sent,           \* numbers of the messages written in full, in order
  lost            \* messages a handler dropped at the hard limit

flags == <<alive, closing, cleanup_done, callbacks>>
queues == <<tx, pending, cur, queue_bytes, pending_bytes, bp, writing>>
io == <<socket_open, armed>>
ghosts == <<told, closes, sent, lost>>
vars == <<flags, queues, io, strandQ, strand, th, nextId, ghosts>>

NoMsg == [id |-> 0, size |-> 0, op |-> "none"]
Idle == [pc |-> "idle", msg |-> NoMsg, q |-> 0, n |-> 0, ok |-> TRUE, after |-> "kick"]
Handler(kind, msg, n, ok) == [kind |-> kind, msg |-> msg, n |-> n, ok |-> ok]
Resting == [pc |-> "rest", msg |-> NoMsg, q |-> 0, p |-> 0]

Live == alive /\ ~closing

Init ==
  /\ alive = FALSE /\ closing = FALSE /\ cleanup_done = FALSE
  /\ callbacks = FALSE
  /\ tx = <<>> /\ pending = <<>> /\ cur = <<>>
  /\ queue_bytes = 0 /\ pending_bytes = 0
  /\ bp = FALSE /\ writing = FALSE
  /\ socket_open = TRUE /\ armed = {}
  /\ strandQ = <<>> /\ strand = Idle
  /\ th = [t \in Threads |-> Resting]
  /\ nextId = 1
  /\ told = FALSE /\ closes = 0 /\ sent = <<>> /\ lost = {}

-----------------------------------------------------------------------------
(* Calls that only post or dispatch a handler.                             *)

Post(h) == strandQ' = Append(strandQ, h)

\* on_bytes(), on_backpressure(), on_close(): the server registers all
\* three before it starts the session.
Register ==
  /\ ~alive /\ ~callbacks /\ strandQ = <<>>
  /\ Post(Handler("register", NoMsg, 0, TRUE))
  /\ UNCHANGED <<flags, queues, io, strand, th, nextId, ghosts>>

Start ==
  /\ ~alive
  /\ callbacks \/ strandQ # <<>>
  /\ alive' = TRUE
  /\ Post(Handler("start", NoMsg, 0, TRUE))
  /\ UNCHANGED <<closing, cleanup_done, callbacks, queues, io, strand, th,
                 nextId, ghosts>>

Stop ==
  /\ "stop" \in Events /\ ~closing
  /\ closing' = TRUE
  /\ Post(Handler("stop", NoMsg, 0, TRUE))
  /\ UNCHANGED <<alive, cleanup_done, callbacks, queues, io, strand, th,
                 nextId, ghosts>>

\* One cancel() at a time is queued.
Cancel ==
  /\ "cancel" \in Events /\ socket_open
  /\ \A i \in 1..Len(strandQ) : strandQ[i].kind # "cancel"
  /\ Post(Handler("cancel", NoMsg, 0, TRUE))
  /\ UNCHANGED <<flags, queues, io, strand, th, nextId, ghosts>>

-----------------------------------------------------------------------------
(* User threads: the calls up to the point where they post.  A call that   *)
(* is refused returns false and changes nothing but its own thread.        *)

\* The checks every call begins with.
Call(t, pc, op, n) ==
  /\ th[t].pc = "rest"
  /\ nextId =< MaxMsgs
  /\ Live
  /\ n > 0 /\ n =< MaxBuffer
  /\ th' = [th EXCEPT ![t] = [Resting EXCEPT !.pc = pc,
                                            !.msg = [id |-> 0, size |-> n, op |-> op]]]
  /\ UNCHANGED <<flags, queues, io, strandQ, strand, nextId, ghosts>>

\* async_write_copy: the pooled and the plain buffer take the same path.
AsyncWriteCopy(t, n) == Call(t, "load", "write", n)

AsyncWriteMove(t, n) == Call(t, "load", "write", n)

AsyncWriteShared(t, n) == Call(t, "load", "write", n)

\* queue_bytes_ + pending_bytes_ + added > bp_limit_: the first is loaded ...
WriteLoad(t) ==
  /\ th[t].pc = "load"
  /\ th' = [th EXCEPT ![t] = [@ EXCEPT !.pc = "room", !.q = queue_bytes]]
  /\ UNCHANGED <<flags, queues, io, strandQ, strand, nextId, ghosts>>

\* ... and then the second.
WriteRoom(t) ==
  /\ th[t].pc = "room"
  /\ th' = [th EXCEPT ![t] =
             IF @.q + pending_bytes + @.msg.size > Limit
             THEN Resting ELSE [@ EXCEPT !.pc = "post", !.q = 0]]
  /\ UNCHANGED <<flags, queues, io, strandQ, strand, nextId, ghosts>>

\* The checks before try_reserve_write_bytes, and its own first ones.  They
\* only refuse: its loop checks the same sums again on what it loads.
TryPrecheck(n) ==
  /\ ~bp
  /\ queue_bytes + n =< High
  /\ queue_bytes + pending_bytes + n =< Limit

AsyncTryWriteMove(t, n) == Call(t, "check", "try", n)

AsyncTryWriteShared(t, n) == Call(t, "check", "try", n)

TryCheck(t) ==
  /\ th[t].pc = "check"
  /\ th' = [th EXCEPT ![t] =
             IF TryPrecheck(@.msg.size)
             THEN [@ EXCEPT !.pc = "reserve", !.q = queue_bytes] ELSE Resting]
  /\ UNCHANGED <<flags, queues, io, strandQ, strand, nextId, ghosts>>

\* One round of the loop of try_reserve_write_bytes: load pending_bytes_ ...
ReserveLoad(t) ==
  /\ th[t].pc = "reserve"
  /\ th' = [th EXCEPT ![t] =
             IF ReserveFits(@.q, pending_bytes, @.msg.size, High, Limit)
             THEN [@ EXCEPT !.pc = "exchange", !.p = pending_bytes] ELSE Resting]
  /\ UNCHANGED <<flags, queues, io, strandQ, strand, nextId, ghosts>>

\* ... and compare_exchange_weak on queue_bytes_.
ReserveExchange(t) ==
  /\ th[t].pc = "exchange"
  /\ queue_bytes = th[t].q
  /\ queue_bytes' = queue_bytes + th[t].msg.size
  /\ th' = [th EXCEPT ![t] = [@ EXCEPT !.pc = "post", !.q = 0, !.p = 0]]
  /\ UNCHANGED <<flags, tx, pending, cur, pending_bytes, bp, writing, io,
                 strandQ, strand, nextId, ghosts>>

\* The exchange failed, which the weak form may do at any time.
ReserveRetry(t) ==
  /\ th[t].pc = "exchange"
  /\ th' = [th EXCEPT ![t] = [@ EXCEPT !.pc = "reserve", !.q = queue_bytes, !.p = 0]]
  /\ UNCHANGED <<flags, queues, io, strandQ, strand, nextId, ghosts>>

PostWrite(t) ==
  /\ th[t].pc = "post"
  /\ Post(Handler(th[t].msg.op, [th[t].msg EXCEPT !.id = nextId], 0, TRUE))
  /\ nextId' = nextId + 1
  /\ th' = [th EXCEPT ![t] = Resting]
  /\ UNCHANGED <<flags, queues, io, strand, ghosts>>

-----------------------------------------------------------------------------
(* Helpers of the handlers, as parts of an action.                         *)

\* The strand takes the next handler of that kind.
Take(kind) ==
  /\ strand.pc = "idle"
  /\ strandQ # <<>>
  /\ Head(strandQ).kind = kind
  /\ strandQ' = Tail(strandQ)

\* A do_write() that forgets to reset writing_ on an empty queue.
DoWriteStaysWriting ==
  IF tx = <<>>
  THEN writing' = TRUE /\ UNCHANGED <<tx, cur>>
  ELSE writing' = TRUE /\ cur' = <<Head(tx)>> /\ tx' = Tail(tx)

\* do_write(): the front buffer moves to current_write_buffer_.
DoWrite ==
  IF tx = <<>>
  THEN writing' = FALSE /\ UNCHANGED <<tx, cur>>
  ELSE writing' = TRUE /\ cur' = <<Head(tx)>> /\ tx' = Tail(tx)

StartedWrite == IF tx = <<>> THEN {} ELSE {"write"}

\* reset_idle_timer(): cancels and re-arms the timer; an expiry that is
\* already queued on the strand is not taken back.
ResetIdle == IF IdleTimeout THEN {"idle"} ELSE {}

\* A do_close() that leaves queue_bytes_ as it is.
DropQueuesOnly ==
  /\ tx' = <<>> /\ pending' = <<>>
  /\ pending_bytes' = 0 /\ bp' = FALSE /\ UNCHANGED queue_bytes

DropQueues ==
  /\ tx' = <<>> /\ pending' = <<>>
  /\ queue_bytes' = 0 /\ pending_bytes' = 0 /\ bp' = FALSE

\* A do_close() that clears on_bp_ before backpressure is reported OFF.
ReportCloseOnly(cbs) ==
  /\ told' = told
  /\ closes' = closes + (IF cbs THEN 1 ELSE 0)

\* Backpressure is reported OFF, then the close.
ReportClose(cbs) ==
  /\ told' = (told /\ ~(bp /\ cbs))
  /\ closes' = closes + (IF cbs THEN 1 ELSE 0)

\* do_close(), with the callbacks that are set when it is called.
DoClose(cbs) ==
  IF cleanup_done
  THEN UNCHANGED <<flags, queues, io, ghosts>>
  ELSE /\ alive' = FALSE /\ closing' = TRUE /\ cleanup_done' = TRUE
       /\ callbacks' = FALSE
       /\ socket_open' = FALSE /\ armed' = armed \ {"idle"}
       /\ DropQueues
       /\ ReportClose(cbs)
       /\ UNCHANGED <<cur, writing, sent, lost>>

-----------------------------------------------------------------------------
(* Handlers on the strand.                                                 *)

RunRegister ==
  /\ Take("register")
  /\ callbacks' = (callbacks \/ ~(closing \/ cleanup_done))
  /\ UNCHANGED <<alive, closing, cleanup_done, queues, io, strand, th, nextId,
                 ghosts>>

RunStart ==
  /\ Take("start")
  /\ armed' = armed \cup ResetIdle \cup {"read"}
  /\ UNCHANGED <<flags, queues, socket_open, strand, th, nextId, ghosts>>

RunStop ==
  /\ Take("stop")
  /\ IF cleanup_done
     THEN armed' = armed \ {"idle"} /\ UNCHANGED <<flags, queues, socket_open, ghosts>>
     ELSE DoClose(FALSE)
  /\ UNCHANGED <<strand, th, nextId>>

RunCancel ==
  /\ Take("cancel")
  /\ socket_open' = FALSE
  /\ armed' = armed \ {"idle"}
  /\ UNCHANGED <<flags, queues, strand, th, nextId, ghosts>>

\* The handler of start_read(), and of its user callback's exceptions.
RunRead ==
  /\ Take("read")
  /\ \/ ~Live /\ UNCHANGED <<flags, queues, io, ghosts>>
     \/ Live /\ ~Head(strandQ).ok /\ DoClose(callbacks)
     \/ Live /\ Head(strandQ).ok /\ callbacks /\ DoClose(callbacks)
     \/ /\ Live /\ Head(strandQ).ok
        /\ armed' = armed \cup ResetIdle \cup {"read"}
        /\ UNCHANGED <<flags, queues, socket_open, ghosts>>
  /\ UNCHANGED <<strand, th, nextId>>

\* The handler of reset_idle_timer().
RunIdle ==
  /\ Take("idle")
  /\ IF Live THEN DoClose(callbacks) ELSE UNCHANGED <<flags, queues, io, ghosts>>
  /\ UNCHANGED <<strand, th, nextId>>

\* Parking every write of a Reliable session, whether or not it is ON.
MustParkAlways == Strategy = "Reliable"

\* Reliable: route to pending_ when backpressure is active.
MustPark == Strategy = "Reliable" /\ bp

\* Parking without a look at the hard limit.
NoRoomToParkEver(m) == FALSE

NoRoomToPark(m) == queue_bytes + pending_bytes + m.size > Limit

\* The handler that async_write_* posts.
RunWrite ==
  /\ Take("write")
  /\ LET m == Head(strandQ).msg
         full == NoRoomToPark(m)
     IN  IF ~Live
         THEN UNCHANGED <<pending, pending_bytes, strand, lost>>
         ELSE IF MustPark
         THEN /\ pending' = IF full THEN pending ELSE Append(pending, m)
              /\ pending_bytes' = pending_bytes + (IF full THEN 0 ELSE m.size)
              /\ lost' = IF full THEN lost \cup {m} ELSE lost
              /\ UNCHANGED strand
         ELSE /\ strand' = [Idle EXCEPT
                   !.pc = IF Strategy = "BestEffort" THEN "trim" ELSE "check", !.msg = m]
              /\ UNCHANGED <<pending, pending_bytes, lost>>
  /\ UNCHANGED <<flags, tx, cur, queue_bytes, bp, writing, io, th, nextId, told,
                 closes, sent>>

\* maybe_flush_for_keep_latest(): load queue_bytes_ ...
TrimLoad ==
  /\ strand.pc = "trim"
  /\ strand' = IF KeepLatestMore(tx, queue_bytes, strand.msg.size, High)
               THEN [strand EXCEPT !.pc = "store", !.q = queue_bytes]
               ELSE [strand EXCEPT !.pc = "check"]
  /\ UNCHANGED <<flags, queues, io, strandQ, th, nextId, ghosts>>

\* A trimming pass that forgets to subtract what it removes.
TrimStoreUncounted ==
  /\ strand.pc = "store"
  /\ LET victims == KeepLatestVictims(tx, strand.msg.size, High)
     IN  tx' = SubSeq(tx, Len(victims) + 1, Len(tx))
  /\ queue_bytes' = strand.q
  /\ strand' = [strand EXCEPT !.q = 0,
                  !.pc = IF strand.msg.size >= High THEN "check" ELSE "trim"]
  /\ UNCHANGED <<flags, pending, cur, pending_bytes, bp, writing, io, strandQ, th,
                 nextId, ghosts>>

\* A trimming pass that takes an emptied queue for one without any bytes.
TrimStoreZero ==
  /\ strand.pc = "store"
  /\ LET victims == KeepLatestVictims(tx, strand.msg.size, High)
     IN  /\ queue_bytes' = IF victims = tx THEN 0 ELSE Monus(strand.q, Bytes(victims))
         /\ tx' = SubSeq(tx, Len(victims) + 1, Len(tx))
  /\ strand' = [strand EXCEPT !.q = 0,
                  !.pc = IF strand.msg.size >= High THEN "check" ELSE "trim"]
  /\ UNCHANGED <<flags, pending, cur, pending_bytes, bp, writing, io, strandQ, th,
                 nextId, ghosts>>

\* ... and store what is left once the victims are gone.
TrimStore ==
  /\ strand.pc = "store"
  /\ LET victims == KeepLatestVictims(tx, strand.msg.size, High)
     IN  /\ queue_bytes' = Monus(strand.q, Bytes(victims))
         /\ tx' = SubSeq(tx, Len(victims) + 1, Len(tx))
  /\ strand' = [strand EXCEPT !.q = 0,
                  !.pc = IF strand.msg.size >= High THEN "check" ELSE "trim"]
  /\ UNCHANGED <<flags, pending, cur, pending_bytes, bp, writing, io, strandQ, th,
                 nextId, ghosts>>

\* No check after trimming.
CheckLimitSkipped ==
  /\ strand.pc = "check"
  /\ strand' = [strand EXCEPT !.pc = "enqueue"]
  /\ UNCHANGED <<flags, queues, io, strandQ, th, nextId, ghosts>>

\* The last check against the hard limit; what fails it is dropped.
CheckLimit ==
  /\ strand.pc = "check"
  /\ IF queue_bytes + strand.msg.size > Limit
     THEN /\ strand' = [strand EXCEPT !.pc = "over"]
          /\ lost' = lost \cup {strand.msg}
     ELSE /\ strand' = [strand EXCEPT !.pc = "enqueue"]
          /\ UNCHANGED lost
  /\ UNCHANGED <<flags, queues, io, strandQ, th, nextId, told, closes, sent>>

Enqueue ==
  /\ strand.pc = "enqueue"
  /\ queue_bytes' = queue_bytes + strand.msg.size
  /\ tx' = Append(tx, strand.msg)
  /\ strand' = [Idle EXCEPT !.pc = "queued"]
  /\ UNCHANGED <<flags, pending, cur, pending_bytes, bp, writing, io, strandQ, th,
                 nextId, ghosts>>

\* A handler that counts bytes the call has reserved already.
RunTryCountsTwice ==
  /\ Take("try")
  /\ IF Live
     THEN /\ tx' = Append(tx, Head(strandQ).msg)
          /\ strand' = [Idle EXCEPT !.pc = "queued"]
          /\ queue_bytes' = queue_bytes + Head(strandQ).msg.size
     ELSE /\ queue_bytes' = Monus(queue_bytes, Head(strandQ).msg.size)
          /\ UNCHANGED <<tx, strand>>
  /\ UNCHANGED <<flags, pending, cur, pending_bytes, bp, writing, io, th, nextId,
                 ghosts>>

\* A handler that does not look whether the session is still there.
RunTryUnchecked ==
  /\ Take("try")
  /\ tx' = Append(tx, Head(strandQ).msg)
  /\ strand' = [Idle EXCEPT !.pc = "queued"]
  /\ UNCHANGED <<flags, pending, cur, queue_bytes, pending_bytes, bp, writing, io, th,
                 nextId, ghosts>>

\* The handler that async_try_write_* posts: its bytes are reserved already.
RunTry ==
  /\ Take("try")
  /\ IF Live
     THEN /\ tx' = Append(tx, Head(strandQ).msg)
          /\ strand' = [Idle EXCEPT !.pc = "queued"]
          /\ UNCHANGED queue_bytes
     ELSE /\ queue_bytes' = Monus(queue_bytes, Head(strandQ).msg.size)
          /\ UNCHANGED <<tx, strand>>
  /\ UNCHANGED <<flags, pending, cur, pending_bytes, bp, writing, io, th, nextId,
                 ghosts>>

\* An on_write that never calls report_backpressure().
RunWroteUnreported ==
  /\ Take("wrote")
  /\ cur' = <<>>
  /\ IF Live
     THEN /\ queue_bytes' = Monus(queue_bytes, Head(strandQ).n)
          /\ strand' = [Idle EXCEPT !.pc = "finish", !.msg = Head(strandQ).msg,
                                    !.n = Head(strandQ).n, !.ok = Head(strandQ).ok,
                                    !.after = "finish"]
     ELSE UNCHANGED <<queue_bytes, strand>>
  /\ UNCHANGED <<flags, tx, pending, pending_bytes, bp, writing, io, th, nextId,
                 ghosts>>

\* on_write, up to the call of report_backpressure().  queue_bytes_ is read,
\* and then reduced or, if it is too small, overwritten by ZeroBytes.
RunWrote ==
  /\ Take("wrote")
  /\ cur' = <<>>
  /\ IF Live
     THEN LET h == Head(strandQ)
              enough == queue_bytes >= h.n
          IN  /\ queue_bytes' = queue_bytes - (IF enough THEN h.n ELSE 0)
              /\ strand' = [Idle EXCEPT !.pc = IF enough THEN "wrote" ELSE "zero",
                                        !.msg = h.msg, !.n = h.n, !.ok = h.ok,
                                        !.after = "finish"]
     ELSE UNCHANGED <<queue_bytes, strand>>
  /\ UNCHANGED <<flags, tx, pending, pending_bytes, bp, writing, io, th, nextId,
                 ghosts>>

ZeroBytes ==
  /\ strand.pc = "zero"
  /\ queue_bytes' = 0
  /\ strand' = [strand EXCEPT !.pc = "wrote"]
  /\ UNCHANGED <<flags, tx, pending, cur, pending_bytes, bp, writing, io, strandQ, th,
                 nextId, ghosts>>

\* report_backpressure(), called from an enqueue ("queued"), a completed
\* write ("wrote") or a drop at the limit ("over").
Reported == queue_bytes + (IF strand.pc = "over" THEN strand.msg.size ELSE 0)
TurnOn == Live /\ ~bp /\ Reported >= High

\* Going OFF only once the parked writes are gone too: they never go.
TurnOffCountsPending == Live /\ bp /\ Reported + pending_bytes =< Low

TurnOff == Live /\ bp /\ Reported =< Low

\* Flushing in front of what is queued, and not at all.
FlushedInFront == pending \o tx
FlushedAway == tx

Flushed == tx \o pending

\* On the way up backpressure is reported ON.  On the way down the pending
\* bytes are taken first, ...
ReportBackpressure ==
  /\ strand.pc \in {"queued", "wrote", "over"}
  /\ bp' = (bp \/ TurnOn)
  /\ told' = (told \/ (TurnOn /\ callbacks))
  /\ pending_bytes' = IF TurnOff THEN 0 ELSE pending_bytes
  /\ strand' = IF TurnOff THEN [strand EXCEPT !.pc = "flush", !.q = pending_bytes]
               ELSE IF strand.pc = "over" THEN Idle
               ELSE [strand EXCEPT !.pc = strand.after]
  /\ UNCHANGED <<flags, tx, pending, cur, queue_bytes, writing, io, strandQ, th, nextId,
                 closes, sent, lost>>

\* ... then the pending writes move to tx_ and OFF is reported, ...
FlushPending ==
  /\ strand.pc = "flush"
  /\ queue_bytes' = queue_bytes + strand.q
  /\ tx' = Flushed /\ pending' = <<>>
  /\ bp' = FALSE /\ told' = (told /\ ~callbacks)
  /\ strand' = [strand EXCEPT !.pc = "again", !.q = 0]
  /\ UNCHANGED <<flags, cur, pending_bytes, writing, io, strandQ, th, nextId, closes, sent,
                 lost>>

\* ... and ON again if the queue is still, or once more, too long.
TurnOnAgain ==
  /\ strand.pc = "again"
  /\ bp' = (queue_bytes >= High)
  /\ told' = (told \/ (bp' /\ callbacks))
  /\ strand' = [strand EXCEPT !.pc = strand.after]
  /\ UNCHANGED <<flags, tx, pending, cur, queue_bytes, pending_bytes, writing, io, strandQ,
                 th, nextId, closes, sent, lost>>

\* do_write() whether or not a write is in flight.
KickAlways ==
  /\ strand.pc = "kick"
  /\ DoWrite /\ armed' = armed \cup StartedWrite
  /\ strand' = Idle
  /\ UNCHANGED <<flags, pending, queue_bytes, pending_bytes, bp, socket_open, strandQ,
                 th, nextId, ghosts>>

\* if (!writing_) do_write();
Kick ==
  /\ strand.pc = "kick"
  /\ IF writing
     THEN UNCHANGED <<tx, cur, writing, armed>>
     ELSE DoWrite /\ armed' = armed \cup StartedWrite
  /\ strand' = Idle
  /\ UNCHANGED <<flags, pending, queue_bytes, pending_bytes, bp, socket_open, strandQ,
                 th, nextId, ghosts>>

\* The rest of on_write.
FinishWrote ==
  /\ strand.pc = "finish"
  /\ IF strand.ok
     THEN /\ DoWrite
          /\ armed' = armed \cup ResetIdle \cup StartedWrite
          /\ sent' = Append(sent, strand.msg)
          /\ UNCHANGED <<flags, pending, queue_bytes, pending_bytes, bp, socket_open,
                         told, closes, lost>>
     ELSE DoClose(callbacks)
  /\ strand' = Idle
  /\ UNCHANGED <<strandQ, th, nextId>>

-----------------------------------------------------------------------------
(* The network and the clock.                                              *)

\* A read completes with data, or fails; on a closed socket it only fails.
ReadCompletes(ok) ==
  /\ "read" \in armed /\ (ok => socket_open)
  /\ socket_open => (IF ok THEN "read" ELSE "readError") \in Events
  /\ armed' = armed \ {"read"}
  /\ Post(Handler("read", NoMsg, 0, ok))
  /\ UNCHANGED <<flags, queues, socket_open, strand, th, nextId, ghosts>>

\* async_write sends the whole buffer, or part of it and fails.
WriteCompletes(n) ==
  /\ "write" \in armed /\ n =< cur[1].size
  /\ IF n = cur[1].size THEN socket_open ELSE socket_open => "writeError" \in Events
  /\ armed' = armed \ {"write"}
  /\ Post(Handler("wrote", cur[1], n, n = cur[1].size))
  /\ UNCHANGED <<flags, queues, socket_open, strand, th, nextId, ghosts>>

IdleExpires ==
  /\ "idle" \in armed
  /\ armed' = armed \ {"idle"}
  /\ Post(Handler("idle", NoMsg, 0, TRUE))
  /\ UNCHANGED <<flags, queues, socket_open, strand, th, nextId, ghosts>>

-----------------------------------------------------------------------------
User(t) ==
  \/ \E n \in Sizes :
       \/ AsyncWriteCopy(t, n) \/ AsyncWriteMove(t, n) \/ AsyncWriteShared(t, n)
       \/ AsyncTryWriteMove(t, n) \/ AsyncTryWriteShared(t, n)
  \/ WriteLoad(t) \/ WriteRoom(t) \/ TryCheck(t) \/ ReserveLoad(t)
  \/ ReserveExchange(t) \/ ReserveRetry(t) \/ PostWrite(t)

Strand ==
  \/ RunRegister \/ RunStart \/ RunStop \/ RunCancel \/ RunRead \/ RunIdle
  \/ RunWrite \/ TrimLoad \/ TrimStore \/ CheckLimit \/ Enqueue
  \/ RunTry \/ RunWrote \/ ZeroBytes \/ ReportBackpressure \/ FlushPending \/ TurnOnAgain
  \/ Kick \/ FinishWrote

Environment ==
  \/ Register \/ Start \/ Stop \/ Cancel
  \/ \E ok \in BOOLEAN : ReadCompletes(ok)
  \/ \E n \in 0..MaxBuffer : WriteCompletes(n)
  \/ IdleExpires

Next == (\E t \in Threads : User(t)) \/ Strand \/ Environment

Spec == Init /\ [][Next]_vars

\* The io thread keeps running handlers, a user thread that was let through
\* posts, and the peer takes or refuses what is being written.
FairSpec ==
  /\ Spec
  /\ WF_vars(Strand)
  /\ \A t \in Threads : WF_vars(WriteLoad(t) \/ WriteRoom(t) \/ PostWrite(t))
  /\ WF_vars(\E n \in 0..MaxBuffer : WriteCompletes(n))

-----------------------------------------------------------------------------
(* Properties.                                                             *)

Messages == [id : Nat, size : Nat, op : {"none", "write", "try"}]
Handlers == [kind : {"register", "start", "stop", "cancel", "read", "idle", "write",
                     "try", "wrote"},
             msg : Messages, n : Nat, ok : BOOLEAN]
Running == [pc : {"idle", "trim", "store", "check", "over", "enqueue", "queued", "kick",
                  "zero", "wrote", "flush", "again", "finish"},
            msg : Messages, q : Nat, n : Nat, ok : BOOLEAN, after : {"kick", "finish"}]
Calls == [pc : {"rest", "load", "room", "check", "reserve", "exchange", "post"},
          msg : Messages, q : Nat, p : Nat]

\* Every variable keeps its type; in particular the byte counters never go
\* below zero, where the code's size_t would wrap around.
TypeOK ==
  /\ alive \in BOOLEAN /\ closing \in BOOLEAN /\ cleanup_done \in BOOLEAN
  /\ callbacks \in BOOLEAN
  /\ tx \in Seq(Messages) /\ pending \in Seq(Messages) /\ cur \in Seq(Messages)
  /\ Len(cur) =< 1
  /\ queue_bytes \in Nat /\ pending_bytes \in Nat
  /\ bp \in BOOLEAN /\ writing \in BOOLEAN
  /\ socket_open \in BOOLEAN /\ armed \subseteq {"read", "write", "idle"}
  /\ strandQ \in Seq(Handlers) /\ strand \in Running
  /\ th \in [Threads -> Calls]
  /\ \A t \in Threads : th[t].pc # "rest" => th[t].msg.op \in {"write", "try"}
  /\ nextId \in Nat \ {0}
  /\ told \in BOOLEAN /\ closes \in Nat
  /\ sent \in Seq(Messages) /\ lost \subseteq Messages

\* Bytes reserved by try writes whose handler has not run yet: by threads
\* that are about to post it, and by the handlers on the strand.
ReservedBy(t) == IF th[t].pc = "post" /\ th[t].msg.op = "try" THEN th[t].msg.size ELSE 0
ReservedIn(h) == IF h.kind = "try" THEN h.msg.size ELSE 0
ReservedByThreads == SumSeq([t \in 1..NThreads |-> ReservedBy(t)])
ReservedOnStrand == SumSeq([i \in 1..Len(strandQ) |-> ReservedIn(strandQ[i])])
Reserved == ReservedByThreads + ReservedOnStrand

\* on_write is running, and the bytes of its write it has not yet dealt with.
OnWrite == strand.after = "finish"
Unsent ==
  IF ~OnWrite THEN 0
  ELSE IF strand.pc = "zero" THEN strand.msg.size
  ELSE strand.msg.size - strand.n

\* Bytes on their way from pending_bytes_ to queue_bytes_.
Moving == IF strand.pc = "flush" THEN strand.q ELSE 0

Held == Bytes(cur) + Bytes(tx) + Reserved + Unsent

\* The atomic counters, which every admission decision reads, tell the truth
\* about the deques they stand for: pending_bytes_ always, queue_bytes_ until
\* the session closes.  The Reliable strategy never miscounts; BestEffort may
\* count too little (its trimming stores a value computed from an earlier
\* load) and never too much.  Once closed, what is left of queue_bytes_ is
\* covered by reservations whose handlers will release them.
Accounting ==
  /\ pending_bytes + Moving = Bytes(pending)
  /\ ~closing => queue_bytes =< Held
  /\ ~closing /\ Strategy = "Reliable" => queue_bytes = Held
  /\ cleanup_done => queue_bytes =< Reserved

\* The bytes that are held and not counted, and how many more a step may leave
\* uncounted: the reservations a trimming pass overwrites, which were made
\* between its load and its store, and what on_write's overwrite with zero
\* takes beyond the bytes it has written.
Uncounted == Held - queue_bytes
Overwritten ==
  CASE strand.pc = "store" -> queue_bytes - strand.q
    [] strand.pc = "zero" -> Monus(queue_bytes, strand.n)
    [] OTHER -> 0

\* The bytes that are missing from queue_bytes_ are reservations that were lost
\* in one of these two windows, each once and no more than was reserved in it:
\* no other step of a thread or of the strand loses a byte from the count.
KeepsCount == ~closing' => Uncounted' =< Uncounted + Overwritten
OnlyOverwritesLose == [][KeepsCount]_vars

\* However reservations, stale checks and the flush of pending_ interleave,
\* the session never accounts for more than the hard limit and one
\* high-water mark of reserved bytes.
QueueBound == queue_bytes + pending_bytes =< Limit + High

InQueue(kind) == \E i \in 1..Len(strandQ) : strandQ[i].kind = kind
WriteInFlight ==
  "write" \in armed \/ InQueue("wrote") \/ OnWrite

\* A queue that holds buffers is being written: no order of enqueue,
\* completion and flush leaves tx_ non-empty with nobody to call do_write().
NoStuckQueue ==
  ~closing => /\ tx # <<>> => writing \/ strand.pc \in {"queued", "flush", "again", "kick"}
              /\ writing => WriteInFlight

\* async_write may have only one operation outstanding on the socket, and
\* current_write_buffer_ is the buffer it reads: do_write() is never called
\* while a write is in flight, whatever report_backpressure() does.
OneWriteAtATime ==
  /\ "write" \in armed => cur # <<>> /\ writing /\ ~InQueue("wrote")
  /\ "write" \in armed => ~OnWrite
  /\ \A i, j \in 1..Len(strandQ) :
       strandQ[i].kind = "wrote" /\ strandQ[j].kind = "wrote" => i = j

\* Backpressure that is ON will be looked at again: a write is in flight, or
\* a reserved write has yet to run, and both end in report_backpressure().
\* Otherwise a Reliable sender would be blocked on an empty queue for ever.
BpHasWitness ==
  bp /\ ~closing => writing \/ Reserved > 0 \/ strand.pc # "idle"

\* Writes are parked in pending_ only while backpressure is ON, so that the
\* flush on the way OFF is the last one they need.
PendingOnlyUnderBp == pending # <<>> /\ ~closing => bp

\* The buffers the session has sent, is sending and will send, in order.
Line == sent \o (IF OnWrite THEN <<strand.msg>> ELSE <<>>) \o cur \o tx \o pending

\* Buffers that async_write_* accepted leave in the order in which they were
\* posted, also across pending_, and none is queued twice.
SendOrder ==
  \A i, j \in 1..Len(Line) :
    /\ i # j => Line[i].id # Line[j].id
    /\ i < j /\ Line[i].op = "write" /\ Line[j].op = "write" => Line[i].id < Line[j].id

\* The writes whose call was answered true.
Accepted == 1..(nextId - 1)

\* Under Reliable an accepted message is on its way until the session closes:
\* it is posted, queued, being written, sent, or was dropped by a handler at
\* the hard limit, and a try write is never dropped ("must not later be
\* rejected only because queue pressure changed", docs/error_model.md).
NothingVanishes ==
  Strategy = "Reliable" /\ ~closing =>
    /\ \A id \in Accepted :
         \/ \E i \in 1..Len(strandQ) : strandQ[i].msg.id = id
         \/ strand.msg.id = id
         \/ \E i \in 1..Len(Line) : Line[i].id = id
         \/ \E m \in lost : m.id = id
    /\ \A m \in lost : m.op = "write"

\* What on_backpressure was last told is the truth as long as callbacks are
\* set, and a session that closes by itself has reported OFF by the time it has
\* called on_close, once (a waiting sender is woken, jwsung91/unilink#452).
Notified ==
  /\ callbacks => told = bp
  /\ closes > 0 => ~told
  /\ closes =< 1

\* A session that has been stopped stays so, and one that has been cleaned up
\* sends nothing, queues nothing and calls nobody, whichever completions,
\* timers and posted writes are still to run.
QuietAfterClose ==
  [][closing => closing' /\ (cleanup_done => UNCHANGED <<told, closes, sent, tx, pending>>)]_vars

\* What makes the invariants above inductive.  Closed: cleanup is the last
\* thing a handler does.
Closed == cleanup_done => closing /\ strand.pc = "idle"

\* Before start() no handler has got past its first check.
Fresh == ~alive /\ ~closing => cur = <<>> /\ strand.pc = "idle"

\* Where the one write operation is: armed, its completion queued, or its
\* handler running; current_write_buffer_ is held until that handler starts.
InFlight ==
  /\ cur # <<>> => writing
  /\ "write" \in armed =>
       cur # <<>> /\ ~InQueue("wrote") /\ ~OnWrite
  /\ \A i \in 1..Len(strandQ) : strandQ[i].kind = "wrote" =>
       /\ cur = <<strandQ[i].msg>> /\ strandQ[i].n =< strandQ[i].msg.size
       /\ strandQ[i].ok => strandQ[i].n = strandQ[i].msg.size
       /\ ~OnWrite
       /\ \A j \in 1..Len(strandQ) : strandQ[j].kind = "wrote" => i = j
  /\ OnWrite =>
       /\ cur = <<>> /\ writing /\ strand.n =< strand.msg.size
       /\ strand.ok => strand.n = strand.msg.size

\* A handler that reports backpressure knows where to go on: on_write to its
\* own end, the others to do_write().
Returns ==
  /\ strand.pc \in {"zero", "wrote", "finish"} => OnWrite
  /\ OnWrite => strand.pc \in {"zero", "wrote", "flush", "again", "finish"}

\* What each check has established by the time its result is used: for the
\* parked writes, by the running handler, in each call and in each post.
Parked ==
  pending_bytes =< Limit /\ (pending_bytes > 0 => bp /\ Strategy = "Reliable")

Handling ==
  /\ strand.pc \in {"trim", "store"} => Strategy = "BestEffort"
  /\ strand.pc \in {"trim", "store", "check", "over", "enqueue"} =>
       pending_bytes = 0 /\ strand.msg.size =< Limit
  /\ strand.pc = "store" => strand.q =< Limit + High
  /\ strand.pc \in {"flush", "again"} => pending_bytes = 0
  /\ strand.pc = "flush" =>
       /\ strand.q =< Limit
       /\ queue_bytes + strand.q =< Limit + High
  /\ strand.pc = "enqueue" =>
       queue_bytes =< High \/ queue_bytes + strand.msg.size =< Limit

Calling ==
  \A t \in Threads :
    /\ th[t].pc \in {"load", "room"} => th[t].msg.op = "write"
    /\ th[t].pc \in {"check", "reserve", "exchange"} => th[t].msg.op = "try"
    /\ th[t].pc = "exchange" => th[t].q + th[t].msg.size =< High
    /\ th[t].pc = "exchange" => th[t].msg.size =< Limit
    /\ th[t].pc = "post" => th[t].msg.size =< Limit

Posted ==
  \A i \in 1..Len(strandQ) :
    strandQ[i].kind \in {"write", "try"} => strandQ[i].msg.size =< Limit

Bounded ==
  /\ TypeOK /\ Closed /\ Fresh /\ InFlight /\ Returns
  /\ Parked /\ Handling /\ Calling /\ Posted
  /\ QueueBound

\* The value a trimming pass has loaded may be stale, but never too large:
\* while it is used, threads only add to the count.
Counted ==
  /\ Accounting
  /\ strand.pc = "store" /\ ~closing => strand.q =< Held
  /\ strand.pc = "store" => strand.q =< queue_bytes
  /\ strand.pc = "zero" => Strategy = "BestEffort"

\* Every message accepted under Reliable is eventually written in full, unless
\* the session closes or a handler drops it at the hard limit.
EventuallySent ==
  \A id \in 1..(MaxMsgs + NThreads) :
    id < nextId ~> \/ closing
                   \/ \E i \in 1..Len(sent) : sent[i].id = id
                   \/ \E m \in lost : m.id = id

\* Backpressure goes OFF again once the queue drains, and a stop is carried out.
BpEventuallyOff == (bp ~> ~bp) /\ (closing ~> cleanup_done)

\* "@return true Data was accepted. @return false Dropped or client not found."
\* (wrapper/iserver.hpp:97, send_to(), which returns what async_write_copy()
\* does): a buffer that is dropped was refused, and no call that was answered
\* true is dropped later by its handler.
DroppedIsRefused == \A m \in lost : m.id \notin Accepted

\* "TCP server idle timeout closes only the idle client session."
\* (docs/error_model.md:60): the idle handler closes a session only if no
\* activity has re-armed the timer since it expired.
OnlyIdleIsClosed == [][RunIdle /\ Live => "idle" \notin armed]_vars
=============================================================================
