------------------------------- MODULE Serial -------------------------------
(***************************************************************************)
(* The serial port channel: transport/serial/serial.cc                     *)
(*                                                                         *)
(* This module is about the life cycle: opening, errors, reopening after a *)
(* delay, stop() and start() again, and what they do to the write queue.   *)
(* A handler is one step.  The races of a handler with a reservation on    *)
(* queued_bytes_ are those of TcpServerSession, which has the same code,   *)
(* and the properties below do not depend on them.                         *)
(*                                                                         *)
(* The handler of retry_timer_ is not bound to the strand, but the shared  *)
(* io_context has one thread, which runs handlers in the order they became *)
(* ready: one queue holds them all.                                        *)
(*                                                                         *)
(* link holds what the handlers work on; each function of the code that    *)
(* changes it is a function from link to link, so that a handler is the    *)
(* composition of the functions it calls.                                  *)
(***************************************************************************)
EXTENDS Integers, Sequences, SequencesExt, BpUtils

CONSTANTS
  High, DefaultBp, MaxBuffer, \* as in TcpServerSession
  Strategy,                   \* bp_strategy_
  ReopenOnError,              \* cfg_.reopen_on_error
  StopOnException,            \* cfg_.stop_on_callback_exception
  Sizes,                      \* sizes of the buffers the user writes
  Faults,                     \* what may go wrong with the device or a callback
  MaxMsgs, MaxStarts          \* bounds on the calls of the user

ASSUME SerialAssumption ==
  /\ High \in Nat \ {0} /\ DefaultBp \in Nat /\ MaxBuffer \in Nat \ {0}
  /\ Strategy \in {"Reliable", "BestEffort"}
  /\ ReopenOnError \in BOOLEAN /\ StopOnException \in BOOLEAN
  /\ Sizes \subseteq Nat
  /\ Faults \subseteq {"open", "read", "eof", "write", "throw"}
  /\ MaxMsgs \in Nat /\ MaxStarts \in Nat

Limit == LimitOf(High, DefaultBp, MaxBuffer)
Low == LowOf(High)

VARIABLES
  started, stopping, \* started_, stopping_
  link,              \* see above
  call,              \* the write call the user thread is in, if any
  msgs, starts       \* writes posted and start() calls made

vars == <<started, stopping, link, call, msgs, starts>>

NoCall == [kind |-> "none", size |-> 0]
Handler(kind, size, ec) == [kind |-> kind, size |-> size, ec |-> ec]

Init ==
  /\ started = FALSE /\ stopping = FALSE
  /\ link = [state |-> "Idle", opened |-> FALSE,
             port |-> FALSE,    \* port_->is_open()
             armed |-> <<>>,    \* operations in flight on the port
             timer |-> FALSE,   \* retry_timer_ is set
             strandQ |-> <<>>,  \* handlers ready to run
             tx |-> <<>>, pending |-> <<>>, cur |-> <<>>, writing |-> FALSE,
             queued |-> 0, parked |-> 0, bp |-> FALSE]
  /\ call = NoCall /\ msgs = 0 /\ starts = 0

-----------------------------------------------------------------------------
(* The functions of the channel.                                           *)

Post(s, h) == [s EXCEPT !.strandQ = Append(@, h)]

\* An operation on a port that is not open completes at once, with an error.
Arm(s, op, size) ==
  IF s.port THEN [s EXCEPT !.armed = Append(@, Handler(op, size, "ok"))]
  ELSE Post(s, Handler(op, size, "closed"))

start_read(s) == Arm(s, "read", 0)

do_write(s) ==
  IF stopping \/ s.tx = <<>>
  THEN [s EXCEPT !.writing = FALSE]
  ELSE Arm([s EXCEPT !.writing = TRUE, !.cur = <<Head(s.tx)>>, !.tx = Tail(@)],
           "write", Head(s.tx).size)

\* Closing the port aborts what is in flight on it, reads first.
close_port(s) ==
  LET aborted(op) == SelectSeq([i \in DOMAIN s.armed |-> [s.armed[i] EXCEPT !.ec = "aborted"]],
                               LAMBDA h : h.kind = op)
  IN  [s EXCEPT !.port = FALSE, !.armed = <<>>,
                !.strandQ = @ \o aborted("read") \o aborted("write")]

report_backpressure(s, qb) ==
  IF stopping THEN s
  ELSE IF ~s.bp /\ qb >= High THEN [s EXCEPT !.bp = TRUE]
  ELSE IF s.bp /\ qb =< Low
  THEN [s EXCEPT !.queued = @ + s.parked, !.parked = 0,
                 !.tx = @ \o s.pending, !.pending = <<>>,
                 !.bp = s.queued + s.parked >= High]
  ELSE s

\* A cleanup that leaves the port to its destructor.
perform_cleanupOpen(s) ==
  LET e == [s EXCEPT !.timer = FALSE, !.tx = <<>>, !.queued = 0, !.pending = <<>>,
                     !.parked = 0, !.writing = FALSE]
  IN  [report_backpressure(e, 0) EXCEPT !.opened = FALSE, !.state = "Closed"]

\* An expiry that is ready to run is not taken back by cancel().
perform_cleanup(s) ==
  LET c == close_port([s EXCEPT !.timer = FALSE])
      e == [c EXCEPT !.tx = <<>>, !.queued = 0, !.pending = <<>>, !.parked = 0,
                     !.writing = FALSE]
  IN  [report_backpressure(e, 0) EXCEPT !.opened = FALSE, !.state = "Closed"]

\* A retry that is never scheduled.
schedule_retryNever(s) == s

schedule_retry(s) == IF stopping THEN s ELSE [s EXCEPT !.timer = TRUE]

\* An error path that leaves opened_ set.
handle_errorOpened(s, ec) ==
  LET down(state) == [close_port(s) EXCEPT !.state = state]
  IN  CASE ec = "eof" -> start_read(s)
        [] ec # "eof" /\ stopping -> perform_cleanup(s)
        [] ec = "aborted" /\ ~stopping -> IF s.state = "Error" THEN s ELSE perform_cleanup(s)
        [] OTHER -> IF ReopenOnError THEN schedule_retry(down("Connecting")) ELSE down("Error")

handle_error(s, ec) ==
  LET down(state) == [close_port(s) EXCEPT !.opened = FALSE, !.state = state]
  IN  CASE ec = "eof" -> start_read(s)
        [] ec # "eof" /\ stopping -> perform_cleanup(s)
        [] ec = "aborted" /\ ~stopping -> IF s.state = "Error" THEN s ELSE perform_cleanup(s)
        [] OTHER -> IF ReopenOnError THEN schedule_retry(down("Connecting")) ELSE down("Error")

\* An opening that does not resume the queue.
open_and_configureOnly(s, ok) ==
  IF s.port \/ ~ok
  THEN handle_error(s, "error")
  ELSE [start_read([s EXCEPT !.port = TRUE]) EXCEPT !.opened = TRUE, !.state = "Connected"]

\* Opening a port that is open already fails.
open_and_configure(s, ok) ==
  IF s.port \/ ~ok
  THEN handle_error(s, "error")
  ELSE do_write([start_read([s EXCEPT !.port = TRUE]) EXCEPT !.opened = TRUE,
                                                             !.state = "Connected"])

maybe_flush_for_keep_latest(s, added) ==
  IF Strategy = "Reliable" THEN s
  ELSE LET k == KeepLatestDrops(s.tx, s.queued, added, High)
       IN  [s EXCEPT !.tx = SubSeq(@, k + 1, Len(@)),
                     !.queued = Monus(@, Bytes(SubSeq(s.tx, 1, k)))]

\* The end of every handler that enqueues.
Enqueued(s) ==
  LET r == report_backpressure(s, s.queued)
  IN  IF r.writing THEN r ELSE do_write(r)

\* A pooled buffer that finds no room is dropped; any other is an error.
Overflow(s, b) ==
  LET r == report_backpressure(s, s.queued + b.size)
  IN  IF b.kind = "pooled" THEN r
      ELSE handle_error([r EXCEPT !.tx = <<>>, !.queued = 0, !.writing = FALSE,
                                  !.state = "Error"], "error")

-----------------------------------------------------------------------------
(* The user's calls.                                                       *)

Start ==
  /\ starts < MaxStarts
  /\ ~started
  /\ started' = TRUE /\ stopping' = FALSE
  /\ link' = Post(link, Handler("start", 0, "ok"))
  /\ starts' = starts + 1
  /\ UNCHANGED <<call, msgs>>

Stop ==
  /\ \/ /\ ~started
        /\ link' = [link EXCEPT !.state = "Closed"]
        /\ UNCHANGED <<started, stopping>>
     \/ /\ started /\ ~stopping
        /\ stopping' = TRUE /\ started' = FALSE
        /\ link' = Post(link, Handler("cleanup", 0, "ok"))
  /\ UNCHANGED <<call, msgs, starts>>

Accepting == ~stopping /\ link.state \notin {"Closed", "Error"}

Call(kind, n) ==
  /\ call = NoCall /\ msgs < MaxMsgs
  /\ Accepting /\ n > 0
  /\ link.queued + link.parked + n =< Limit
  /\ call' = [kind |-> kind, size |-> n]
  /\ UNCHANGED <<started, stopping, msgs, starts>>

\* The pool may be exhausted, or the buffer too large for it.
AsyncWriteCopy(n) ==
  n =< MaxBuffer /\ (Call("pooled", n) \/ Call("plain", n)) /\ UNCHANGED link
AsyncWriteMove(n) == Call("plain", n) /\ UNCHANGED link
AsyncWriteShared(n) == Call("plain", n) /\ UNCHANGED link

\* Checked and reserved in one step.
AsyncTryWrite(n) ==
  /\ n =< MaxBuffer /\ ~link.bp
  /\ ReserveFits(link.queued, link.parked, n, High, Limit)
  /\ Call("try", n)
  /\ link' = [link EXCEPT !.queued = @ + n]

PostWrite ==
  /\ call # NoCall
  /\ link' = Post(link, Handler(call.kind, call.size, "ok"))
  /\ call' = NoCall /\ msgs' = msgs + 1
  /\ UNCHANGED <<started, stopping, starts>>

-----------------------------------------------------------------------------
(* Handlers.                                                               *)

\* The strand runs its next handler h, which turns s into link'.
First == Head(link.strandQ)
Rest == [link EXCEPT !.strandQ = Tail(@)]
Run(kind) ==
  /\ link.strandQ # <<>> /\ First.kind = kind
  /\ UNCHANGED <<started, stopping, call, msgs, starts>>

Opens(ok) == ok \/ "open" \in Faults

RunStart ==
  /\ Run("start")
  /\ \E ok \in BOOLEAN :
       /\ Opens(ok)
       /\ link' = IF stopping THEN Rest
                  ELSE open_and_configure([Rest EXCEPT !.state = "Connecting"], ok)

RunCleanup == Run("cleanup") /\ link' = perform_cleanup(Rest)

\* on_bytes_ may throw.
RunRead ==
  /\ Run("read")
  /\ \/ First.ec # "ok" /\ link' = handle_error(Rest, First.ec)
     \/ First.ec = "ok" /\ link' = start_read(Rest)
     \/ /\ First.ec = "ok" /\ "throw" \in Faults
        /\ link' = IF StopOnException
                   THEN [close_port(Rest) EXCEPT !.opened = FALSE, !.state = "Error"]
                   ELSE handle_error(Rest, "error")

\* on_write.  A write that fails may have sent part of its buffer.
Written ==
  CASE First.ec = "ok" -> {First.size}
    [] First.ec = "closed" -> {0}
    [] OTHER -> 0..(First.size - 1)

RunWrote ==
  /\ Run("write")
  /\ \E n \in Written :
       LET s == [Rest EXCEPT !.cur = <<>>, !.queued = Monus(@, n)]
           r == report_backpressure(s, s.queued)
       IN  link' = IF stopping THEN [r EXCEPT !.writing = FALSE]
                   ELSE IF First.ec = "ok" THEN do_write(r) ELSE handle_error(r, First.ec)

RunWrite ==
  /\ Run("pooled") \/ Run("plain")
  /\ LET b == [kind |-> First.kind, size |-> First.size]
         t == maybe_flush_for_keep_latest(Rest, b.size)
     IN  link' =
           IF Strategy = "Reliable" /\ link.bp
           THEN IF link.queued + link.parked + b.size > Limit THEN Rest
                ELSE [Rest EXCEPT !.parked = @ + b.size, !.pending = Append(@, b)]
           ELSE IF t.queued + b.size > Limit THEN Overflow(t, b)
           ELSE Enqueued([t EXCEPT !.queued = @ + b.size, !.tx = Append(@, b)])

RunTry ==
  /\ Run("try")
  /\ link' = IF Accepting
             THEN Enqueued([Rest EXCEPT !.tx = Append(@, [kind |-> "try", size |-> First.size])])
             ELSE [Rest EXCEPT !.queued = Monus(@, First.size)]

\* A retry that does not look at stopping_.
RunRetryAnyway ==
  /\ Run("retry")
  /\ \E ok \in BOOLEAN :
       /\ Opens(ok)
       /\ link' = open_and_configure(Rest, ok)

RunRetry ==
  /\ Run("retry")
  /\ \E ok \in BOOLEAN :
       /\ Opens(ok)
       /\ link' = IF stopping THEN Rest ELSE open_and_configure(Rest, ok)

-----------------------------------------------------------------------------
(* The device and the clock.                                               *)

Armed(op) == SelectInSeq(link.armed, LAMBDA h : h.kind = op)

Complete(op, ec) ==
  /\ Armed(op) > 0
  /\ link' = Post([link EXCEPT !.armed = RemoveAt(@, Armed(op))],
                  [link.armed[Armed(op)] EXCEPT !.ec = ec])
  /\ UNCHANGED <<started, stopping, call, msgs, starts>>

ReadCompletes ==
  \/ Complete("read", "ok")
  \/ "eof" \in Faults /\ Complete("read", "eof")
  \/ "read" \in Faults /\ Complete("read", "error")

WriteCompletes ==
  \/ Complete("write", "ok")
  \/ "write" \in Faults /\ Complete("write", "error")

RetryExpires ==
  /\ link.timer
  /\ link' = Post([link EXCEPT !.timer = FALSE], Handler("retry", 0, "ok"))
  /\ UNCHANGED <<started, stopping, call, msgs, starts>>
-----------------------------------------------------------------------------
Strand == RunStart \/ RunCleanup \/ RunRead \/ RunWrote \/ RunWrite \/ RunTry \/ RunRetry

Next ==
  \/ Start \/ Stop
  \/ \E n \in Sizes : \/ AsyncWriteCopy(n) \/ AsyncWriteMove(n) \/ AsyncWriteShared(n)
                      \/ AsyncTryWrite(n)
  \/ PostWrite
  \/ Strand
  \/ ReadCompletes \/ WriteCompletes \/ RetryExpires

Spec == Init /\ [][Next]_vars

\* The io thread runs handlers, and a timer that is set expires.
FairSpec == Spec /\ WF_vars(Strand) /\ WF_vars(RetryExpires)

-----------------------------------------------------------------------------
(* Properties.                                                             *)

Buffers == [kind : {"pooled", "plain", "try"}, size : Nat]
Handlers == [kind : {"start", "cleanup", "read", "write", "pooled", "plain", "try", "retry"},
             size : Nat, ec : {"ok", "eof", "aborted", "error", "closed"}]
Links == [state : {"Idle", "Connecting", "Connected", "Closed", "Error"},
          opened : BOOLEAN, port : BOOLEAN, armed : Seq(Handlers),
          timer : BOOLEAN, strandQ : Seq(Handlers),
          tx : Seq(Buffers), pending : Seq(Buffers), cur : Seq(Buffers),
          writing : BOOLEAN, queued : Nat, parked : Nat, bp : BOOLEAN]

\* Every variable keeps its type; the counters never go below zero, where the
\* code's size_t would wrap around.
TypeOK ==
  /\ started \in BOOLEAN /\ stopping \in BOOLEAN
  /\ link \in Links
  /\ call \in [kind : {"none", "pooled", "plain", "try"}, size : Nat]
  /\ msgs \in 0..MaxMsgs /\ starts \in 0..MaxStarts

InQueue(kind) == \E i \in 1..Len(link.strandQ) : link.strandQ[i].kind = kind
WriteInFlight == Armed("write") > 0 \/ InQueue("write")
Cleaned == ~stopping /\ ~InQueue("cleanup")

\* is_connected() and the Connected state mean a port that is open and read
\* from, whatever errors, aborted completions and expiries came in between.
ConnectedIsLive ==
  /\ link.state = "Connected" => link.opened
  /\ link.opened => link.port /\ (Armed("read") > 0 \/ InQueue("read"))

\* Connecting never lasts without a cause that ends it: whatever cancels the
\* retry timer leaves another state behind.
NoStuckConnecting ==
  link.state = "Connecting" /\ ~stopping =>
    link.timer \/ InQueue("retry") \/ InQueue("start")

\* "operation_aborted after stop must not trigger reconnect/reopen": once the
\* cleanup posted by stop() has run, no expiry, completion or queued write
\* opens the port again or leaves an operation on it.
StopIsFinal ==
  stopping /\ ~InQueue("cleanup") => ~link.port /\ ~link.opened /\ link.armed = <<>>

\* On a connected port, what is queued is being written, and what is parked
\* waits for a backpressure that is really on.
NoStuckQueue ==
  /\ link.state = "Connected" /\ Cleaned /\ link.tx # <<>> => WriteInFlight
  /\ link.parked = Bytes(link.pending)
  /\ link.pending # <<>> => link.bp /\ Strategy = "Reliable"

\* stop() always ends with the port closed, unless start() is called again.
StopCloses == stopping ~> (~stopping \/ (~link.port /\ link.armed = <<>>))

\* A lost device is opened again, or given up with a state that says so.
ConnectingEnds == link.state = "Connecting" ~> link.state # "Connecting"

\* What the configuration says of reopen_on_error: "Attempt to reopen on
\* device disconnection/error".  Until stop(), the channel is not Closed.
ReopensAfterError ==
  ReopenOnError /\ started /\ ~InQueue("start") => link.state # "Closed"

\* What the configuration says of stop_on_callback_exception: callback
\* exceptions "halt the link (true)".  No handler leaves Error but start().
HaltedStaysHalted ==
  [][StopOnException /\ link.state = "Error" /\ started' /\ ~InQueue("start")
       => link'.state = "Error"]_vars

\* What the test BackpressureReliefAfterDrain expects: on a connected port
\* with nothing left to write, backpressure is off.
DrainedIsRelieved ==
  link.state = "Connected" /\ link.strandQ = <<>> /\ call = NoCall
    /\ link.tx = <<>> /\ link.cur = <<>> => ~link.bp
=============================================================================
