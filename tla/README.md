# A formal model of unilink

unilink is a C++ library of asynchronous channels (TCP, UDP, Unix domain
sockets, serial ports) on boost::asio.  This directory holds TLA+ modules that
model its parts from the source under `src/unilink/`, TLC configurations that
check them on small instances, and TLAPS proofs that hold for every instance.
`PROJECT.json` lists the components, the source lines behind every definition,
the runs, the hazards each property is about, and the theorems.

## The system

| Part | Source | What it does | Model |
|---|---|---|---|
| TCP server session | `transport/tcp_server/tcp_server_session.cc` | one accepted connection: write queue, backpressure, read loop, idle timer, close | `TcpServerSession` |
| Backpressure helpers | `transport/base/bp_utils.hpp` | reservation, release, keep-latest trimming of byte counts | `BpUtils`, `ByteSum` |
| TCP server | `transport/tcp_server/tcp_server.cc` | bind, accept loop, client limit, session table | planned |
| TCP client | `transport/tcp_client/tcp_client.cc` | resolve, connect, retry, write queue, idle timer | planned |
| Reconnect policy | `transport/base/reconnect_*.hpp` | whether and when to try again | planned |
| Serial | `transport/serial/serial.cc` | open, read, write, reopen on error | `Serial` |
| UDS client, server, session | `transport/uds/` | as TCP, on Unix domain sockets | planned |
| UDP | `transport/udp/udp.cc` | datagrams with a queue and remembered peer | planned |
| Shared io_context | `concurrency/io_context_manager.cc` | start, stop and join of a shared thread | planned |
| Thread-safe state | `concurrency/thread_safe_state.hpp` | a monitor with callbacks | planned |
| Wrappers | `wrapper/` | futures, blocking sends, batches, virtual sessions | planned |
| Framers | `framer/` | lines and packets out of chunks | planned |
| Memory pool | `memory/memory_pool.cc` | pooled buffers | planned |
| Builders, factory, configuration, diagnostics, memory checks, interfaces, base | | construction, constants, reporting, forwarding | not modelled |

A user thread calls a wrapper, the wrapper a transport.  A transport's calls
read a few atomics (`queue_bytes_`, `pending_bytes_`, `backpressure_active_`,
state flags) on the caller's thread, and post a handler to the transport's
strand; everything else happens in handlers.  What goes wrong in such code goes
wrong between the caller's checks and the handler, between the several accesses
to an atomic, and in the order in which completions, timers, posts and a close
reach the strand.  The models keep exactly that.

## TcpServerSession

**State.** The variables are the members of the class under their own names
(`tx`, `pending`, `cur` for `current_write_buffer_`, `queue_bytes`,
`pending_bytes`, `bp` for `backpressure_active_`, `writing`, `alive`, `closing`,
`cleanup_done`; `callbacks` for the three callbacks, which are set and cleared
together), the operations in flight (`armed`), the handlers queued on the strand
(`strandQ`), the handler that runs (`strand`), each user thread inside a call
(`th`), and four variables that only record what happened: what
`on_backpressure` was last told, how often `on_close` was called, what was sent,
what a handler dropped.

A buffer is a record of its number, its size and the call it came from.  The
three kinds of buffer (pooled, moved, shared) take the same path through the
code and are one here.  Statistics, logging and the bytes themselves are left
out.

**Steps.** A handler runs alone on the strand, so only what a user thread may
touch at the same time needs steps of its own.  User threads write
`queue_bytes_` (a reservation) and `closing_` (`stop()`), and read the atomics.
So each handler is cut where it accesses `queue_bytes_` twice, or moves bytes
from one atomic to another:

| Code | Steps |
|---|---|
| `async_write_*` | `AsyncWrite*` (state checks), `WriteLoad`, `WriteRoom` (the two loads of the admission check), `PostWrite` |
| `async_try_write_*` | `AsyncTryWrite*`, `TryCheck`, `ReserveLoad`, `ReserveExchange` or `ReserveRetry`, `PostWrite` |
| handler of a write | `RunWrite`, `TrimLoad`/`TrimStore` (keep-latest), `CheckLimit`, `Enqueue`, `ReportBackpressure`, `Kick` |
| handler of a try write | `RunTry`, `ReportBackpressure`, `Kick` |
| `on_write` | `RunWrote`, `ZeroBytes`, `ReportBackpressure`, `FinishWrote` |
| `report_backpressure()` | `ReportBackpressure`, `FlushPending`, `TurnOnAgain` |
| read, idle, start, stop, cancel, callbacks | `RunRead`, `RunIdle`, `RunStart`, `RunStop`, `RunCancel`, `RunRegister` |
| network and clock (boost::asio) | `ReadCompletes`, `WriteCompletes`, `IdleExpires` |

The precheck of a try write reads three atomics in one step (`TryCheck`).  It can
only refuse, and the loop after it checks the same sums on values of its own, so
that any outcome of a finer interleaving is either a refusal, which is always
possible, or an outcome of the loop.

boost::asio is modelled from how the code uses it: handlers of a strand run in
the order they were queued, an operation on a closed socket completes with an
error, and cancelling a timer does not take back an expiry that is already
queued.

**Bounds.** `MaxMsgs` stops new calls once that many buffers were posted, which
bounds every other variable.  `High` = 2, a default threshold of 1 and
`MaxBuffer` = 6 give a hard limit of 6 and a low mark of 1; the sizes 1, 3 and 6
stay below, jump over, and fill.  Two threads with three buffers reach ON, a
parked write, OFF with a flush, ON again inside the same call, and a write that
finds no room.  The session may stop for good (it closes, or nobody writes any
more), so deadlock is not checked.

## Serial

**State.** `started` and `stopping` belong to the user's thread; `link` is what
the handlers work on: the state and `opened_`, the port with its operations in
flight, the retry timer, the handlers ready to run, and the write queue with its
counters.  Each function of `serial.cc` that changes them is a function from
`link` to `link` under its own name (`handle_error`, `perform_cleanup`,
`open_and_configure`, ...), and a handler is their composition.

**Steps.** A handler is one step, a write call is two (the checks, then the
post), so that everything may happen in between.  The user may write before
`start()`, stop twice, and start again while the cleanup of the last run is still
queued.  The retry timer's handler is not bound to the strand; the shared
io_context has a single thread, so one queue in order of readiness holds its
handlers and the strand's.  Opening and configuring the device is one success or
failure.  An operation on a port that is not open fails at once; closing the port
aborts what is in flight, reads first.

Reservations on `queued_bytes_` are made in one step here: their races are those
of `TcpServerSession`, which has the same code.

**Bounds.** `MaxMsgs` writes and `MaxStarts` calls of `start()`; `Faults` says
what the device and the callback may do wrong.  One run with three writes and one
start reaches every switch of backpressure; two starts with two writes reach a
restart in the middle of a write, an error and a retry.  The channel may rest in
Closed or Error, so deadlock is not checked.

## Runs

| Run | Checks | Shows |
|---|---|---|
| `session_reliable` | `Accounting`, `QueueBound`, `NoStuckQueue`, `OneWriteAtATime`, `BpHasWitness`, `PendingOnlyUnderBp`, `SendOrder`, `NothingVanishes` | two threads writing and try-writing across every switch of backpressure |
| `session_besteffort` | `Accounting`, `QueueBound`, `OnlyOverwritesLose` | keep-latest trimming and failing writes against concurrent reservations |
| `session_close` | `TypeOK`, `Accounting`, `Notified`, `QuietAfterClose` | every way to close at every point of a write |
| `session_liveness` | `EventuallySent`, `BpEventuallyOff` | what is accepted is sent; backpressure ends |
| `session_reliable_drop` | `DroppedIsRefused` | violated: see findings |
| `session_idle` | `OnlyIdleIsClosed` | violated: see findings |
| `serial_reopen` | `TypeOK`, `NoStuckQueue` | three writes against every fault of the device |
| `serial_restart` | `ConnectedIsLive`, `NoStuckConnecting`, `StopIsFinal` | `stop()` and `start()` at any moment |
| `serial_liveness` | `StopCloses`, `ConnectingEnds` | a stop is carried out; Connecting ends |
| `serial_reopen_lost` | `ReopensAfterError` | violated: see findings |
| `serial_halt` | `HaltedStaysHalted` | violated: see findings |
| `serial_relief` | `DrainedIsRelieved` | violated: see findings |

**What holds.** `pending_bytes_` always equals the bytes parked.  Under Reliable
`queue_bytes_` always equals the bytes queued, in flight and reserved.  Under
BestEffort it may be too small, because trimming stores a value computed from an
earlier load and so loses a reservation made in between (and so, rarely, does
`on_write`, which overwrites a count it found too small); it is never too large,
and nothing else is ever missing from it (`OnlyOverwritesLose`).

`QueueBound` is about the counters: `queue_bytes_ + pending_bytes_` is at most
`bp_limit_ + bp_high_`, and this is tight within one message, since a reservation
can be made between a handler's check and its enqueue.  Under Reliable the
counters are exact and the bytes held are bounded with them.  Under BestEffort
they are not: each lost reservation is held and not counted, losses add up while
their buffers stay queued, and no run or theorem bounds the bytes held.

`NoStuckQueue` of `Serial` says that writes queued on a connected port are being
written.  It says nothing of parked writes, which `serial_relief` shows waiting
for a backpressure that does not end.  `Notified` sees `do_close()` as one step:
it shows that OFF and `on_close` are both reported, not the order of the two.

**Fairness.** `FairSpec` assumes that the io thread goes on running handlers
(`io_context::run` does), that a thread that is inside a write call goes on, and
that a write handed to the socket completes, with success or an error (the peer
reads or the connection breaks).  It assumes nothing about try writes, whose loop
may retry, nor about the peer sending anything.  For `Serial` it assumes that
handlers run and that a timer that is set expires; `ConnectingEnds` is checked
with a device that can be opened, since one that never opens is retried for ever.

**Findings.** All are disagreements between the code and what the repository says
of it.

* `session_reliable_drop`: `iserver.hpp` says of `send_to()`, which returns what
  the session's `async_write_copy()` does, "true Data was accepted", "false Dropped
  or client not found."  Two calls may both pass the admission check while
  backpressure is OFF; the handler of the first turns it ON, and the handler of the
  second finds no room below the hard limit and drops its buffer.  That the limit
  ends the guarantee is documented; that a caller who was told `true` loses the
  buffer, with a line in the log and no counter that records it, is not.
* `session_idle`: `docs/error_model.md` says that the idle timeout "closes only
  the idle client session."  When the timer expires while a read completion is
  queued in front of its handler, the read re-arms the timer, but the expiry that
  is already queued carries no error and closes the session.
* `serial_reopen_lost`: `serial_config.hpp` says of `reopen_on_error` "Attempt to
  reopen on device disconnection/error".  When a write fails, or a read fails
  while a write is in flight, closing the port aborts the other operation; its
  handler takes the abort for an orderly close, cancels the retry and leaves the
  channel Closed.
* `serial_halt`: `serial_config.hpp` says that a callback exception may "halt the
  link (true)".  A write that was posted before still runs, fails on the closed
  port, and schedules a reopen.
* `serial_relief`: the test `BackpressureReliefAfterDrain` expects backpressure to
  end when the queue has drained.  A write that is started while the port is
  closed fails without giving back its bytes, which may hold backpressure ON with
  nothing left to write; under Reliable every later write is then parked.

Three more orders of `Serial` are listed as hazards without a run, because nothing
in the repository says what should happen.  A stale completion resets
`current_write_buffer_` under a later write.  Backpressure that is ON at `stop()`
is still ON after the next `start()`.  The third is a quick `stop()` and
`start()`: cleanup, start, and then the aborted read of the old run, which closes
the new port and leaves the channel Closed although it was started.
`ReopensAfterError` with two starts shows it; `ConnectedIsLive`, `StopIsFinal` and
`StopCloses` all hold of it.  The wrapper avoids this order by building a new channel
for each start; it remains for a channel that is injected or used directly, of which
nothing says when it may be started again.

## Proofs

`ByteSumProofs` proves what the sum of a sequence does when an element is added,
removed or changed.  `SumSeq` is a recursive function, and its lemmas go by
induction over prefix sums, with a set in the place of a predicate.

`TcpServerSessionProofs` proves `Spec => []Bounded`, for any number of threads,
any thresholds, sizes and strategy (`SessionAssumption`), and from it
`SessionTypeOK`, `SessionQueueBound` and `SessionOneWriteAtATime`.  `Bounded`
says what `QueueBound` needs at every intermediate point:

* `Handling` and `Calling`: what a check has established still holds, or holds up
  to one reservation, when its result is used.  A thread about to exchange has
  found a sum of at most `High`, and the exchange succeeds only if `queue_bytes_`
  still has that value; a handler about to enqueue has found room below the
  limit, unless a reservation came in between, and then `queue_bytes_` is at most
  `High` because reservations stop there.
* `Parked`: bytes are parked only under Reliable and while backpressure is ON.
* `InFlight`, `Returns`: the one write is armed, or its completion is queued, or
  its handler runs, and never two of these.
* `Closed`, `Fresh`: nothing is done after cleanup or before `start()`.

`TcpServerSessionAccounting` proves `SessionAccounting`.  The sum `Held` ranges
over two deques, the strand's queue and all threads; one lemma per part says how
a step moves it, and `Counted` adds that the value a trimming pass has loaded is
never larger than what is held nor, since threads only add while it is used,
than the count itself, and that `queue_bytes_` is too small for a completed write
only under BestEffort.  The same lemmas show of every step that it takes no more
from the count than it overwrites, which is `SessionOnlyOverwritesLose`; the
overwrite of a write that failed in part is where the amount is easy to get wrong.

Model-checked only: the liveness properties, and `NoStuckQueue`, `BpHasWitness`,
`PendingOnlyUnderBp`, `SendOrder`, `NothingVanishes`, `Notified` and
`QuietAfterClose`, and all of `Serial`.  Liveness under fairness is out of the
prover's reach; the others are planned.

## Plan

1. `TcpServer`: accept loop, limit and session table over the life cycle of
   sessions, as an abstract specification that `TcpServerSession` implements.
2. `TcpClient` with the reconnect policy: life cycle first, then the queue.
3. `UdsServerSession`, `UdsClient`, `UdpChannel`: as differences to the above.
4. `IoContextManager`, the wrappers with their blocking sends and their restarts,
   the framers against a definition over the whole stream, the memory pool.
5. Proofs: `NoStuckQueue`, `BpHasWitness`, `PendingOnlyUnderBp` of the session, and
   the session table of the server; `StopIsFinal` and `ConnectedIsLive` of `Serial`.
