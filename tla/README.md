# A TLA+ development of the signet clients

signet is a secret server; this repository holds its client libraries in Go,
Rust, Python, TypeScript and C#.  Two things in them are hard to get right and hard
to test.  **Coordinated restarts**: a service watches for changes of its secret
bundle, waits until the changes settle, acquires a fleet-wide restart lock over a
bidirectional stream, keeps it alive with heartbeats, drains, and releases it, so that
"at most one replica restarts at a time"; every language implements this once, each
with its own kind of concurrency.  **Connections and calls**: an identity that may not
be issued yet, a token that must not travel in the clear, and messages whose codec,
in TypeScript, is code of this repository.

## 1. The system

| component | source | state | operations | what is hard |
|---|---|---|---|---|
| Restart lock | `go/restart.go:112-310`, `typescript/src/restart.ts:287-535`, `python/.../restart.py`, `rust/src/restart.rs`, `csharp/Lock.cs` | the stream, `released`, `lost` signal, token and expiry, a receive loop and a heartbeat loop | acquire, release, report a loss, receive, heartbeat | loops, callers of release, cancellation and the stream interleave freely |
| Bundle watch | `go/restart.go:32-111`, `typescript/src/restart.ts:97-285`, `csharp/Watch.cs`, and counterparts | the current stream, the backoff, a one-place signal | open, receive, back off, signal, close | reconnection, coalescing, cancellation in each wait |
| Wait for restart | `go/restart.go:312-355`, `csharp/Restart.cs`, and counterparts | watch, debounce timer, lock | wait, debounce, acquire | a timer racing changes and cancellation |
| signet server | not in this repository | a queue per service, the holder and its ttl; registered watchers | grant, extend, expire, notify | known only by the comments of `go/gen/signet/v1` |
| Workload connection | `go/client.go:96-175`, `typescript/src/workload.ts`, `csharp/WorkloadConnection.cs`, `rust/src/client.rs:442-626`, `python/.../workload.py` | attempts, the X.509 source, in TypeScript what holds the event loop | dial, retry PermissionDenied, close | retry against cancellation; every failure must close what was opened |
| Admin connection | `go/client.go:214-284`, `typescript/src/client.ts`, `python/.../admin.py`, `csharp/AdminConnection.cs`, `rust/src/client.rs:200-378` | none | choose transport and credentials, add the token | the same decision five times, over five ways to read an address |
| Generated stubs | `typescript/src/gen`, and the other languages' | none | encode, decode, JSON, create, call | the shape of a value (null, zero, unknown, deep) decides what survives |
| SOPS encryption, JSON patch | `typescript/src/sopsEncrypt.ts`, `typescript/src/jsonpatch.ts` and counterparts | none | pure functions | what is sealed under which additional data |
| Echo example | `typescript/examples/echo/index.ts`, and counterparts | a process | dial, fetch, wait, drain, release, exit | signals and failures at any point |

A replica's application dials, calls the wait, which starts a watch (a goroutine, task
or thread) and receives its signals through a one-place channel.  It then calls
the lock, whose receive loop and heartbeat loop share the lock's fields with the
application's calls of release.  Replicas meet only in the server's queue.

What makes each part correct:

- *Lock*: a loss is reported once, never for a clean release, and always for a
  broken lock that was not released; acquire returns only what was granted and,
  when it fails, leaves no goroutine and no place in the queue; release gives the
  lock back before it returns; no loop outlives the lock.
- *Watch*: no change that was sent is lost and none made up; the delay follows
  the documented schedule; the watch ends with its context and only then.
- *Wait*: a restart has a reason, a quiet debounce period before it, and follows
  every change received; cancellation ends it in every state.
- *Fleet*: heartbeats keep a lock; one holder at a time over healthy streams;
  whoever queues gets the lock or an error, whoever else dies.
- *Dial*: five probes with the documented waits, no other error retried, nothing left
  open by a failure; plaintext only to this machine or on request.
- *Calls*: what is received is what was sent; what cannot be read back is refused, not
  cut short; the token is on every call.
- *Process*: it exits with 0 after a release or a shutdown signal, and for no other
  reason that is not named.

`PROJECT.json` lists the hazards of the code line by line with the properties
that would catch them.

## 2. The modules

| module | models | kind |
|---|---|---|
| `RestartLock` | what one lock promises its application | abstract specification |
| `LockStream` | the `AcquireRestartLock` stream and the server at its other end | external environment, extended by the lock modules |
| `GoLock`, `TsLock`, `PyLock`, `RsLock`, `CsLock` | the lock of each language | detailed; each implements `RestartLock` |
| `MCLocks` | one client that is Python's, Rust's or C#'s, and one refinement for the three | composition for TLC |
| `WatchStream` | the `WatchServiceBundle` stream and the server at its other end | external environment, extended by the watch modules |
| `GoWatch`, `TsWatch`, `PyWatch`, `RsWatch`, `CsWatch` | the watch of each language | detailed |
| `GoWaitForRestart`, `TsWaitForRestart`, `PyWaitForRestart`, `RsWaitForRestart`, `CsWaitForRestart` | the wait of each language over its watch and the contract `RestartLock` | composition |
| `MCWaits` | one client that is Python's, Rust's or C#'s | composition for TLC |
| `FleetRestart` | several clients, the server's queue and ttl, discrete time | composition |
| `TsWorkload` | `dialWorkload`, its retry, `authorizeTrustDomainMember`, the interval that holds the event loop | detailed |
| `TsEcho` | the TypeScript echo example over `TsWorkload` and `TsWaitForRestart` | composition |
| `WorkloadDial` | the dial of Go, Rust, C# and Python | detailed |
| `AdminTransport` | the decision between TLS and plaintext in Go, Python, Rust and C# | operators |
| `ProtoFields`, `SecretsProto`, `AdminProto` | every message, enum and method of the three services, as tables | data |
| `ProtoCodec` | encode, decode, JSON, create over those tables | operators |
| `ProtoMessages` | the messages that are sent, and what one means without a codec | operators |
| `TsCalls` | one application of the TypeScript client: admin connection, interceptors, calls, JSON patches, SOPS; the codec is a parameter | detailed |
| `MCCalls` | `TsCalls` or one `WorkloadDial` | composition |
| `MCCodec` | `MCCalls` with the codec of `ProtoCodec`, and what that promises | composition for TLC |
| `GoLockProofs`, `TsLockProofs` | the safety theorems of the two locks and their refinements | proofs |
| `GoWaitProofs` | the safety theorems of the Go watch and wait | proofs |
| `FleetProofs` | exclusion, and heartbeats that keep the lock | proofs |
| `EchoProofs` | the safety theorems of `TsEcho`: dial, watch, wait and process | proofs |
| `LocksProofs` | the refinements of the Python, Rust and C# locks | proofs |
| `WaitsProofs` | the safety theorems of the Python, Rust and C# waits | proofs |
| `CallsProofs` | the dials of `WorkloadDial`, and of `TsCalls` the transport, the token and the documents | proofs |
| `MCGoLock`, `MCTsLock`, `MCFleetRestart`, `MCTsEcho` | sets for TLC | instances |

### State and code

**Locks.** `GoLock` keeps one variable per field or local that more than one goroutine
depends on: `released`, `token`, `lost` (how many errors the channel holds),
`lostOnce`, `acquired` (the channel from `recvLoop` to `acquireLock`),
`gotAcquired`, `hbCancelled` (`cancelHB` was called) and `ctxDone`.  `acq`, `pc`
and `rel` are program counters of `acquireLock`, the two loops and each caller of
`Release`.  An action is what a goroutine does between two points where another
may run: `reportLost` is two actions because it unlocks between the read of
`released` and the push, `Release` is four.  `select` statements are
disjunctions, so a ready `ctx.Done()` and a ready channel may be taken in either
order.  Two variables are history: `releasedClean` (the stream was up when
`Release` was called; `leftClean` in the Rust and C# locks) and `delivered` (errors the
application received).

`TsLock` has no goroutines: an action is what one callback or continuation runs.
Promises are variables of their own, because they settle some time before the
code that awaits them continues: `acquired` is the promise of the receive loop and
`race` what `raceAbort` makes of it and the signal.  `timer` says that the interval
is set; a tick may come at any moment and either sends or, on a half-closed
stream, throws.  The network and the `AsyncMailbox` behind it are one queue,
`inbox`.  `reports` counts the 'lost' events.

`PyLock` has three threads of its own and a fourth in grpc-python, which consumes
`_request_iterator`: what a thread sends waits in `sendQueue` first, the CLOSE mark of
`release` among it.  A tick of the heartbeat thread is two actions, because
`Event.wait` may time out just before the event is set; `_report_lost` is two as well,
because it sets `lost_event` after it has left the mutex.

`RsLock` has one task.  Its `select!` is biased: the release arm is looked at first, so
that a step is to find it not ready (`task = "polled"`) and then to take another arm.
`outbox` is the bounded channel of requests; while the task waits for room in it, it
looks at nothing else.  `acquire_lock` waits for the server's headers before it sends
its request (`acq = "opening"`).  The caller's future, and the lock, may be dropped;
a dropped lock makes the release arm ready just as a sent value does (`signal`).

`CsLock` has a receive and a heartbeat task and the caller's token, whose cancellation
acts twice: gRPC aborts the call, and a callback completes the
`TaskCompletionSource` that `AcquireAsync` awaits; these are two steps and whoever
completes the source first wins (`acquired`).  The loss is reported outside the gate.

`LockStream` gives the stream its client-side state (`stream`, `sendClosed`), the
messages under way (`inbox`, `heartbeats`), and the server's view (`srv`).  A
stream that the server ends delivers what is already on its way; one the client
aborts does not.

`MCLocks` and `MCWaits` are disjoint unions: `client` says whose variables are in use,
and the refinement mapping of `MCLocks` picks that client's by a CASE.  Their constants
(`Releasers` and `Capacity`, the backoff and the debounce) are parameters, so that the
proofs hold for all of them.

**Watches and waits.** `GoWatch` has `loop` (where `watchLoop` is), `backoff`, `changes`
and `closed` (the channel), and the stream with the server's `registered` flag, which
becomes true only some time after the client's open has returned.  `failures` and
`unread` are history.  Delays are numbers, not elapsed time: what matters is which
delay is used next.  `GoWaitForRestart` adds `wait`, `timer` in ticks, and `quiet`
(history: ticks since the last signal).  Stopping, draining and resetting the timer is
one step: since Go 1.23 (`go/go.mod:3` asks for 1.26) `Stop` takes back a timer that has
come due and is not received, so that nothing can come between.  The lock is its
contract only, which `GoLock` implements.

`TsWatch` has the watch loop at one of four awaits (`opened`, `unopened`, `recv`,
`sleep`) and the promise it awaits there, `race`, which settles on its own or
through the abort.  `pending`, `closed` and `waiters` are `BundleWatch`'s fields,
`asked` is the promise each caller of `next` got.  `TsWaitForRestart` has the rounds of
`debounceUntilQuiet`, each with a timer of its own and a `next` that the timer may leave
behind.

`PyWatch` keeps the holder's view of the stream apart from the stream: `holder` is
`none`, the `current` stream, or an `old` one that is over.  The loop makes the call
and hands it over in two steps, and `close` runs in three: set the stop event, cancel
what the holder has, join.  `PyWaitForRestart` acquires the lock and closes the watch,
in this order, before it returns.

`RsWatch` does not race its `open()` with the token, as the code does not; elsewhere its
`select!` takes a ready arm at random.  `CsWatch` gives the token to the call.  In `CsWaitForRestart` the
token completes `debounceElapsed` as well as `nextChange`, and whichever
`Task.WhenAny` saw first decides what happens next.

`FleetRestart` abstracts each client to its phase and its heartbeat timer and
gives the server a FIFO queue, a grant flag and a deadline.  Time advances only
when nothing is overdue; a message takes at most `MaxDelay` ticks; heartbeats in a row
may be skipped up to a bound; with faults, connections break on either side silently
and processes die.  The variable `fleet` (who takes part, ttl, bound, faults) is chosen
at the start and never changes.

**The process.** `TsWorkload` is the dial up to its retry (`attempt`, `answers` and `slept`
record what each probe came to and how long it waited) and `keepAlive`, the interval
that is there because everything else the dial waits for is unref'd.  `TsEcho` puts
`main`, `exitCode` and SIGTERM around it.  An event loop that nothing holds ends the
process, `exitCode = "drained"`: only calls in flight and `keepAlive` hold it, for the
timers of the watch, the debounce and the heartbeats are all unref'd.

**Connections and calls.** `WorkloadDial` has `dial` (where the dial is), `source` and
`apiChannel` (what is open) and the two histories of `TsWorkload`.  The clients differ
in when they look at the trust domain (Rust and C# only when they have a source) and
in whether a caller can cancel; Python has no probe and no retry.

`AdminTransport` writes an address as the form it has and the host in it.  Each
client's splitting is an operator on such records, and what a client cannot split, or
cuts in the wrong place, is no host.  Which hosts there are, which of them are literal
addresses and which are this machine are parameters; `HostAssumption` says what the code
takes for granted of them (of the literal addresses, 127.0.0.0/8 and `::1` are this
machine and no others).  The clients do differ: Rust, Python and C# read bare
`::1`, `[::1]`, `::1:8444` and `localhost:https` otherwise than Go, C# takes `127.1` for
loopback and Rust `LOCALHOST`; and Rust decodes the PEM blocks of a CA bundle without
parsing the certificates in them, so that a block of something else gives TLS there and
an error elsewhere.  `PlaintextIsMeant` shows that none of this sends a
token in the clear unasked.

`ProtoFields` describes a field by its number, kind and JSON name, and the two tables
`SecretsProto` and `AdminProto` list every message of the generated files; the generated
functions are the same for every message but for that table, so `ProtoCodec` has one
operator for each (`encode`, `decode`, `toJSON`, `fromJSON`, `create`, and `wrap` and
`unwrap` of `google.protobuf.Struct`).  A wire is a sequence of tagged values.  In `TsCalls`, `conn` is
the client that is held (`token` is history: what `dialAdmin` was given) and `op` the call
in progress, step by step: what was asked, what was made of it, what is on the wire, what
came out.  `Encode`, `Decode`, `ToJSON`, `FromJSON` and `Create` are parameters of
`TsCalls`, and so are the messages, because nothing that it promises of a connection
depends on them; `MCCodec` gives them the operators of `ProtoCodec` and `ProtoMessages`,
and states what a message must survive.

## 3. The runs

| run | asks | bounds | states |
|---|---|---|---|
| `go_lock` | safety of the lock, end of everything it started, refinement with its fairness | 2 callers of `Release`, 2 responses and 2 heartbeats under way | 20 978 |
| `go_wait` | coalescing, schedule, debounce, cancellation, progress | the real 1 s and 30 s, 2 changes, 6 failures counted, debounce of 2 ticks | 8 591 |
| `go_wait_missed` | *violated*: the wait wakes for the next change | backoff 1..2 | |
| `fleet` | heartbeats, exclusion and progress, without faults and with them | 3 replicas, ttl 4, none missed; 2, ttl 12, 2 missed; 2, ttl 4, 4 missed, faults | 92 673 |
| `ts_lock` | the same questions as `go_lock`, on one event loop | as `go_lock` | 1 648 |
| `ts_heartbeats` | *violated*: heartbeats end as documented | the same with 1 heartbeat under way | |
| `ts_echo` | one process from its configuration to its exit | the real 1, 2, 4, 8 s of the dial, 2 changes, debounce of 2 ticks | 28 860 |
| `locks` | refinement with its fairness, and failed acquisitions, in Python, Rust and C# | as `go_lock`, a channel of 2 requests in Rust | 30 015 |
| `waits` | debounce, delivery, end of the watch, in Python, Rust and C# | backoff 1..2, 2 changes, debounce of 2 ticks | 7 128 |
| `py_wait_held` | *violated*: the wait returns once the lock is held | as `waits` | |
| `cs_wait_cancel` | *violated*: a cancelled wait throws what is documented | as `waits` | |
| `calls` | every message there and back, all admin options in five languages, SOPS, the dials | nesting up to 6, decode limit 11, server limit 15; the real 1, 2, 4, 8 s | 28 700 |

Why the bounds are enough: two callers of `Release` are the first who frees and one
more, and all further callers behave like the second (they return at once).  Two
responses under way hold a queue position, or an acknowledgement, in front of the
interesting message.  Six failures are one more than it takes to double from 1 to the
cap of 30.  Two changes are one to start the debounce and one to restart it.  Rust's
channel holds four requests; two are enough to be full with a heartbeat behind
another.  Three replicas are a holder and two in the queue.  A ttl of 12 gives an
interval of 3, so that two missed heartbeats and one tick of delay in each direction
stay below the ttl, `(MaxMissed+1) * ttl/4 + 2*MaxDelay < ttl` (`Timely`); three missed
ones do not for any delay at all, which is the exact margin of the convention
`go/restart.go:188-190` states.  In the fleet with faults four may be missed, so that the
ttl does expire under a client that believes it holds the lock.  `calls` has the limits
11 and 15 for the 100 of `struct.ts` and the 10 000 of Go's protobuf: what counts is
that a document nested beyond the reader's limit can be written and is refused when it is read,
and TLC evaluates the codec recursively.  A level of an object is three messages deep,
and the depths lie within both limits, between them, and beyond both.

The deadlock check is off in every run: a lock that was released, a watch that was
closed, a dial that ended and a process that exited really stop.

Properties that a refinement implies are not run a second time.  That a broken lock
is reported is `ImplementsContractFairness`; that a clean release is not, and that a lock
is returned only after its grant, is `ImplementsContract`.

### Where the code does not do what is written

Four runs record it.

- `go_wait_missed`: `go/restart.go:313` says that `WaitForRestart` "waits for the next
  bundle change".  The server notifies the watchers of the moment and sends no initial
  event, and `watchLoop` does not ask for the state after it reconnects, so a change
  that falls in the gap is never seen; one change published before the stream is
  registered is enough.  The other languages' waits have the same gap.
- `ts_heartbeats`: `typescript/src/restart.ts:511-514` promises heartbeats "until
  release() is called, the signal is aborted, or the lock is lost".  After ACQUIRED
  nothing reads the signal, and a loss that the receive loop reports (443-454) leaves
  the interval running.  The Python client says the same of a loss (142-145) and does
  not do it either: `send` is a put into a queue and never fails.
- `py_wait_held`: `wait_for_restart` closes its watch when it has the lock.  If the watch
  is then between its look at the stop event and `holder.set`, `close` cancels nothing
  and joins a thread that waits for the next event of the server.  The lock is held, its
  heartbeats keep it, and no replica restarts.  `StopIsHeard` (run `waits`) shows that
  this gap is the only one.
- `cs_wait_cancel`: the token also completes the debounce's delay, and if
  `Task.WhenAny` sees that first, the wait goes on to acquire the lock with a cancelled
  token and throws a `LockAcquisitionException` where `csharp/Restart.cs:86` documents
  an `OperationCanceledException`.

Others are plain from the code, and a run would only repeat a line of it:

- Dropping a Rust `Lock` releases it, because a dropped sender makes the release arm
  ready (`rust/src/restart.rs:378`); 177-181 say that it does not.
- `rust/examples/restart_on_change.rs:80-82` says that a cancelled token makes
  `wait_for_restart` return promptly; it does not reach `acquire_lock`, so that a caller
  that queues for the lock waits on.
- Rust's `acquire_lock` sends its request after the call has resolved, which is when the
  server's headers arrive (`rust/src/restart.rs:289`).  A server that sends headers with
  its first response would wait for the request and the client for the headers;
  whether the server does is not in this repository, and nothing is assumed of it.
- `ExitsAreExplained` records that `waitForRestart` can end the process with code 0 and
  without the lock while its watch backs off, since all its timers are unref'd;
  `typescript/examples/echo/index.ts:158` says that it blocks "potentially indefinitely".
- Nothing wakes a thread in `Watch.wait_for_change` when the watch is closed, which
  `restart.py:439-440` promises.
- A cancellation of the C# dial comes out as `SignetConnectionException`, which the echo
  example's handler of `OperationCanceledException` does not see; a malformed trust
  domain is noticed in Rust and C# only after up to 15 s of probing.

## 4. Fairness

*Go.* Goroutines that can run do (weak fairness of `Caller`, `RecvLoop`, `HeartbeatLoop`,
`Release(r)`, `WatchLoop`, `WaitForRestart`).  gRPC aborts the streams of a done
context and delivers the end of a stream; the server ends a stream its client
half-closed or left.  Nothing makes the server grant, the application call
`Release` or receive a signal, a bundle change, or a healthy stream break.
`HeartbeatSend` has no fairness of its own: heartbeats matter to `FleetRestart`,
where time makes them due.  `GoWaitForRestart` assumes strong fairness of
`OpenSucceeds`: a reconnecting watch is not refused for ever.

*Fleet.* Time passes, holders finish their shutdown, the server grants and expires, and
it sees a half-close; a silent break it learns of through the ttl alone.

*TypeScript.* The event loop serves promises and timers (in `TsLock` weak fairness of
`Caller`, `RecvLoop`, `TickThrows`, `ReleaseReturn`; in `TsEcho` of `Main`, `WatchRuns` and
`WaitRuns`, and of `LockRuns` once the signal is aborted or the acquisition has failed).
Nothing is assumed of the Workload API, a fetch, the drain or the server.

*Python.* The threads of the client and the one of grpc-python that consumes the requests
run; `HeartbeatDue` is not fair, for time may stand still.  `PyWaitForRestart` makes the
same assumption of reopened streams as `GoWaitForRestart`.

*Rust.* tokio polls its tasks and the transport takes requests.  The biased `select!` of
the lock's task polls the stream each time it comes round, and it comes round after
every heartbeat: an arm that is ready again and again is taken (strong fairness of
`RecvAny \/ RecvFails`).  The watch's `select!` picks at random, so that a cancelled
token, which stays ready, is taken (weak fairness of `RecvCancelled`).  Nothing makes
`open()` or a grant return.

*C#.* Tasks, token callbacks and the abort of a cancelled call run; nothing makes the
server grant.

## 5. The proofs

`GoLockProofs` proves, for every set of callers of `Release` and all bounds:
`TypeCorrect`, `CleanRelease`, `LostOnce`, `SignalFree`, `Granted`,
`ReleaseIsComplete` and `Implementation` (`Spec => ImplementsContract`, the refinement of
run `go_lock`).  They assume nothing of the constants beyond what `StreamAssumption`
states.  `SignalFree` says that `recvLoop` never blocks on its channel, `LostOnce` that a
loss is reported once, `Granted` that a returned lock was granted.

None of the invariants is inductive alone.  `IInv` adds

- `CallInv`: which goroutines exist at each point of `acquireLock`;
- `StreamInv`: who is on the way to report a loss, or has, has seen the stream over.
  `CleanReleaseNeverLost` rests on it: if the stream is up when `Release` sets
  `released`, no reporter has passed its check yet, and none will;
- `SignalInv`: `gotAcquired` says whether the channel was used;
- `GrantInv`: an ACQUIRED under way or received means the server granted;
- `LostInv`: `lostOnce` counts the reports;
- `ReleaseInv`: only one caller goes past `ReleaseMark`, in order.

`TypeStep` and `StepIInv` have one step per action.  `StepContract` maps each action to
the step of `RestartLock` it implements; a lock is `held` in the contract from the
return of `AcquireLock`, `releasing` from `ReleaseMark`, `released` from the return of
the caller that released it.

`TsLockProofs` proves `TypeCorrect`, `CleanRelease`, `Granted`, `ReleaseIsComplete`,
`TimerEnds` and `Implementation` for `TsLock` along the same lines.  The strengthening is
about promises instead of goroutines: a settled `race` agrees with `acquired`, which is
resolved exactly when `gotAcquired` is set (`CallInv`, `GrantInv`); the stream is closed
only by `release` or by a call that failed, and with the former the timer goes
(`CloseInv`); a report about a lock its caller waits for or holds means that the
stream is over (`LossInv`).

`GoWaitProofs` proves, for every backoff, debounce period and number of changes,
`TypeCorrect`, `Coalescing` (the channel holds a signal exactly when a change was received
that the application has not been told of), `ClosedOnlyWhenDone` (the channel is closed only with the
context), `Reason` (the lock is asked for only after a change that was published) and
`Debounced` (and after a full quiet period).  The strengthening: the channel and the
history agree at every point of the loop (`ChanInv`); a change on its way, in the channel
or known to the wait was published (`ReasonInv`); the timer and the quiet ticks add up to the debounce
period while it runs (`QuietInv`), so that a timer that has fired has seen all of them.

`Backoff` is the fifth invariant of run `go_wait`: `backoff` is `watchBackoffMin` doubled once
for each failure, and never beyond the cap.  It needs no more than the step that doubles
and the bounds of `backoff`.  The provers know nothing of a power with a variable exponent; what is
used of them is the assumption `PowersOfTwo`, that 2^n is a number and the next power its
double, which TLC evaluates.

**The fleet.** `FleetProofs` proves, for every set of replicas, ttl, delay and number of missed
heartbeats, with faults and without, and with `FleetAssumption` alone: `TypeCorrect`,
`Exclusive` (`ExclusiveUnlessBroken`) and `Kept` (`HeldIsNotExpired`).

- *Exclusion* rests on the queue.  Whoever's stream is up at the server is in the queue,
  exactly once (`QueueInv`); ACQUIRED travels only to a client that waits (`StreamInv`); and
  a client that holds the lock, gives it back or has ACQUIRED on its way is the head of
  the queue, granted, unless the server's end of its stream is gone (`GrantInv`).  Two
  clients with both ends up would be the same head.  The steps that move the queue (a
  server's release, a break, an expiry) use a lemma about the sequence without one element.
- *Heartbeats* rest on arithmetic.  `DeadlineInv` bounds the server's deadline from below by
  what the client's timer, the message under way and the heartbeats missed so far have
  left of the ttl: `Since(c)` is the time that may pass between the last heartbeat that
  was sent and the next one due, `Longest` the most that ever may.  `Timely` says that `Longest` and two delays
  are less than the ttl, so the deadline of a holder never reaches zero.

**The TypeScript process.** `EchoProofs` proves, over the whole of `TsEcho`, `TypeCorrect`,
`Coalescing`, `Debounced`, `Retries` and `ExitsExplained`, for every retry schedule, backoff, debounce
period and number of changes.  `TsEcho` has many actions that each move few variables;
lemmas say first which actions move the watch, the wait and the dial, so that each
invariant is shown for the actions that can disturb it.  `ChanInv`: a signal is pending only while nobody waits for
one, and only the end of the loop closes the watch.  `QuietInv`: timer and quiet ticks
make one debounce period.  `DialInv`: the answers before the last were denials, one for each
wait that was slept.  `MainInv`: where `main` is says what the wait and the lock have come to.
`Types` leaves out the bound that `TypeOK` puts on the number of changes received, which the
coalescing invariant does not need.

**Python, Rust and C#.** `LocksProofs` proves `TypeCorrect` and `Implementation` for `MCLocks`,
for any set of callers of release and any capacity of the Rust channel.  Each client has
three invariants of its own: what exists at each point of the call (`PyCallInv`, `RsTaskInv`,
`CsCallInv`), that whoever is about to report a loss has seen the stream over, and that a
release over a healthy stream rules a report out (`...LossInv`), and that one caller
of release does the work (`...ReleaseInv`).  Each client's `...Implements` lemma maps its steps to
those of `RestartLock`; `Runs` and `StepContract` carry this over to the union, where `client`
never changes.

`WaitsProofs` proves for `MCWaits`, with every debounce and backoff, `TypeCorrect`, `Debounced`
(`DebounceIsQuiet`), `Ordered` (no request for the lock before both waits are over) and
`CleanFailure` (a wait that failed leaves neither lock nor request, and in Python a wait that is
over has joined its thread).  Quiet and remaining ticks add up to the period while it runs
(`Counting`; in Python only while the thread is blocked in the queue).  For a period of zero
a Python wait takes the last change and is done in one step, so the property looks at the
state in which it asks for the lock: that a queue with a signal left is no quiet period
holds after the step and not before.

**Connections and calls.** `CallsProofs` proves four theorems of `MCCalls`.

`WorkloadDials` (`DialsAsPromised`), for every schedule that is a sequence of numbers: the waits
are those of the schedule as far as the dial has come (`SleptInv`), there is one answer for
each and, once the probing is over, one more (`AnswersInv`), and what is open agrees with where
the dial is (`OpenInv`).

`PlaintextOnRequest`, `TokenOnEveryCall` and `DocumentsOpen` (`PlaintextIsMeant`, `AdminCallsCarryToken`,
`SopsOpens`) hold for every set of hosts that `HostAssumption` describes, every set of token
texts, of instants and of messages, and every codec.  Their
invariant `CallInv` says that a connection is one that `dialAdmin` made for its token and the
interceptors of the caller, or one with the caller's own credentials (`ConnInv`), and that what is
under way came of it (`OpInv`): a call needs an open connection, which is why `Close` while a
call runs would break it.  The rest is about operators.  `SplitsToLoopback`: whichever of the five ways
an address is taken apart, a part that counts as loopback is the host that was meant.
`HeaderSent`: the last interceptor that sets the header decides it, and the token's is the first.
`WholeSecondsOnce`: rounding an instant to seconds again changes nothing, so the additional data
that sops computes anew is the data the code sealed with.

Liveness, and the fairness of the contract, are checked by TLC only.  So is what the codec
computes (`ArrivesAsSent`, `DeepDocumentsRefused`, `LosesOnlyNulls`): it is recursive, and for
every value that would need an induction over data.

## 6. What is not modelled

- In the locks: expiry times and queue positions (no decision depends on them), the
  conversion of the ttl to an int32, texts of errors, 'lost' listeners that throw, a data
  race inside grpc-go between a late heartbeat and `CloseSend`, a Rust release future
  that is dropped half-way, a C# `ReleaseAsync` whose half-close throws, branches that
  the production stream adapters cannot reach (a Python `send` that raises).  `Release`
  waits for the end of the stream without a timeout: over a partitioned connection it
  waits as long as the transport does, which is the transport's matter.  Python puts
  no CLOSE for an acquisition that failed, so grpc-python's thread ends with the call
  and not before, and its heartbeats after a loss fill a queue that nobody reads.
- In the codec: malformed input, 64-bit numbers beyond 2^53, snake_case keys of JSON, the
  stubs of the other languages.  A map has ordinary keys only: JavaScript's objects
  treat some names, `__proto__` first, as no key of theirs (`struct.ts`, the decoder of
  `fields`).
- In the watches and waits: `TsWatch` allows several callers of `next()`, but the run
  and the theorems have `waitForRestart` alone, the only caller of its own watch.  The
  timer that a round of `debounceUntilQuiet` leaves behind is not kept, since nothing
  awaits its promise.
- Of SOPS: the ciphers, age, YAML and the other four languages; `decodeBundle`'s printing.
- Of the dials: TLS itself, the certificates' rotation, the 15 s for which all probes
  may last together.  C# adds its token to the caller's `Metadata`, and Rust's
  `dial_admin` panics on a token that is not ASCII: neither is more than a line.
- The echo examples of the other languages, the tests, the build.

Model-checked only: liveness (`ImplementsContractFairness`, `HeartbeatLoopStops`, `CancelReturns`,
`FailureLeavesNothing`, `EveryoneRestarts`, `NobodyIsStuck`, `SentLeadsToLock`, `StopIsHeard`,
`ShutdownEnds`), and the codec (`ArrivesAsSent`, `DeepDocumentsRefused`, `LosesOnlyNulls`).

## 7. Plan

Done: the lock, watch and wait of five languages, the fleet, the TypeScript process, the
dials and the admin decision of five languages, the TypeScript codec and calls.  Proved: that
the locks of all five languages implement `RestartLock`; the safety of the Go and TypeScript
watch and wait, of the fleet, of the dials and of the admin connection; the order and the
debounce of the Python, Rust and C# waits.

Left, in order:

1. An abstract watch, the counterpart of `RestartLock`: no change lost, none made up,
   closed only when asked.  One refinement per language would replace the separate
   invariants of the watches, and bring the delivery of the Python, Rust and C# watches
   under a theorem.
2. The SOPS encryption of the other languages.
