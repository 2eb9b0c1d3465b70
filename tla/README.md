# Formal model of term5-distributed-systems

TLA+ specifications of the shared Go library and the laboratory programs of this
repository, checked with TLC on small instances and, where it matters most,
proved with TLAPS for every value of the constants.  Paths below are relative
to the root of the repository.

    tlc -config TcpServer.cfg TcpServer             # model-check a run
    tlapm TcpServerProofs.tla                       # check the proofs

## 1. The system

The repository is a library (`lib/`), three laboratory programs that use it
(`lab-1` to `lab-3`) and a generator of new laboratories (`new-lab.py`).

| Component | State | Operations | Talks to |
|---|---|---|---|
| TCP server, `lib/tcp/server.go` | listener, map of connections under `mu` | New, Start, accept loop, one goroutine per connection, Shutdown | kernel (listen queue), health object, handler |
| TCP health, `lib/tcp/health/health.go` | `closed`, listener, checks, under an RWMutex | Check, SetClosed, Liveness, Readiness, RunChecks | dials the server's own listener |
| Shutdown manager, `lib/shutdown/manager.go` | list of services under `mu` | Register, Run, RunWithTimeout | signals, stop functions, a shared deadline |
| Retry, `lib/retry/retry.go` | none between calls | Get, Do | timer, context |
| Postgres, `lib/pg` | pool (pgxpool) | New, WithTx, health check, and the pool's Close | database, context |
| HTTP server, `lib/http` | chain of middleware, health object | New; RequestID, Logger, Recovery, LimitBody, ... | net/http |
| Auth, `lib/auth` | secret, lifetimes | Sign, Verify, cookies, middleware | JWT library |
| Configuration, `lib/config` | source | Load, Fields | environment |
| Log, JSON, `lib/log`, `lib/json` | options | format | stdout |
| Blur server, `lab-1/cmd/api` | none of its own | main: HTTP or TCP mode, 15 s for shutdown | TCP or HTTP server, manager |
| Generated laboratory, `new-lab.py` | pool, when it has a database | main: connect, HTTP server, 15 s for shutdown | HTTP server, manager, retry, pool |
| Blur handlers and client, `lab-1/internal`, `lab-1/cmd/client` | one request | frames over TCP, multipart over HTTP | each other, over a connection |
| Strategy runner, `lab-2` | channels `lines`, `done` | Process: a worker per strategy, a printer, a collector | input file, output |
| Blur, `lab-1/internal/service` | none | convolution of an image | |
| Strategies, `lab-2/internal/reader/strategy.go` | none | four computations on integers | |
| Pinger, ponger, `lab-3` | offsets in the broker | produce each second; consume as a group | Kafka |

Components interact by calls (main to manager to Server.Shutdown to health), by
shared state under mutexes (connection map, health flag, service list), by
channels (lab 2, the signal), by contexts (one deadline for all the stop
functions) and by bytes on a connection (client and handler).

### What is hard here

* **Shutdown against new connections.**  The accept loop, a goroutine per
  connection and Shutdown share a map; between `Accept` and the insertion in it
  a connection is in a local variable only.
* **Probes against shutdown.**  Liveness dials its own listener while it holds
  a read lock that Shutdown must wait for; Readiness works with a copy.
* **One deadline for several services**, some of which fail, ignore it, or are nil.
* **Channels that are closed**: a send on a closed channel panics, a receive
  without a sender blocks forever, and Process may return in the middle.
* **Middleware around handlers that panic**: what is answered and logged depends
  on the order of the chain, and a status may be set twice.
* **Frames on a byte stream**: short reads, a client that ends at any byte,
  buffers that fill up, resets that destroy what was sent.
* **Retries and transactions** whose context ends, whose answer is lost, or
  whose function panics.
* **The end of a process with a database**: the signal, the server's Shutdown, the
  closing of the pool, the goroutine in ListenAndServe and the requests race,
  and closing the pool takes no notice of the deadline.
* **Offsets committed behind the program's back**: the Kafka library commits what
  the ponger has polled, at any time, and either program may end at any step.
* **Arithmetic** in the width of Go's `int`, and rounding twice.

The list with its lines is `hazards` in `PROJECT.json`; each hazard names the
properties that would catch it, or says why none does yet.

### What makes each component correct

* TCP server: after Shutdown nothing is accepted; what was in the map is waited
  for; Shutdown returns when its deadline passes or the handlers are done; no
  queued client is forgotten.
* TCP health: no success after the close; "unreachable" is never said of a
  server that merely shuts down (Liveness); no deadlock with Shutdown.
* HTTP server: every request is answered, marked and logged as answered, panics
  included, as far as the application's own middleware, which stands outside of
  it all, does not intervene; readiness says what its checks said.
* Shutdown manager: every service once, in reverse order, whatever they return.
* Blur server: a signal ends the process; clients are only turned away, and at
  most one is cut off, by an orderly shutdown.
* Frames: both sides read what the other wrote; nothing incomplete is blurred
  or saved; nobody waits forever.
* Strategy runner: no send after close; a report means that every line was
  printed or its write failed; errors of the input are reported; no goroutine
  blocks.
* Retry, WithTx: the result tells what happened; calls and connections are bounded.
* HTTP process: the pool outlives the requests, requests are cut only when time
  ran out, a signal ends the process unless a transaction never ends.
* Authentication: a user is known, or the cookie cleared on the wire.
* Configuration: what Fields lists is what Load reads; keys tell words apart.
* Blur: a Gaussian blur up to rounding, whatever the bounds and the kernel.
* Ponger: what is committed has been logged, once per process; what is written
  is logged in the end.

## 2. Modules

| Module | Models | Lines of code it follows |
|---|---|---|
| `ConnectionDrain` | abstract: taking, admitting and draining connections | what `lib/tcp/server.go` promises |
| `TcpServer` | the server; `MCTcpServer` adds symmetry for TLC | `lib/tcp/server.go` |
| `TcpServerProofs` | theorems about `TcpServer` | |
| `TcpHealth`, `TcpHealthProofs` | the health object composed with `TcpServer`, and theorems about it | `lib/tcp/health/health.go` |
| `ShutdownManager`, `ShutdownManagerProofs` | the manager and theorems about it | `lib/shutdown/manager.go` |
| `BlurServer`, `BlurServerProofs` | the process in TCP mode: `TcpServer` and `ShutdownManager` joined by main; theorems about it | `lab-1/cmd/api/main.go` |
| `HttpServer`, `HttpServerProofs` | one request through the middleware to the health, blur and other handlers, and theorems about it; `MCHttpServer` gives it values | `lib/http/new.go`, `options.go`, `middleware/`, `health/`, `lib/auth/middleware.go`, `lab-1/internal/delivery/http/blur_handler.go` |
| `BlurFrames` | client and handler of one request | `lab-1/cmd/client/main.go`, `lab-1/internal/delivery/tcp/blur_handler.go` |
| `StrategyProcess` | Process | `lab-2/internal/reader/process.go`, `file_reader.go` |
| `Strategies` | the four computations | `lab-2/internal/reader/strategy.go` |
| `BlurService` | the convolution | `lab-1/internal/service/blur.go` |
| `Config` | Load and Fields | `lib/config/*.go` |
| `Algorithms` | calls of the three modules above, and what must hold of them; `MCAlgorithms` gives it inputs | |
| `ComputationProofs` | theorems about `StrategyProcess` and `Algorithms`, what the programs compute | |
| `Retry` | Get and Do | `lib/retry/retry.go` |
| `PgTx` | WithTx over a shared pool | `lib/pg/tx.go` |
| `HttpProcess`, `HttpProcessProofs` | the process with an HTTP server and perhaps a database: `PgTx` and `ShutdownManager` joined by main; theorems about it and about the pool it uses | `lab-1/cmd/api/main.go`, `new-lab.py` |
| `PingPong` | pinger, broker and ponger | `lab-3/cmd/*/main.go` |
| `MessageProofs` | theorems about `BlurFrames`, `PingPong` and `Retry`, where a program deals with a peer that may fail | |

`map` in `PROJECT.json` gives the lines of every definition.  In each module an
action is the code between two operations on shared state.  Operators marked
*Mutant of ...* are not part of a specification: each is a plausible mistake in
the definition that follows it, and the property it is paired with in
`PROJECT.json` fails when it takes that definition's place.  The specifications in
`PingPong` and `Retry` have names of their own (`RetrySpec`), as `MessageProofs`
extends both and `BlurFrames`.

### TcpServer

`state[c]` follows a connection: *queued* in the kernel, *accepted* (in the
local variable `conn` of the accept loop), *registered* (in `s.conns`),
*handling*, *hungUp* (closed by the deferred function), *gone* (deleted).
`s.mu` guards one insertion, one deletion and one `len`; each critical section
is one action.  `listener` starts open, as New listens, so clients can queue
before Start.  Closing the listener refuses what is queued.  The select of
Shutdown may take the ticker although the context is done.  A context without
deadline is one for which `Expire` never happens.

Left out: a second Start (closes `s.done` twice and panics) or Shutdown, and a
panic in a handler (it ends the process).  No caller does the first two.

### TcpHealth

Adds probes to the server.  RWMutex is modelled by its readers and one writer
that, once it waits, lets no new reader in.  SetClosed is split in the request
and the grant of the lock, Shutdown being the one that waits.  A probe's own
connection is one of the server's.  Assumed: the listen queue is never full, so
that dialling fails only when the listener is closed; checks observe the
context they are given.

### ShutdownManager

A service is its place in `m.services` and the kind of its stop function.  The
signal channel has capacity one; before `signal.Notify` a signal kills the
process.  Register may interleave anywhere, in particular between the signal
and the snapshot.  `due` remembers how many services there were at the signal.
The context given to Run is `Background` in all callers, so only the timeout
can end it.  A timeout that is not positive is one for which `Expire` never
happens.

### BlurServer

The variables are those of both instances; `expired` is shared, because the
manager's context is the one that Shutdown polls.  Every action is an action of
one instance, or two at once where main joins them: the manager's Call is
Shutdown's first step, its FnReturns is Shutdown's return.  `cut` remembers who
was in service when the process ended.  After main has returned nothing moves.

### StrategyProcess

Every goroutine of Process: a worker per strategy, the printer, Process itself.
`lines` is unbuffered, so `Send` is a joint step of a worker and the printer;
`done` is a queue that has room for everybody.  The file is reduced to how many
integers it begins with and whether a bad token follows.  Assumed: the file
does not change meanwhile, and a strategy's function returns.

The printer discards the error of a write (`PrintFails`), and the report does
not tell of it, so that a report does not mean that every line is in the
output: `lost` counts the lines whose write failed, and `SuccessIsComplete` says
that printed and lost ones are all.  Lines of one strategy are received in the
order they are sent, as the channel has no buffer; nothing is claimed of it.
Left out: a broken pipe as standard output, for which Go ends the process.

### HttpServer

`chain` is the stack of handlers that New and main build for a target and the
options; the goroutine of the request walks it down, up, or up in a panic.
`recorded` is the field of `statusWriter`, `response` what net/http sends: the
first status, with the headers set by then.  `readiness` is one call of
Readiness, whose checks run without the lock while `checks` may change. Requests
share nothing but the checks, so there is one.  A handler of an application may
answer never, once or twice, and panic.  Not kept: bodies, timeouts of net/http,
statuses 1xx, and the header names.  `NaN` is a sigma of its own, as both
comparisons of the blur handler let it pass.  Logger asks the request of its
caller for the logger, so that its line has no request id when New builds the
chain; the model does not track it.

The token middleware of `lib/auth` is one of those an application may put in
`Options.middleware` (`Authenticate`, with `user` as what the context of the
request holds).  A cookie is absent, as Sign makes them, expired, or invalid;
`Verify` accepts the second.  The clearing of a cookie is a header, and so on
the wire only if it is set before the first status.

`WithMiddleware` takes any function.  Besides the token middleware and
`LimitBody` the options may hold any number of *custom* ones, which stand
outside of Logger and Recovery (`lib/http/new.go:63`): they may answer before
they call next, without calling it or after it has returned, return, panic,
and recover (`CustomStep`).  `intervened` remembers whether one has done more than
call next and return, and whether that began before it called next: then it may
be that no layer of New has acted, so that nothing is promised of the headers,
and in either case nothing of Logger's line, which may have been written before.
The properties name these cases.  Assumed of custom middleware: it hands its own
`w` and `r` on, calls next at most once, returns in the end, and leaves the
headers and the user of the model alone.  `checks` begins empty for all requests
but one for `/readyz`, the only one that reads it.

### BlurFrames

Bytes are known by the field they were written for; the sizes 8, 4 and 10<<20
become 2, 1 and 2, so that images from empty to one byte too large exist.  The
two programs have constants of their own, as in the code.  `checks` is whether
the client checks the size before it sends: the client of this repository does,
the handler must not rely on it.  A close with unread bytes, or a write to a
closed peer, resets the connection.  A client that has read its result is
*saved* or, if WriteFile fails, *unsaved*.  The handler has no upper bound for
sigma, as the HTTP one has; a kernel that cannot be allocated panics and ends
the whole process, which for this connection is the end *rejected* (see
`ServerBlurs`).

### Retry, PgTx

Retry has the arithmetic of `time.Duration` scaled to `Width` bits and the cap
scaled to `MaxShift`; a timer that is greater than zero has not fired at the
instant the select starts it.  PgTx has several callers, each with one call at
a time; the pool gives a connection back at Commit and Rollback even when they
fail, as pgxpool does, and a COMMIT that fails may have taken effect.  Begin may
always fail (the caller's context, the database), and does when the pool is
closing.  A pool is closed when it has all its connections back.

### HttpProcess

As in `BlurServer`, every action is one of an instance, or of two where main
joins them: the manager's Call of the service *http* sets the server's
`inShutdown`, that of *pg* is the pool's Close.  `Services` is the order of
registration in the code: nothing but the server in lab-1, the pool and then
the server in the generated main.  The pool's function ignores its context and
is *stubborn*, the server's is *obedient*.  `Connect` stands for `pg.New` and the
pings of `retry.Do`, whose loop is in `Retry`.

net/http is external and follows its documentation: after Shutdown no request
begins, Shutdown returns nil when none is in service, or the error of its
context, and ListenAndServe returns `ErrServerClosed`, before or after it has
bound its address.  The moment at which net/http itself has accepted a
connection and not yet registered it is left out.  Requests are handlers of an
application behind Recovery that call WithTx at most once; after its answer
another request takes its place.  A function that panics leaves the
transaction open, and so that place in the pool empty.

### PingPong

The broker is the end and the committed offset of each partition; a record is
its offset.  `Produce` buffers, and its promise is called with or without error;
records are not reordered within a partition.  The library commits
(`AutoCommit`), at any time, what the polls *before* the current one returned
(`head`), which is the default of franz-go: `Poll` moves `head`.  Of the polled
records `todo` is the first of each partition that is not logged; EachRecord
goes through one partition (`current`) after the other, in an order the library
chooses.  A ponger
whose group has committed nothing for a partition begins at its end (`Join`).
Both processes end between any two steps (neither handles signals) and are
restarted by `restart: unless-stopped` of `lab-3/docker-compose.yaml`.  One
ponger runs, as in that file, so that the group never rebalances between two.

### Strategies, BlurService, Config

Modules without variables: operators that follow the code, and reference
definitions that do not.  A behaviour of `Algorithms` is one call with an input
that never changes; its constants say which inputs there are, `MCAlgorithms`
gives TLC small sets of them.

* Strategies keeps the wrapping of sums and squares in an `int` from
  `-MaxInt - 1` to `MaxInt`.  A loop that counts upwards is told by the first
  number at which it stops, the loop of Strategy3 by a recursive function.
  "Next prime" is promised where an int holds that prime and the square that
  ends its trial division (`HasNextPrime`); the legs of a right triangle where
  it holds the square of the hypotenuse and the bound `2*x*x` that ends the
  search (`HoldsSquares`): for the greatest of these hypotenuses that product
  overflows where the square does not.
* BlurService has weights that are integers, divided by their sum at the end,
  where the code has floats that are normalised first, so that rounding is
  exact; one channel stands for four.
* Config knows names as sequences of letters with case, and of texts which are
  numbers.  A struct is the sequence of its leaves in the order in which load
  and collectFields visit them.  An `int32` has `Int32` bits.

## 3. What TLC checks

All runs but `Algorithms`, whose behaviours stutter, set
`CHECK_DEADLOCK FALSE`: each of these programs comes to an end (the
server shut down, the request answered, Process returned) and then has no step.
That nobody waits for good before that is what the liveness properties say, and,
where programs could wait for each other, the invariants `NeverBothWait` and
`SomeoneCanRun`: they name who is blocked on what, and do not depend on fairness.

| Run | Instance | Shows |
|---|---|---|
| `TcpServer` | 3 connections, 1 passing accept error | `AtMostOneLeftBehind`, `ShutdownReturns`, `NobodyStaysBehind`, and that the server implements `ConnectionDrain` |
| `TcpServerStraggler` | 4 interchangeable connections | expected violation, see section 6 |
| `TcpHealth` | 1 client, 1 probe of each kind, 1 check | what probes may answer during a shutdown; probes and Shutdown do not block each other |
| `ShutdownManager` | 3 services of every kind | order, completeness and uniqueness of stopping; a signal ends Run |
| `BlurServer` | 3 connections | the process ends by a signal, cutting off at most one client; it implements the manager's specification with its fairness |
| `StrategyProcess` | 3 strategies, files of 0 to 3 integers, good or bad | the channel protocol, a report only when all lines are dealt with although writes fail, somebody can always go on, no goroutine stays blocked |
| `HttpServer` | every request, all 32 settings of the options with no middleware added, that of lib, or a custom one around the token middleware, 2 checks | the answer, its marks, its line in the log; readiness against the checks |
| `BlurFrames` | sizes 0 to 3, buffers of 2 bytes | agreement of the frames, no partial image or result, the two never block on each other, both ends finish, whether or not the result can be saved |
| `Retry` | 0, 1, 3 and 6 attempts, cap at shift 3, 8 bits | results against the calls made, late calls, backoff |
| `HttpProcess` | 3 requests at a time, 2 connections, with and without a database | results and fates of transactions while the process ends, the order in which pool and server end, who is cut off, that a signal ends the process and requests are answered |
| `Algorithms` | integers from -12 to 255 in an int of 9 bits, two parameters; images of 1 to 4 pixels with 3 values in two places, kernels of radius 2 and 3; 3 types with at most 3 variables set; names of up to 3 words | strategies, blur, Load and camelToSnake against independent definitions |
| `PingPong` | 2 partitions, 3 pings, 2 crashes of each program | no ping lost between two processes of the ponger, none repeated without a crash, each one written gets through |

### Bounds

* Connections: a straggler, a registered one and a queued one are three.  The
  theorems of section 5 hold for any number.
* `MaxAcceptErrors` 1: the loop has no memory of earlier errors.
* `MaxServices` 3: one stopped, one being stopped, one waiting, and
  registrations after the signal.
* `MaxTokens` 3: a line printed, one in the printer's hand and one unread.
* `Capacity` 2 and sizes up to 3: no image fits the buffer with its header, and
  3 is beyond the greatest size that is allowed.
* `Attempts` 6 with the cap at 3: the backoff is used twice past the cap.
  `Delays` are such that the product at the cap fits in `Width` bits, as it does
  in the code for delays up to 8.5 s; for longer ones `delay * (1 << 30)`
  overflows from the thirty-first try on, and `AtMostOneLateCall` would fail, as
  it does for the mutant whose shift has no cap.
* `Names` 2: a check that fails and one that passes after it.  An application's
  handler sets its status at most twice.  One custom middleware, outermost: it
  keeps everything else from being called, or sees all of it return.
* `MaxConns` 2 with 3 requests: somebody waits, and one panic is survivable.
* `MaxPings` 3 on 2 partitions: one ping before the first commit, one polled and
  one behind it, and a poll that returns records of both partitions.  `MaxCrashes` 2: a crash of a
  process that has itself taken over.
* `MaxInt` 255: the last Fibonacci number (233) and the first square past the trial
  division (256) are in range, and beyond them the sums wrap, of which nothing
  is promised.  Hypotenuses are compared up to 15, the square root of 255.
* Images of four pixels are smaller than every kernel (at least five wide, as
  `gaussianKernel` has a radius of at least 2), so that the clamping is used on
  both sides.

### Fairness

* Weak fairness of every goroutine's next step: Go's scheduler is preemptive.
* Strong fairness of the `ctx.Done()` case of Shutdown's select: the select
  chooses uniformly among the ready cases, again at every tick.
* Strong fairness of acquiring a connection: pgxpool serves waiters in order.
* Weak fairness of a restart and of the ponger's loop; strong fairness of a poll
  that returns records: not every poll fails forever.
* A deadline passes (only where one exists; the properties name that premise).
* Never: that a client dials or sends, that a handler returns, that a stop
  function finishes its work, that a signal comes.  A property that needs one
  of these says so as a premise (`HandlersReturn`, `HandlersEnd`, `WorkFinishes`).

## 4. Abstraction and refinement

`TcpServer` implements `ConnectionDrain` under the mapping `DrainPhase`: the
connections in the map are the admitted ones, the accept loop's local variable
is the pending one.  The abstract specification is deliberately as weak as the
code: a pending connection may be admitted after a clean end.

`BlurServer` implements `ShutdownManager` with one obedient service, fairness
included: `ManagerSpec` discharges, for `Server.Shutdown`, what the manager's
liveness assumes of an obedient function.  That is checked by TLC; that every
step of the process is one of the manager and of the server, or none, is a
theorem for any set of connections (`ImplementsManager`, `ImplementsServer`).

`HttpProcess` drives a pool (`PgTx`) and a `ShutdownManager`, and `TcpHealth` a
`TcpServer`, by the steps of those modules alone (`ImplementsPool`,
`ImplementsManager`, `ImplementsServer`).  What is proved of the part therefore
holds in the whole, and the proofs about the whole use it.

## 5. What is proved

Proofs are checked by tlapm with SMT, Zenon and LS4.

* **TcpServerProofs**, for any set of connections.  `AtMostOneLeftBehind` is not
  inductive.  The invariant adds that the map holds exactly the connections
  from *registered* to *hungUp* (`MapIsExact`), that the accept loop holds at
  most one (`OneHeld`), that Shutdown polls only a closed listener
  (`ClosedBeforePolling`) and that a closed listener has an empty queue
  (`ClosedQueueIsEmpty`).  From it follow `TypeCorrect`,
  `LeavesAtMostOneBehind`, `NothingAcceptedAfterReturn` and `ImplementsDrain`,
  whose step lemma shows for each action which abstract step it is.
* **ShutdownManagerProofs**, for any kinds and any bound on the services.  The
  invariant says that exactly the places above `i` have an outcome and that the
  snapshot covers the services that were due; it gives
  `AllStoppedInReverse` and `EachStoppedOnce`.
* **ComputationProofs**, about `StrategyProcess`, for any finite set of strategies and any bound on
  the file.  The invariant ties the counts of reader, worker, printer and
  output together (`ReadIsSent`, `SentIsPrinted`), says what an
  ended worker has done (`EndedIsComplete`), that results in `done` are one per
  worker and not yet received (`ResultsAreFresh`, `ReceivedIsCounted`), so that
  as many results as strategies means all of them (`LoopIsComplete`, by the
  cardinality of finite sets), and in which order things end (`EndInOrder`).
  It gives `NeverSendsAfterClose` and `ReportIsComplete`.
  `NeverDeadlocks` adds that no result is lost while Process receives
  (`ResultsArrive`) and that `done` has room for whoever has not ended, by an
  injection of its places into the other workers (`DoneHasRoom`).
* **ComputationProofs**, about `Algorithms`, for every width of an int and any
  inputs that satisfy the assumptions.  The induction these proofs need is
  the principle that a set of numbers has a least one (`LeastNumber`), which
  follows from the well-founded order of finite sets; with it a recursive
  function is shown to exist and to satisfy its equation (`RecursionDefines`).
  * `StrategiesAlwaysKeepPromises`.  A number that nothing up to its root
    divides is prime, and the scan stops at the first prime, overflow of the
    squares included.  A pair of consecutive Fibonacci numbers keeps
    `g*g - g*l - l*l = 1` or `-1`; the loop keeps that invariant, and no
    number whose `5k^2 + 4` or `5k^2 - 4` is a square lies between the two.  The
    smaller leg comes before the bound that ends the search.
  * `LoadReadsWhatFieldsTell`.  Both walk the same exported fields; a field is
    set exactly if no field up to it fails, and its variable alone decides.
  * `KeysAlwaysTellTheWords`.  Every place of a concatenation belongs to one of
    its parts, and so the underscores come exactly where separable words meet.
  * `BlurAlwaysConvolves`.  Totals over finite sets are linear, monotone, and
    over a square the total of the rows' totals; a clamped coordinate is that
    of the nearest pixel; either pass rounds by at most one half, and a weighted
    mean lies between the least and the greatest of its values.
* **TcpHealthProofs**, for any clients, probes and checks.  Beside the steps of
  the server a probe only reads, so the server's invariant holds
  (`ImplementsServer`).  To it come: a probe holds the read lock exactly from its
  look at `closed` to its answer, and no writer beside it (`ReadersHoldTheLock`); a
  dial of Liveness found `closed` unset and therefore finds the listener open
  unless it fell itself (`DialledWhileOpen`); and a probe that began after
  SetClosed has seen it (`LateProbesKnow`).  They give `LateProbesFail` and
  `LivenessFindsTheListener`.
* **BlurServerProofs**, for any set of connections.  `ImplementsServer` and
  `ImplementsManager` bring in the invariants of both parts.  What joins them:
  main registers before it waits (`RegisteredFirst`), the server is stopped once
  the manager is past it (`ServerIsStopped`), the outcome the manager stores is
  what Shutdown returned (`OutcomeIsShutdowns`), an error means that the time
  was up (`DeadlineHasPassed`), and the process cuts off at most the straggler
  that the server leaves behind (`CutIsTheStraggler`).  Hence
  `ExitCutsAtMostOne`.
* **HttpServerProofs**, for any list of `LimitBody`, token and custom middleware
  (`MiddlewareAssumption`) and any set of checks.  About the chain:
  its last layer is the handler (`HandlerIsLast`), the layers New adds are in
  it (`LayersAreThere`), Logger outside of everything that writes
  (`LoggerIsOutside`).  About the request: what it has passed has acted
  (`PassedLayersActed`), headers set before the first status are on the wire
  (`WireHasTheHeader`), no layer writes what the code does not
  (`NothingIsMadeUp`), Logger's record is the wire's status
  (`RecordTellsTheWire`, `LineIsWritten`), and Readiness has counted the checks
  it ran (`ReadinessCounts`, `ReadinessAnswers`).  A custom middleware passes no
  layer (`PassedByCustom`) and is noted when it does anything else
  (`Intervention`); the parts about the wire, the record and the answer hold as
  far as `intervened` allows.  They give
  `LoggerTellsTheWire`, `EveryAnswerIsMarked`, `SessionsSound` and
  `ReadinessIsHonest`.
* **MessageProofs**, about `BlurFrames`, for any `Sizes` and any `Capacity`.  The
  bytes in a stream are exactly the part of the frame that one side has written
  and the other has not read (`RequestInOrder`, `ReplyInOrder`), as long as the
  reader has not given up; fields never exceed their sizes (`FieldsFit`), what
  was read is counted (`ReadsCount`), and a reply answers all of the image
  (`ReplyIsToAll`).  `ProgramsAgree` and `OnlyWhole` follow, and `NoMutualWait`: a
  side that waits to read and a side that waits to write would disagree on how
  much of the frame is in the stream.
* **MessageProofs**, about `PingPong`, for any partitions, pings and crashes.
  `PingsAreLogged` is not inductive.  The invariant adds the order of the
  offsets (what may be committed has been logged, `PongerInOrder`), that
  everything below what the ponger has come to is in the log (`LoggedUpTo`), that
  it goes on at most one behind its last line unless nobody has committed
  (`NoNewSkips`), and an account of the jumps in the log: each is paid by a
  crash, and a ponger that does not go on where the log stands still has one
  crash to its credit (`JumpsAreCrashes`, with the cardinality of finite sets,
  `JumpsOfAppend`).  It gives `NoPingLost` and, with the bounds, `PingPongTypeCorrect`.
* **HttpProcessProofs**, about `PgTx`, for any callers and any size of the pool.
  The invariant says that a connection is held exactly while its transaction is
  open (`HoldersAreOpen`) and what is known of the transaction and the error at
  each place of a call (`FateAtPlace`); it gives `WithTxTellsTheFate` and
  `NothingOpenAfterClose`.
* **HttpProcessProofs**, about the process, for any number of requests and any
  size of the pool.
  `PoolOutlivesRequests` and `ExitIsOrderly` need the order of the end: main has
  registered everything before RunWithTimeout waits (`RegisteredFirst`), nothing
  is stopped before the signal (`NotBegun`), the server has been stopped, or
  timed out, as soon as the loop is past it (`ServerFirst`), the pool is closed
  only by the function below it (`PoolLast`), and requests are cut only by the
  end of the process (`CutAtTheEnd`).  `PoolStep` shows that the process drives
  its pool by the steps of `PgTx` alone, so that what is proved of the pool holds
  in the process: `ResultTellsTheFate`, and that no transaction is open when
  main returns.
* **MessageProofs**, about `Retry`, for any number of attempts, also negative
  ones, and any set of delays.  The index counts the calls (`TriesCountCalls`),
  which gives `ResultTellsCalls`.  `OneLateCall` adds that no call is late as long
  as another may follow (`NotLateYet`), and has a hypothesis: the product of the
  delay and the greatest power does not overflow, in the code for delays up
  to 8.5 s (see the bounds above); the generated main's is 500 ms, and the
  run's instance satisfies it.  For longer delays the conclusion is false.  That
  smaller powers do not overflow either (`BackoffIsPositive`) comes from the
  number of subsets of a set (`PowersGrow`).

Assumptions: the named `ASSUME`s of the modules, which TLC evaluates in the
runs, and the hypothesis of `OneLateCall`.  Nothing else is assumed.  Every inductive invariant
has been checked by TLC on the instance of the run as well.

Only model-checked is liveness (`ShutdownReturns`, `NobodyStaysBehind`,
`NobodyStaysBlocked`, `SignalEndsRun`, `SignalEndsProcess`, `BothEnd`,
`EveryRequestIsAnswered`, `RequestsAreAnswered`, `PingsGetThrough`) and the
fairness part of `ManagerSpec`: fairness and ENABLED are out of the prover's
reach.  Every invariant and every action property of the runs is a theorem.

The type invariants, `NoAcceptAfterReturn`, the promises of `PgTx` and the
refinements by steps are theorems and in no run.

## 6. Findings

* `TcpServerStraggler`: Shutdown can return nil while a connection is served,
  the one between `Accept` (`lib/tcp/server.go:72`) and the insertion in the map
  (line 82), contrary to the name of `TestShutdownWaitsForConnections`
  (`lib/tcp/server_test.go:102`).  `AtMostOneLeftBehind` bounds the damage.

Noted while modelling, without a run of their own: for an input at or above the
greatest Fibonacci number of an `int` the loop of Strategy3
(`lab-2/internal/reader/strategy.go:32`) goes on with wrapped sums and returns a
number that is no Fibonacci number; near the greatest `int` the square of
isPrime's loop (line 48) overflows in the same way, and so does the bound of the
search for legs (line 58).  `StrategiesKeepPromises` holds for all smaller inputs.  `pool.Close` outlasts the deadline of
RunWithTimeout when a transaction does not end: `SignalEndsProcess` names that
case.  The pinger logs "Ping sent" for a ping that failed,
and Process of lab 2 returns a report although lines could not be written
(`lab-2/internal/reader/process.go:71`).

## 7. Plan

In the order of the modules' importance; all of it is done.

1. `TcpServer`, `ConnectionDrain`, proofs.
2. `ShutdownManager`, proofs.
3. `TcpHealth` on top of `TcpServer`.
4. `BlurServer`, the composition.
5. `StrategyProcess`, proofs; `Strategies`.
6. `BlurFrames`.
7. `Retry`, `PgTx`.
8. `HttpServer`.
9. `HttpProcess`: the HTTP mode, and the generated main with a database;
   proofs of it and of `PgTx`.
10. `PingPong`.
11. `Config`, `BlurService`, the token middleware in `HttpServer`.
12. Proofs: `TcpHealth`, `BlurServer` with both its parts, `BlurFrames`,
    `HttpServer`, `Retry` and `PingPong`.
13. Proofs: `Algorithms` with the three modules it calls; that lab 1's client and
    handler, and the goroutines of lab 2, never all wait for each other.

Not modelled: floating point (the values of the Gaussian kernel), image codecs,
the format of log lines and of JSON, the cryptography of the JWT library, the
flags and printing of `lab-2/cmd/main.go`, the flags of the client and its HTTP
mode (one request over net/http), the timeouts of net/http, `Chain`, which only
tests call, and the text that `new-lab.py` writes other than the main functions.
These have no state of their own that outlives a call, or no behaviour the
repository's code decides.
