# TLA+ verification of GoHTTPX

GoHTTPX lets a Python program send HTTP requests through a Go process. `src/python/gohttpx.py`
is an HTTPX transport; in *managed* mode it starts and supervises its own Go child
(`_gohttpx_runtime.py`, `_gohttpx_windows.py`); the Go side (`api.go`, `managed.go`, `main.go`)
keeps one session per client and runs the requests. What is hard in it is not the HTTP: it is
that a child process may die, hang or be replaced while threads are using it, and that a request
must neither run twice nor be reported wrongly.

## 1. Inventory

| Component | State | Operations | What is hard |
|---|---|---|---|
| `ManagedRuntime` (`_gohttpx_runtime.py`) | status, published instance, stop/fatal flags, demand, users, retry time, complaint; the supervisor's locals | acquire, release, ensure, report_fault, shutdown; the `_supervise` loop with `_launch`, `_probe`, `_dispose`, `_record_failure` | one thread against many callers; calls made outside the lock; children that die at any point; calls of the OS that fail |
| `JobProcess` (`_gohttpx_windows.py`) | job handle, process handle, exit code | create, poll, wait, kill, close | a close that times out or raises |
| Managed transport, synchronous (`_ManagedState`, `_ManagedGoTransport`) | entries by instance, users per entry, active requests, closing/closed | checkout, release, prune, handle_request (two attempts), close | the instance changes under a request; entries shared while being made; close against everything |
| Managed transport, asynchronous | the same, plus the retiring tasks and the one cleanup task | the same as coroutines | cancellation between any two awaits |
| External transports (`_GoTransport`, `_AsyncGoTransport`) | session id, generation, rebuild state | create, call, rebuild, close | concurrent rebuilds, shared errors, cancelled waiters |
| Global runtime (`configure_runtime`, `start`, `shutdown`) | the module's `_runtime` | replace, start, stop | a reader without the lock |
| Session registry (`api.go`) | the map of sessions, lastUsed and activeCalls of each | create, delete, request, idle cleanup, Close | three parties that close sessions; ticks that are late or dropped |
| Go request execution (`api.go`) | none of its own | validate, build, run, answer | large, but sequential |
| Managed Go process (`managed.go`) | bootstrap, listener, stop channel | handshake, serve, stop | two processes, a pipe and timeouts on both sides |
| External Go process (`main.go`) | flags | serve, stop | - |
| TLS specification (`tls_spec.go`), wire codec, options (`gohttpx.py`) | none | parse, validate, encode | many cases, no state |
| `tools/release.py`, test helpers | none | build | - |

How they interact. A transport `acquire`s the runtime when it is constructed and `release`s it
once when it is closed. For each attempt of a request it calls `ensure()`, which blocks until the
supervisor has published an instance; it then finds or makes its entry for that instance (a
`_GoTransport` with a session in that Go process), sends the request, and on a failure calls
`report_fault()`, which makes the supervisor probe at once. The supervisor publishes and
withdraws instances; it never calls a transport. In the Go process every request passes the
session registry first. The supervisor, the managed transports and the synchronous external transport each
guard their state by one `Condition`, which is not held across I/O. `_AsyncGoTransport` has an asyncio lock beside its
condition, `_session_lock`, and its `_rebuild` holds that one while it creates a session (see section 3). The Go
registry has one `RWMutex` and a mutex per session inside it.

What makes each part correct:

- runtime: one live child at a time; an instance in use is gone before the next; RUNNING and CLOSED mean
  what they say; nothing is revived after shutdown; an instance is given up only with cause; demand
  is served, a stop ends;
- transport: the target acts at most once per request, the error tells the truth about it, every
  session is closed once and not while in use, close waits for everything, nobody blocks for ever;
- registry: every session is closed once, idle cleanup spares sessions in use and those not yet
  expired, abandoned sessions go;
- external transports: a lost session is replaced once for all who found it lost, no session is forgotten, a
  failed creation does not answer requests that came after it, everybody comes to an end;
- handshake: what is published is the own child, whoever listens on its port; a configuration error, which is
  final, never comes of a child that took its bootstrap; the end of either process at any point leaves neither a child nor a thread behind;
- backoff: exact window, bounded rate.

## 2. Modules

| Module | Models | Composes / extends |
|---|---|---|
| `RuntimeService` | what callers may rely on: one instance at a time, ever growing numbers, an end | - |
| `TransportService` | what httpx may rely on of any transport: a request that got in is answered once and truthfully, the target is asked at most once for it and not after its answer, a close lets nobody in and ends with nobody inside | - |
| `ManagedRuntime` | `ManagedRuntime` and the results of `JobProcess` | `INSTANCE RuntimeService` (refinement) |
| `ManagedRuntimeProofs` | theorems about it | `ManagedRuntime`, `TLAPS` |
| `ManagedHandshake` | one child from spawn to exit: `_launch`, `_probe`, `_dispose`, `_read_stdout` at one end of the pipes, `readBootstrap` and `runManaged` at the other | - |
| `RestartBackoff` | `_record_failure`: window, delay, cooldown | - |
| `ManagedTransport` | `_ManagedState`, `_ManagedGoTransport` | `INSTANCE RuntimeService` (composition), `INSTANCE TransportService` (refinement) |
| `AsyncManagedTransport` | `_ManagedAsyncGoTransport` | extends `ManagedTransport` |
| `ManagedTransports` | both managed classes side by side, for the liveness they share | extends `AsyncManagedTransport` |
| `GoTransport` | `_GoTransport` | `INSTANCE TransportService` (refinement) |
| `AsyncGoTransport` | `_AsyncGoTransport`, and both classes side by side | extends `GoTransport` |
| `SessionRegistry` | the registry of `api.go` | - |
| `RestartBackoffProofs`, `ManagedHandshakeProofs`, `SessionRegistryProofs`, `AsyncGoTransportProofs`, `ManagedTransportProofs`, `AsyncManagedTransportProofs` | theorems about the module named; `AsyncGoTransportProofs` covers `GoTransport`, whose steps `EitherSpec` contains | that module, `FiniteSetTheorems`, `TLAPS` |
| `MCManagedTransport`, `MCAsyncManagedTransport` | symmetry sets for TLC | the module named |

The transports are composed with `RuntimeService` and not with the supervisor, and the supervisor is
shown to implement `RuntimeService`; so what holds of the transports over the service holds over the
supervisor, and neither state space contains the other. In the same way the managed transports see a call of
the inner transport as one step with the results `GoTransport` allows (`OutcomeIsHonest` with an instance id
is what they rely on), and the supervisor sees a launch as one step with the verdicts `ManagedHandshake` allows.

`TransportService` is the other end: the four transport classes look alike to httpx, so one abstract transport stands for all,
and each is shown to implement it (`KeepsContract`). It knows where a request is (`place`), how often the target was asked for it,
its answer, and how far a close is; `exact` tells a transport that serves one instance from an external one, which
calls a lost answer "unavailable". The mapping is plain: `asked` is `executed`, `answer` is `outcome`, `place` and
`phase` are read off `req`, `closing` and `done` (`closed`).

Each component has a `TypeOK` (`AsyncTypeOK`) that documents its variables; the run of `ManagedRuntime` checks
it, because the proofs start from it.

### ManagedRuntime

A step is one critical section of `self._condition`, or one call the supervisor makes outside it.
`pc` says where the thread is, `cur`, `code` and `errors` are its locals, the other variables are
the attributes of the object without their underscore. Children are named by launch number;
`child[p]` is what the operating system knows of child `p`, and `killed` means that its job was
closed while its exit was not confirmed. `phase` and `held` are the clients, `closer` the thread in
`shutdown()`, `bad` a history variable. Exceptions follow the code: `RuntimeConfigurationError` and
everything else are told apart by `reason`; an error of `close()` inside `except BaseException`
replaces the one that is being raised; an error elsewhere in the loop goes to `Broken`; one inside
`finally` ends the thread. `faulty`, chosen at the start of a behaviour and fixed, says whether `poll()` may fail and
`close()` may time out, so that one specification has both the obedient operating system and the other one.
Times are abstract: a wait may end, a due probe may be due.

### RestartBackoff

Time in units of `FirstDelay` (0.25 s). `Uptimes` is what may pass between the earliest retry and the
next failure; it includes the jitter of up to 49 ms, which can only lengthen a delay.

### ManagedTransport

`mapped` is `_entries`; entry objects are numbered in the order of their creation, because the code
compares them by identity. `req[r]` is a thread inside `handle_request` with its locals. `session[e]`
is the Go service's side: the session may be reaped at any time, deleted by a close of a current
instance, or lost when that deletion fails. `executed[r]` counts how often the Go service asked the
target. The inner `_GoTransport.handle_request` is one step with the results its code can produce: a
response, `GoServiceUnavailable` (before the target), `GoRequestOutcomeUnknown` (after it, perhaps),
`CLIENT_NOT_FOUND` (session gone, target not asked), any other error. `report_fault()` is not a
step, since nothing the service shows depends on it.

### ManagedHandshake

Two processes, two pipes and a port. `py` is the supervisor thread with this child, `go` the goroutine of
`runManaged`; `boot`, `served` and `stopper` are its other goroutines together with their channels; `inbox`,
`out` and `queue` are the child's stdin, its stdout and the queue `_read_stdout` fills. A line is one
step, because each is one write that fits a pipe, and the exit of a child is seen by `poll()` on another
way than its last line, so their order is free. What may happen at any point: Python dies (its handles are
closed, which ends the pipes and, through the kernel, the Job; nothing is assumed of the kernel here, so
that the end of the pipe has to do it), the child crashes or freezes, `Accept` fails, Ctrl-C reaches the child,
the port is taken over by another GoHTTPX service with or without a token. `port` is who listens, `answer` who
answered the probe. `late` is a history variable: the child owes its handlers no more time.

### AsyncManagedTransport

Coroutines of one loop, so a step goes from one suspension to the next: `_checkout` never waits here (the
factory only builds an object), and an entry is never seen half made. Every `await` that suspends may raise
`CancelledError` (`Cancel`, `CancelCall`). `task[e]` is the task that closes entry `e`, which its owner awaits
behind a shield; `cleanup` is the shared task of `aclose()`, also behind a shield; `lost` remembers what a
cancelled prune took with it. The runtime moves in its own thread, between any two steps.

### GoTransport, AsyncGoTransport

`sessions[s]` is what the service knows of the sessions this transport asked for. "stray" is a session the
transport cannot know of (its creation was answered by nothing, or its deletion failed); the idle cleanup of the
service ends those. `generation` and `failure` are `_generation` and `_failed_generation` with `_rebuild_error`;
`rebuilding` is the flag of the synchronous class and the lock of the asynchronous one; `attempt` and `waiters`
are the shared first creation. `managed` says whether there is an instance id, `async` which class it is. A step is one
critical section or one exchange. The loop of asyncio runs what is ready before it looks at the network
(`LoopIsIdle`): who awaited the first creation goes on before another exchange ends. `aclose()` itself is
never cancelled: `AsyncClient` and `_ManagedAsyncGoTransport` run it in a task of its own.

### SessionRegistry

A step is one critical section of `server.mu` or what happens between two of them. Ages replace
timestamps so that the clock never has to stop. The ticker has a channel of one place; the tick the
cleanup works with may be `MaxLag` old, which is the `now` of `cleanupIdleClients`. A request is a
begin and an end: its body changes no registry state.

## 3. Runs

| Run | Question | Bounds |
|---|---|---|
| `runtime` | do the status, the single child, the succession of instances in use, the end and the promised service survive a misbehaving OS? Does a stop end and shutdown leave nothing, if it behaves? Is demand served, does a dead instance go? | 2 clients, 2 launches, 2 failed probes |
| `handshake` | is what is published the own child, is a configuration error never made of a child that took its bootstrap, do launches and stops end, does the end of the pipe end the child, do handlers get their time? | 1 child, 1 session; otherwise none |
| `backoff` | is the window exact, the rate bounded? | limit 3, window 24, cooldown 12, horizon 75 |
| `registry` | do delete, cleanup and Close share sessions correctly; is an abandoned session reaped, although ticks are dropped? | 2 sessions, 2 handlers, TTL 2, lag 2 |
| `transport` | at most once, honest errors, one owner per session, no unfinished entry retired, a complete close, the contract of `TransportService`? | 2 requests, 2 closes, 3 calls of these, 2 instances |
| `transport_ends` | in both managed classes: does every request end, the one that waits for another one's entry too, and every close? Does the shared cleanup survive those who asked for it? | 2 requests, 2 closes, 3 calls of these, 1 instance |
| `async_transport` | honest results under cancellation, nothing lost but by a cancelled prune, a cleanup that is complete, the contract of `TransportService`? | 2 requests, 2 closes, 3 instances |
| `go_transports` | both classes, external and managed: one rebuild per generation, at most one execution and honest results, no session forgotten, no stale error, an end for everybody, the contract of `TransportService`? | 3 requests, 2 closes |

`OutcomeIsHonest` (and, but for `transport`, the "at most once") is not listed in a cfg of its own: it is what `KeepsContract` says of
`asked` and `answer`, and the theorems state it by itself.

Four more runs show a behaviour that a document or a comment of the repository rules out; they are the
`findings` of `PROJECT.json`, each with the quoted line:

| Run | What the code does |
|---|---|
| `runtime_unconfirmed` | a `close()` that times out in an aborted launch counts as an ordinary start failure, so that the next launch runs beside a child not confirmed gone |
| `runtime_stuck_stopping` | an error while the last child is disposed of leaves STOPPING for ever, and `shutdown()` returns |
| `async_prune` | a request cancelled while it closes the first of several retired entries takes the others with it: they are never closed |
| `handshake_rejected` | a child that refuses the bootstrap and exits between a lapsed `get()` and the `poll()` after it is reported as an ordinary exit, and launched again |

Behaviours the models have that are worth knowing, and that no run is spent on:

- STOPPING is overwritten by other states of the supervisor before CLOSED, and a child may be created after
  `shutdown()` has set stop (it is cancelled at once).
- With the default numbers, a failure after a second cooldown may find the older ones out of the window; short
  delays follow.
- A request that was handed an older instance retires the idle entry another thread has made for the newer
  one, whose session is then made again (`Prune` with a stale `instance`).
- A session whose call lasted longer than the TTL is reaped by the first tick after the call, because `lastUsed` is
  set only when a call begins.
- `_AsyncGoTransport._rebuild` has no shield, unlike the first creation: a rebuild that is cancelled may leave a
  session in the service that only the idle cleanup ends (a "stray"). It also holds `_session_lock` while the session is
  created, so that every other coroutine of the transport waits for that exchange, new requests included;
  `PROJECT_CONTEXT.md:290` wants all network I/O outside the locks "to avoid deadlock". No deadlock comes of it:
  the exchange has a timeout and takes no other lock (`ComesToRest`).
- A failed rebuild answers all later requests of an external transport as well: the code remembers the error for the
  generation, which nobody replaces any more (`PROJECT_CONTEXT.md:281` has one rebuild per generation). A failed first
  creation, in contrast, is shared only by those who awaited it (`NoStaleFailure`).
- An external transport reports a lost answer as `GoServiceUnavailable`, although the target may have been
  asked; only managed ones say `GoRequestOutcomeUnknown` (`OutcomeIsHonest` tells the two apart).

Why the bounds are enough. The supervisor is symmetric in time: a launch after the second meets the
same state as the second but for `starts = 0`, which only tells STARTING from RESTARTING, so two
launches give an old and a new instance. Two clients are enough for a stale complaint beside a fresh demand. A
transport entry is shared by a creator and a joiner, and retired by a third party only through a second instance:
two requests and two instances have all of it; the number of entries is not a bound (no behaviour can need
more). Safety is symmetric in requests and in closes, so `transport` and `async_transport` use symmetry sets; `transport_ends`
does not. A request can hang in one place only, at an entry another one is making, which takes two requests and an
instance whose entry is lost and made again; a close waits for the number of active requests and for another close, which takes
two closes and a request. `MaxCalls = 3` has both combinations in `transport` and `transport_ends`, and leaves out two requests
beside two closes (which `async_transport` has): a second close then waits for the first one, as it does beside one request.
A second instance in `transport_ends` would add a retirement, which never waits for an entry still being made
(`RetiredIsReady`, with two instances, and its theorem). For the asynchronous transport three instances are needed: a prune of
two retired entries, of which the second can be lost, happens only under the third. Two `aclose()` calls give one that
started the cleanup and may be cancelled, and one that goes on waiting for it. In `go_transports` three requests give one that rebuilds, one that waits for it and one
that comes after; two closes give one that waits for the other. A behaviour of `handshake` is the life of one child, and
the next child shares nothing with it but the port, which may be taken over by any service. Two sessions and two handlers
give every pair of closers. `MaxLag = 2` lets the cleanup be late by a whole period of the ticker (the period is `IdleTTL`), so that a tick
finds the one place of the channel taken and is dropped, and the tick that is there is a period old. `IdleTTL = 2`
lets a call, a tick and an expiry fall into different units. In the backoff run, window, cooldown and
limit are chosen so that a burst can and can not leave the window during a cooldown.

`CHECK_DEADLOCK FALSE` stands where behaviours end: at the horizon of the backoff run, when the child is gone, and in the
transport runs when all requests and closes are over.

Every property of a passing run has a mutant: a variant of one action or helper with a plausible
mistake, under which TLC finds that property violated. The variants stand before the definitions they
replace and are used nowhere else.

## 4. Fairness

- `ManagedRuntime!FairSpec`: weak fairness of the supervisor thread (every call it makes has a timeout:
  handshake, probe, `wait`), of the passing of the retry time, and of the return from a join. Not of
  clients, of the application, or of children: nobody has to call, and a child need not die.
- `ManagedHandshake!FairSpec`: the threads of Python and the goroutines of the child, with their clocks. A frozen child
  does nothing (its actions need `~hung`). The deadline of the launch is strongly fair, because a turn of the
  waiting loop may or may not find it passed, but not for ever; a closed Job ends its members when Python lives to
  wait for it, and nothing is assumed of it when Python is dead. Nobody has to stop, crash, freeze or send.
- `SessionRegistry!FairSpec`: the clock, the cleanup goroutine, a Close that was begun, and handlers in
  their short sections. No call has to end, and nobody has to call Close.
- `ManagedTransports!EitherFairSpec`: each thread inside `handle_request` or `close()`, where `ensure()`, the factory, the
  call and the deletion all have timeouts; or, of the asynchronous class, the coroutines and tasks the loop can go on with.
  Nobody has to be cancelled, and the runtime owes the transport nothing.
- `AsyncGoTransport!EitherFairSpec`: each thread, or the loop, inside a request, a close or the first creation. The service may
  fail every exchange, but each one ends.

A supervisor that dies of a fault of the OS owes nothing more: `StopLeadsToClosed` and `DeadInstanceIsWithdrawn` except
`DiedOfFault`, and `ShutdownCompletes` is about a behaviour without faults. `runtime_stuck_stopping` shows what is excepted.
`DemandIsServed` needs no exception, because a dead supervisor leaves FAILED or stop behind.

## 5. Theorems

Every invariant the runs check, the three action properties, and every refinement, is a theorem for every value of the constants; only the
liveness properties and the four properties the code violates are not. Each proof module has an inductive invariant
`IInv` (`InitIInv`, then one lemma per action, then `StepIInv` and `Invariance`), because none of
the properties is inductive alone.

| Proof module | Proves | Assumes |
|---|---|---|
| `ManagedRuntimeProofs` | `TypeOK`, `OneLiveChild`, `RunningIsBacked`, `ClosedIsQuiet`, `ReplacedWithCause`, `ReplacedInstanceIsGone`, `NoRevival`, `ShutdownCompletes`, `ImplementsService` (the refinement) | `RuntimeAssumption`: positive bounds, `None` is no number |
| `RestartBackoffProofs` | `WindowIsExact`, `RateIsBounded` | `BackoffAssumption`: the five parameters are positive; `DoublingAssumption`: the doubled delays are positive integers |
| `ManagedHandshakeProofs` | `FatalWithReason`, `GraceBeforeClose`, `PublishedIsMine` | nothing: the module has no constants |
| `SessionRegistryProofs` | `OneCloser`, `SweepSparesActive`, `KeptUntilExpiry` | `RegistryAssumption`: handlers are finitely many and none is named "sweep" or "close" |
| `AsyncGoTransportProofs` | `OutcomeIsHonest`, `OneRebuild`, `NoSessionForgotten`, `NoStaleFailure`, `KeepsContract` (the refinement), for both classes | `GoTransportAssumption`: requests are finitely many, `None` is neither a number nor a result |
| `ManagedTransportProofs` | `RunsAtMostOnce`, `OutcomeIsHonest`, `OneOwner`, `RetiredIsReady`, `CloseIsComplete`, `KeepsContract` (the refinement) | `TransportAssumption`: the same, a positive number of instances, the bound `MaxCalls` is a number, no request named "close" |
| `AsyncManagedTransportProofs` | `RunsAtMostOnce`, `OutcomeIsHonest`, `OwnedOrLost`, `OneOwner` while `lost = {}`, `CleanupIsComplete`, `KeepsContract` (the refinement) | `TransportAssumption` |

Each also proves its type invariant. What the assumptions exclude the program cannot be: threads and coroutines are
finitely many, and the names only keep two actors apart. `DoublingAssumption` is arithmetic
(`FirstDelay * 2^(n-1)` is a positive integer), which the provers do not know; TLC computes it for the limit of the run.
`ShutdownCompletes` speaks of behaviours with `~faulty`, in which Windows does what it is told (`GetExitCodeProcess` does not fail,
and a child whose Job was closed exits within the 5 seconds `close()` waits); of others it would be false, as
`runtime_stuck_stopping` shows.

The arguments, by module:

- **ManagedRuntime.** `OneLiveChild` needs to know who answers for a child: at each `pc`, the only
  child that can be alive is `cur` or the candidate (`Custody`), and a launch starts only when there is
  neither. `RunningIsBacked` and `NoRevival` need that what is published is what the thread watches, and
  not once it disposes of it (`Publication`). `ReplacedWithCause` needs that `errors` counts the failed
  probes of the present instance only, and stays below the threshold until it condemns (`Counting`). The refinement maps the
  published instance to the service's, and counts a launch number as issued when its candidate is published
  or given up; so a spawn is a stutter, a failed launch is `Burn`. `ReplacedInstanceIsGone` holds with OS faults, because the
  supervisor lets go of `cur` only after a `close()` that succeeded, and a request holds `cur` or an instance let go of
  (`Retained`); that it does not hold of launches that failed is `runtime_unconfirmed`. Without faults, `Reaped` adds that an
  exited child not yet closed is `cur` or the candidate, and `Stopping` that the thread ends for one reason only, stop.
- **RestartBackoff.** The deque is the tail of the history that begins where the window does (`Cut`): true again after a
  failure, because times only grow (`Timed`) and the dropped indices form an initial segment. `RateIsBounded` follows from `Spaced`:
  from the `RestartLimit`-th failure of a window on, each next one is a `Cooldown` later. It is inductive because a failure
  inside a full window finds a full deque, hence `delay = Cooldown`.
- **ManagedHandshake.** A rejection that is read has been written, and it is written only by a child that read a foreign version
  or a closed pipe; in the latter case there is nobody to read it; and a child whose creation failed is never sent a
  bootstrap (`Rejection`). A probe answered as "mine" was
  answered at a port the child listened at, after it had accepted its bootstrap (`Bootstrapped`, `Listening`). Handlers run on past
  the listener only after `Shutdown` gave up on them (`Grace`).
- **SessionRegistry.** The map, the handler that made or deletes a session, the cleanup's list, `Close`'s list and the end are
  disjoint homes (`OneHome`), and every session handed out has one of them (`SomeHome`); each critical section moves a session
  from one to another. `activeCalls` equals the number of handlers in a call (`Counted`), so that what the cleanup takes at 0
  is idle until it is closed: nobody can begin a call once it is out of the map. `Dated` keeps `lastUsed` after the creation.
- **GoTransport, AsyncGoTransport.** One request at a time rebuilds, for the generation there is, and a generation whose rebuild
  failed is not tried again (`Rebuilding`); `rebuilds[generation]` is 1 exactly when one runs or has failed. A request that is sent again was refused by
  a session that is gone (`Executed`, `Posting`), so it has not run. From the deletion on nobody is inside and no first
  session is being made (`Ending`), so no session appears after it. The first creation runs only while there is no session (`FirstSession`).
- **ManagedTransport.** An entry that is ready is kept by the map or its users, or is in the hands of one thread that
  will close it, or was closed (`Owned`), which needs `users[e]` to be the number of threads between checkout and release
  (`Counted`) and every mapped entry to be under its own instance (`Created`). `Located` says what a thread's locals mean by
  where it is, `Executed` that nothing ran before an attempt is repeated. `Ending`: one thread drains, and when it takes the map
  `active = 0`, so nobody holds an entry, and none comes in. That entries suffice (`made` stays in
  bounds) is part of `Counted`: each request inside may still make one entry per attempt left.
- **AsyncManagedTransport.** The same with cancellation at every await: what a cancelled coroutine held is either closed by a task
  that goes on (its task is "running" or "over" exactly when `closes[e] = 1`), or was in its `retire` and is now in
  `lost`. `Ending` says that the cleanup alone takes what is mapped, that no request is inside from then on, and that no task runs
  when it is over. That `OneOwner` holds while `lost = {}` shows that the finding of `async_prune` is the only way
  to lose an entry.

- **TransportService.** Three refinements, one per proof module. Most steps are stutters, because the request stays inside
  and neither `executed` nor `outcome` changes (`InsideStays`, `ContractStays`). What has to be shown is the rest. A request that is answered
  has an answer that fits `executed`, which is what `Executed` carries from the call to the end; an attempt is repeated only when `executed`
  is still 0, so that `Ask` happens once. The door is closed by the step that sets `closing`, and the step that sets `done` (`closed`) finds
  `active = 0`, which `Counted` turns into nobody inside. In the asynchronous managed transport the step may ask and answer at once (the call ends the
  request), and `closing` and `done` say how far `cleanup` is, a second small invariant (`Phased`).

Only model-checked: the liveness properties (`StopLeadsToClosed`, `DemandIsServed`, `DeadInstanceIsWithdrawn`,
`AbandonedIsReaped`, `RequestsEnd`, `ClosesEnd`, `CleanupSurvivesWaiters`, `ComesToRest`, `PipeEndsChild`, `LaunchEnds`, `StopEnds`),
since liveness under fairness and ENABLED are out of the prover's reach. That a power of two is a
positive integer would need induction over data, so `DoublingAssumption` stays an assumption TLC evaluates.

## 6. Not modelled

- `configure_runtime`: a check of the status and a swap under `_runtime_lock`. Transports take the runtime under
  the same lock; `start()` and `shutdown()` read it once without it, and a runtime that is replaced meanwhile is a stopped
  one for them, which `ManagedRuntime` has.
- TLS specifications, wire encoding, option validation, response decoding, the arithmetic of time budgets: data without
  shared state. Every wait and every exchange may end at any time in the models, whatever its budget.
- What the Go service does with the target (`req` library, its own retries, HTTP/2, HTTP/3, proxies): outside the
  repository. A request the service takes on counts as one execution.
- The flags and the listener of the external process (`main.go`); its end is `SessionRegistry`'s `Close`.
- Windows calls below `JobProcess`, which succeed or raise as steps. The timeout of `close()` is in `ManagedRuntime`;
  in `ManagedHandshake` the kernel ends a closed Job.
- The reader of stderr, which only feeds an error text.
- `fork`: the code refuses foreign process ids in every entry point.
- `release.py` and the test helpers.

## 7. Plan

Done, in this order: `RuntimeService`, `ManagedRuntime` with its proofs, `RestartBackoff`, `SessionRegistry`,
`ManagedTransport`, `AsyncManagedTransport`, `GoTransport`, `AsyncGoTransport`, `ManagedHandshake`;
then the proofs: `ManagedHandshake`, `SessionRegistry`, the external transports, the managed transports, `RestartBackoff`, and
the invariant of `ManagedRuntime` about behaviours without faults. All invariants of the runs are theorems now.
Last came `TransportService` with its three refinements, checked and proved.

Next, proving more:

1. The composition as theorems: `ManagedTransport` and `AsyncManagedTransport` each leave the service to `RuntimeService`, so
   that with `ImplementsService` they hold over the supervisor.
2. The safety half of the liveness properties: the measures that decrease in `ClosesEnd` and `CleanupSurvivesWaiters`.
