--------------------------- MODULE ManagedRuntime ---------------------------
(***************************************************************************)
(* The supervisor of src/python/_gohttpx_runtime.py: class ManagedRuntime. *)
(*                                                                         *)
(* One daemon thread (_supervise) owns the Go child processes; client      *)
(* threads, event loops and the application share its state through one    *)
(* Condition.  A step of this module is one critical section of that       *)
(* Condition, or one call the supervisor makes outside it (spawn,          *)
(* handshake, probe, poll, close).                                         *)
(*                                                                         *)
(* Time is abstract here: `backoff` says that _next_retry lies in the      *)
(* future, and an expired wait, handshake or probe is a step that may be   *)
(* taken.  The arithmetic of the retry delays is in RestartBackoff.        *)
(***************************************************************************)
EXTENDS Naturals, FiniteSets

CONSTANTS
    Clients,        \* transports that acquire the runtime and send requests
    MaxLaunches,    \* bound: child processes created in one behaviour
    HealthFailures, \* health_failures: failed probes that condemn a live child
    None            \* Python's None

ASSUME RuntimeAssumption ==
    /\ MaxLaunches \in Nat \ {0}
    /\ HealthFailures \in Nat \ {0}
    /\ None \notin Nat

VARIABLES
    state,    \* _state, what status() shows
    current,  \* _current: the published instance, named by its launch number
    stop,     \* _stop
    fatal,    \* _fatal
    wanted,   \* _wanted
    pinned,   \* _pinned
    users,    \* _users
    starts,   \* _starts: how many instances were published
    backoff,  \* _next_retry lies in the future
    check,    \* _check_requested: the instance a client complained about
    pc,       \* where the supervisor thread is
    cur,      \* _supervise's local `current`
    code,     \* _supervise's local `code`: TRUE when poll() saw an exit
    errors,   \* _supervise's local `health_errors`
    reason,   \* why _launch is raising: the exception its caller will see
    launched, \* how many JobProcess objects were created
    child,    \* the operating system's view of each of them
    faulty,   \* whether the OS may fail polls, and children outlive the 5 s of close()
    phase,    \* what each client is doing
    held,     \* the instance a client's request is using
    closer,   \* the thread in shutdown()
    bad       \* history: failed probes in a row of the published instance

shared  == <<state, current, stop, fatal, wanted, pinned, users, starts, backoff, check>>
locals  == <<pc, cur, code, errors, reason>>
os      == <<launched, child, faulty>>
callers == <<phase, held, closer>>
vars    == <<shared, locals, os, callers, bad>>

Procs == 1 .. MaxLaunches

States == {"STOPPED", "STARTING", "RUNNING", "RESTARTING",
           "BACKOFF", "FAILED", "STOPPING", "CLOSED"}

\* "killed": the Job was closed but the process was not seen to exit in time.
ChildStates == {"absent", "alive", "exited", "killed", "closed"}

PcValues == {"unstarted", "loop", "select", "launch", "handshake", "abort",
             "failed", "publish", "discard", "poll", "inspect", "probe", "crash",
             "dispose", "record", "broken", "final", "finish", "dead"}

TypeOK ==
    /\ state \in States
    /\ current \in Procs \cup {None}
    /\ stop \in BOOLEAN /\ fatal \in BOOLEAN
    /\ wanted \in BOOLEAN /\ pinned \in BOOLEAN
    /\ users \in Nat
    /\ starts \in 0 .. MaxLaunches
    /\ backoff \in BOOLEAN
    /\ check \in Procs \cup {None}
    /\ pc \in PcValues
    /\ cur \in Procs \cup {None}
    /\ code \in BOOLEAN
    /\ errors \in 0 .. HealthFailures
    /\ reason \in {"none", "config", "unavailable"}
    /\ launched \in 0 .. MaxLaunches
    /\ child \in [Procs -> ChildStates]
    /\ faulty \in BOOLEAN
    /\ phase \in [Clients -> {"out", "idle", "waiting", "using"}]
    /\ held \in [Clients -> Procs \cup {None}]
    /\ closer \in {"none", "joining", "returned", "timedout"}
    /\ bad \in 0 .. HealthFailures

Init ==
    /\ state = "STOPPED" /\ current = None
    /\ stop = FALSE /\ fatal = FALSE
    /\ wanted = FALSE /\ pinned = FALSE
    /\ users = 0 /\ starts = 0
    /\ backoff = FALSE /\ check = None
    /\ pc = "unstarted" /\ cur = None /\ code = FALSE /\ errors = 0
    /\ reason = "none"
    /\ launched = 0 /\ child = [p \in Procs |-> "absent"]
    /\ faulty \in BOOLEAN
    /\ phase = [c \in Clients |-> "out"]
    /\ held = [c \in Clients |-> None]
    /\ closer = "none"
    /\ bad = 0

Running(p) == child[p] = "alive"

-----------------------------------------------------------------------------
(* Callers: transports, start(), shutdown().                               *)

\* acquire(): refused once stop is set.
Acquire(c) ==
    /\ phase[c] = "out" /\ ~stop
    /\ users' = users + 1
    /\ phase' = [phase EXCEPT ![c] = "idle"]
    /\ UNCHANGED <<state, current, stop, fatal, wanted, pinned, starts, backoff, check,
                   locals, os, held, closer, bad>>

Release(c) ==
    /\ phase[c] = "idle"
    /\ users' = IF users > 0 THEN users - 1 ELSE 0
    /\ phase' = [phase EXCEPT ![c] = "out"]
    /\ UNCHANGED <<state, current, stop, fatal, wanted, pinned, starts, backoff, check,
                   locals, os, held, closer, bad>>

\* _request_ready() past its two refusals: demand is noted, the thread started.
RequestReady(pin) ==
    /\ ~stop /\ ~fatal
    /\ wanted' = TRUE
    /\ pinned' = (pinned \/ pin)
    /\ pc' = IF pc = "unstarted" THEN "loop" ELSE pc
    /\ UNCHANGED <<state, current, stop, fatal, users, starts, backoff, check,
                   cur, code, errors, reason, os, closer, bad>>

\* What _request_ready() hands out.
Ready == current # None /\ state = "RUNNING" /\ Running(current)

\* ensure(), ensure_async(): one turn of the waiting loop.
Ensure(c) ==
    /\ phase[c] \in {"idle", "waiting"}
    /\ RequestReady(FALSE)
    /\ IF Ready THEN /\ phase' = [phase EXCEPT ![c] = "using"]
                     /\ held' = [held EXCEPT ![c] = current]
                ELSE /\ phase' = [phase EXCEPT ![c] = "waiting"]
                     /\ UNCHANGED held

\* The deadline passed, or the next turn is refused: ensure() raises.
EnsureRaises(c) ==
    /\ phase[c] = "waiting"
    /\ phase' = [phase EXCEPT ![c] = "idle"]
    /\ UNCHANGED <<shared, locals, os, held, closer, bad>>

\* start(), astart(): the same loop with pin=True and no transport.
WarmUp == RequestReady(TRUE) /\ UNCHANGED <<phase, held>>

\* A request ends without complaint.
RequestEnds(c) ==
    /\ phase[c] = "using"
    /\ phase' = [phase EXCEPT ![c] = "idle"]
    /\ held' = [held EXCEPT ![c] = None]
    /\ UNCHANGED <<shared, locals, os, closer, bad>>

\* report_fault(): only a complaint about the published instance is kept.
ReportFault(c) ==
    /\ phase[c] = "using"
    /\ check' = IF current = held[c] /\ ~stop THEN held[c] ELSE check
    /\ phase' = [phase EXCEPT ![c] = "idle"]
    /\ held' = [held EXCEPT ![c] = None]
    /\ UNCHANGED <<state, current, stop, fatal, wanted, pinned, users, starts, backoff,
                   locals, os, closer, bad>>

\* Mutants of StateOnStop: shutdown() leaves the state alone, or is done at once.
StateOnStopKept == state
StateOnStopAtOnce == "CLOSED"

\* Nothing to stop, or a thread to wait for.
StateOnStop == IF state = "CLOSED" \/ pc = "unstarted" THEN "CLOSED" ELSE "STOPPING"

\* shutdown() up to the join.
Shutdown ==
    /\ closer # "joining"
    /\ stop' = TRUE
    /\ backoff' = FALSE
    /\ state' = StateOnStop
    /\ closer' = "joining"
    /\ UNCHANGED <<current, fatal, wanted, pinned, users, starts, check,
                   locals, os, phase, held, bad>>

\* Mutant of ShutdownReturns: the end of the join is taken for the thread's end.
ShutdownReturnsUnjoined ==
    /\ closer = "joining"
    /\ closer' = "returned"
    /\ UNCHANGED <<shared, locals, os, phase, held, bad>>

\* The join ends: the thread is over, or was never started.
ShutdownReturns ==
    /\ closer = "joining" /\ pc \in {"unstarted", "dead"}
    /\ closer' = "returned"
    /\ UNCHANGED <<shared, locals, os, phase, held, bad>>

\* The join times out and shutdown() raises.
ShutdownTimesOut ==
    /\ closer = "joining" /\ pc \notin {"unstarted", "dead"}
    /\ closer' = "timedout"
    /\ UNCHANGED <<shared, locals, os, phase, held, bad>>

-----------------------------------------------------------------------------
(* The operating system and the clock.                                     *)

\* A Go process ends by itself: crash, kill from outside, or job closed before.
ChildExits(p) ==
    /\ child[p] \in {"alive", "killed"}
    /\ child' = [child EXCEPT ![p] = "exited"]
    /\ UNCHANGED <<shared, locals, launched, faulty, callers, bad>>

BackoffElapses ==
    /\ backoff
    /\ backoff' = FALSE
    /\ UNCHANGED <<state, current, stop, fatal, wanted, pinned, users, starts, check,
                   locals, os, callers, bad>>

\* Mutant of CloseOk: the Job is not closed.
CloseOkForgotten(p) == child' = child

\* JobProcess.close(): the Job is closed, and the exit awaited for 5 s.
CloseOk(p) == child' = [child EXCEPT ![p] = "closed"]

CloseTimesOut(p) ==
    /\ faulty /\ child[p] \in {"alive", "killed"}
    /\ child' = [child EXCEPT ![p] = "killed"]

-----------------------------------------------------------------------------
(* The supervisor thread.                                                  *)

\* Mutant of LoopTest: stop is not looked at.
LoopTestDeaf ==
    /\ pc = "loop" /\ pc' = "select"
    /\ UNCHANGED <<shared, cur, code, errors, reason, os, callers, bad>>

\* while not self._stop.is_set(), read without the lock.
LoopTest ==
    /\ pc = "loop"
    /\ pc' = IF stop THEN "final" ELSE "select"
    /\ UNCHANGED <<shared, cur, code, errors, reason, os, callers, bad>>

\* Mutant of Demand: nobody starts a runtime that no transport has acquired.
DemandUsersOnly == wanted /\ ~fatal /\ users > 0

Demand == wanted /\ ~fatal /\ (users > 0 \/ pinned)

\* Nothing published, and nothing to do yet: wait(0.1) and start over.
SelectWait ==
    /\ pc = "select" /\ current = None
    /\ ~Demand \/ backoff \/ launched = MaxLaunches
    /\ cur' = None /\ pc' = "loop"
    /\ UNCHANGED <<shared, code, errors, reason, os, callers, bad>>

SelectLaunch ==
    /\ pc = "select" /\ current = None
    /\ Demand /\ ~backoff /\ launched < MaxLaunches
    /\ state' = IF starts = 0 THEN "STARTING" ELSE "RESTARTING"
    /\ cur' = None /\ pc' = "launch"
    /\ UNCHANGED <<current, stop, fatal, wanted, pinned, users, starts, backoff, check,
                   code, errors, reason, os, callers, bad>>

SelectWatch ==
    /\ pc = "select" /\ current # None
    /\ cur' = current /\ pc' = "poll"
    /\ UNCHANGED <<shared, code, errors, reason, os, callers, bad>>

\* _launch: no binary, wrong platform, or the Job or process is refused.
LaunchRefused ==
    /\ pc = "launch"
    /\ reason' = "config" /\ pc' = "failed"
    /\ UNCHANGED <<shared, cur, code, errors, os, callers, bad>>

\* _launch: JobProcess(...) has created the child inside its Job.
LaunchSpawn ==
    /\ pc = "launch"
    /\ launched' = launched + 1
    /\ child' = [child EXCEPT ![launched + 1] = "alive"]
    /\ pc' = "handshake"
    /\ UNCHANGED <<shared, cur, code, errors, reason, faulty, callers, bad>>

\* The ready line is valid, the probe succeeded and the process still runs.
HandshakeReady ==
    /\ pc = "handshake" /\ Running(launched)
    /\ pc' = "publish"
    /\ UNCHANGED <<shared, cur, code, errors, reason, os, callers, bad>>

\* Stop seen, child gone, deadline passed or probe failed: RuntimeUnavailable.
\* A malformed, foreign or rejecting ready line: RuntimeConfigurationError.
HandshakeFails(r) ==
    /\ pc = "handshake"
    /\ reason' = r /\ pc' = "abort"
    /\ UNCHANGED <<shared, cur, code, errors, os, callers, bad>>

\* except BaseException: process.close(), then the error goes on ...
AbortCloses ==
    /\ pc = "abort"
    /\ CloseOk(launched)
    /\ pc' = "failed"
    /\ UNCHANGED <<shared, cur, code, errors, reason, launched, faulty, callers, bad>>

\* ... or TimeoutExpired from close() takes its place.
AbortTimesOut ==
    /\ pc = "abort"
    /\ CloseTimesOut(launched)
    /\ reason' = "unavailable" /\ pc' = "failed"
    /\ UNCHANGED <<shared, cur, code, errors, launched, faulty, callers, bad>>

\* except Exception in _supervise: FAILED for good, or _record_failure.
LaunchFailed ==
    /\ pc = "failed"
    /\ \/ /\ reason = "config"
          /\ fatal' = TRUE /\ state' = "FAILED"
          /\ UNCHANGED backoff
       \/ /\ reason = "unavailable"
          /\ backoff' = TRUE /\ state' = "BACKOFF"
          /\ UNCHANGED fatal
    /\ reason' = "none" /\ pc' = "loop"
    /\ UNCHANGED <<current, stop, wanted, pinned, users, starts, check,
                   cur, code, errors, os, callers, bad>>

\* Mutant of MayPublish: stop is not looked at again after the handshake.
MayPublishAlways == TRUE

MayPublish == ~stop

\* The candidate becomes the instance every caller sees.
Publish ==
    /\ pc = "publish" /\ MayPublish
    /\ current' = launched /\ cur' = launched
    /\ starts' = starts + 1
    /\ state' = "RUNNING"
    /\ backoff' = FALSE
    /\ errors' = 0 /\ bad' = 0
    /\ pc' = "loop"
    /\ UNCHANGED <<stop, fatal, wanted, pinned, users, check, code, reason, os, callers>>

\* Stop came first: the candidate is dropped unseen.
PublishCancelled ==
    /\ pc = "publish" /\ ~MayPublish
    /\ pc' = "discard"
    /\ UNCHANGED <<shared, cur, code, errors, reason, os, callers, bad>>

Discard ==
    /\ pc = "discard"
    /\ \/ CloseOk(launched) /\ pc' = "final"
       \/ CloseTimesOut(launched) /\ pc' = "broken"
    /\ UNCHANGED <<shared, cur, code, errors, reason, launched, faulty, callers, bad>>

\* Mutant of Poll: the exit of the child goes unnoticed.
PollBlind ==
    /\ pc = "poll"
    /\ code' = FALSE /\ pc' = "inspect"
    /\ UNCHANGED <<shared, cur, errors, reason, os, callers, bad>>

\* code = current.process.poll()
Poll ==
    /\ pc = "poll"
    /\ code' = ~Running(cur) /\ pc' = "inspect"
    /\ UNCHANGED <<shared, cur, errors, reason, os, callers, bad>>

PollFails ==
    /\ pc = "poll" /\ faulty
    /\ pc' = "broken"
    /\ UNCHANGED <<shared, cur, code, errors, reason, os, callers, bad>>

\* The complaint is consumed; an exit, or a due probe, decides what follows.
\* next_health may always have passed, so a probe needs no complaint.
Inspect ==
    /\ pc = "inspect"
    /\ check' = None
    /\ \/ code /\ pc' = "crash"
       \/ ~code /\ (users > 0 \/ pinned) /\ pc' = "probe"
       \/ ~code /\ ~(check = cur /\ (users > 0 \/ pinned)) /\ pc' = "loop"
    /\ UNCHANGED <<state, current, stop, fatal, wanted, pinned, users, starts, backoff,
                   cur, code, errors, reason, os, callers, bad>>

\* Mutant of ProbeOk: failed probes are summed up over a whole life.
ProbeOkKeepsErrors ==
    /\ pc = "probe" /\ Running(cur)
    /\ bad' = 0 /\ pc' = "loop"
    /\ UNCHANGED <<shared, cur, code, errors, reason, os, callers>>

ProbeOk ==
    /\ pc = "probe" /\ Running(cur)
    /\ errors' = 0 /\ bad' = 0
    /\ pc' = "loop"
    /\ UNCHANGED <<shared, cur, code, reason, os, callers>>

\* Mutant of ProbeFails: the count is never compared with health_failures.
ProbeFailsOn ==
    /\ pc = "probe"
    /\ errors' = errors + 1 /\ bad' = bad + 1
    /\ pc' = "loop"
    /\ UNCHANGED <<shared, cur, code, reason, os, callers>>

\* A live but overloaded child may fail a probe as well as a dead one.
ProbeFails ==
    /\ pc = "probe"
    /\ errors' = errors + 1 /\ bad' = bad + 1
    /\ pc' = IF errors + 1 >= HealthFailures THEN "crash" ELSE "loop"
    /\ UNCHANGED <<shared, cur, code, reason, os, callers>>

\* The instance is withdrawn before it is disposed of.
Withdraw ==
    /\ pc = "crash"
    /\ state' = "RESTARTING" /\ current' = None
    /\ pc' = "dispose"
    /\ UNCHANGED <<stop, fatal, wanted, pinned, users, starts, backoff, check,
                   cur, code, errors, reason, os, callers, bad>>

\* Mutant of Dispose: a close() that timed out is taken for a close.
DisposeSwallows ==
    /\ pc = "dispose"
    /\ CloseOk(cur) \/ CloseTimesOut(cur)
    /\ pc' = "record"
    /\ UNCHANGED <<shared, cur, code, errors, reason, launched, faulty, callers, bad>>

\* _dispose(current, False)
Dispose ==
    /\ pc = "dispose"
    /\ \/ CloseOk(cur) /\ pc' = "record"
       \/ CloseTimesOut(cur) /\ pc' = "broken"
    /\ UNCHANGED <<shared, cur, code, errors, reason, launched, faulty, callers, bad>>

\* _record_failure after a crash.
RecordCrash ==
    /\ pc = "record"
    /\ state' = "BACKOFF" /\ backoff' = TRUE
    /\ cur' = None /\ pc' = "loop"
    /\ UNCHANGED <<current, stop, fatal, wanted, pinned, users, starts, check,
                   code, errors, reason, os, callers, bad>>

\* except BaseException
Broken ==
    /\ pc = "broken"
    /\ fatal' = TRUE /\ state' = "FAILED"
    /\ pc' = "final"
    /\ UNCHANGED <<current, stop, wanted, pinned, users, starts, backoff, check,
                   cur, code, errors, reason, os, callers, bad>>

\* finally: _dispose(current, stop): whatever the child answers to the
\* shutdown command, close() has the last word; if it raises, or the poll
\* before the command does, the thread dies here.
FinalDispose ==
    /\ pc = "final"
    /\ \/ cur = None /\ pc' = "finish" /\ UNCHANGED child
       \/ cur # None /\ CloseOk(cur) /\ pc' = "finish"
       \/ cur # None /\ CloseTimesOut(cur) /\ pc' = "dead"
       \/ cur # None /\ faulty /\ stop /\ pc' = "dead" /\ UNCHANGED child
    /\ UNCHANGED <<shared, cur, code, errors, reason, launched, faulty, callers, bad>>

Finish ==
    /\ pc = "finish"
    /\ current' = None
    /\ state' = IF stop THEN "CLOSED" ELSE state
    /\ pc' = "dead"
    /\ UNCHANGED <<stop, fatal, wanted, pinned, users, starts, backoff, check,
                   cur, code, errors, reason, os, callers, bad>>

-----------------------------------------------------------------------------
ClientStep(c) ==
    \/ Acquire(c) \/ Release(c) \/ Ensure(c) \/ EnsureRaises(c)
    \/ RequestEnds(c) \/ ReportFault(c)

ApplicationStep == WarmUp \/ Shutdown \/ ShutdownReturns \/ ShutdownTimesOut

LaunchStep ==
    \/ LaunchRefused \/ LaunchSpawn \/ HandshakeReady
    \/ \E r \in {"config", "unavailable"} : HandshakeFails(r)
    \/ AbortCloses \/ AbortTimesOut \/ LaunchFailed
    \/ Publish \/ PublishCancelled \/ Discard

WatchStep ==
    \/ Poll \/ PollFails \/ Inspect \/ ProbeOk \/ ProbeFails
    \/ Withdraw \/ Dispose \/ RecordCrash

SupervisorStep ==
    \/ LoopTest \/ SelectWait \/ SelectLaunch \/ SelectWatch
    \/ LaunchStep \/ WatchStep
    \/ Broken \/ FinalDispose \/ Finish

EnvironmentStep == BackoffElapses \/ \E p \in Procs : ChildExits(p)

Next ==
    \/ \E c \in Clients : ClientStep(c)
    \/ ApplicationStep
    \/ SupervisorStep
    \/ EnvironmentStep

Spec == Init /\ [][Next]_vars

\* The supervisor is a thread nothing blocks for ever: every call it makes has
\* a timeout.  The clock passes.  Clients and the application owe nothing.
FairSpec ==
    /\ Spec
    /\ WF_vars(SupervisorStep)
    /\ WF_vars(BackoffElapses)
    /\ WF_vars(ShutdownReturns)

-----------------------------------------------------------------------------
(* Properties.                                                             *)

\* A child was created that is neither published nor given up yet.
HasCandidate == pc \in {"handshake", "abort", "publish", "discard"}

\* No two children run under an open Job at once, whatever the OS does: a
\* replacement is created only after the old Job was closed (_dispose before
\* the next _launch; _launch closes what it does not return).
OneLiveChild == \A p, q \in Procs : Running(p) /\ Running(q) => p = q

\* A replacement is created only once the old process is known to be gone, and a
\* process that cannot be reaped is a failure, not a reason to try again (design,
\* section 7.1).  The code keeps to this when it replaces a published instance,
\* not when it cleans up a launch that failed: AbortTimesOut.
OldChildExitedFirst ==
    \A p, q \in Procs :
        child[p] \in {"alive", "killed"} /\ child[q] \in {"alive", "killed"} => p = q

\* An instance that requests still use is reaped before its successor is created,
\* even if polls and closes fail: no request is under way in a process that may
\* still run beside the one that replaces it (_supervise goes from a _dispose
\* that raises to FAILED, not to _record_failure).
ReplacedInstanceIsGone ==
    \A c \in Clients :
        held[c] # None /\ held[c] < launched => child[held[c]] = "closed"

\* RUNNING is shown only over an instance ensure() can hand out: published, not
\* disposed of, in a runtime nobody stopped.
RunningIsBacked ==
    state = "RUNNING" =>
        /\ current # None /\ ~stop
        /\ child[current] \in {"alive", "exited"}

\* CLOSED is the end: no thread left to launch, nothing published, no live child.
ClosedIsQuiet ==
    state = "CLOSED" =>
        /\ pc \in {"unstarted", "dead"}
        /\ current = None
        /\ \A p \in Procs : ~Running(p)

\* The supervisor gives an instance up only with evidence about that instance:
\* its exit, or HealthFailures failed probes of it in a row.  A complaint about
\* an older instance, or failures of an older one, are no evidence.
ReplacedWithCause ==
    pc = "crash" => \/ child[cur] = "exited"
                    \/ bad >= HealthFailures

\* After shutdown() no instance is published any more, and CLOSED never changes.
NoRevival ==
    [][ /\ stop => current' \in {current, None}
        /\ state = "CLOSED" => /\ state' = "CLOSED"
                               /\ launched' = launched ]_vars

\* When shutdown() comes back without an error from a runtime whose OS did as it
\* was told, the runtime is CLOSED and every child it ever created was reaped and
\* its handle closed.
ShutdownCompletes ==
    closer = "returned" /\ ~faulty =>
        /\ state = "CLOSED"
        /\ \A p \in Procs : child[p] \in {"absent", "closed"}

\* When shutdown() comes back without an error the runtime is CLOSED, so that it
\* may be configured again.
ShutdownReturnsClosed == closer = "returned" => state = "CLOSED"

\* The supervisor died of a fault of the OS (see ShutdownReturnsClosed).
DiedOfFault == faulty /\ pc = "dead"

\* A runtime told to stop reaches CLOSED.
StopLeadsToClosed == stop ~> (state = "CLOSED" \/ DiedOfFault)

\* Whoever needs an instance: a caller in ensure(), or the start() that pinned one.
Needed == pinned \/ \E c \in Clients : phase[c] = "waiting"

\* Whoever needs an instance when there is none gets one, unless they give up or
\* the runtime is stopped or FAILED.  (Or the last launch the model has has failed.)
DemandIsServed ==
    (Needed /\ current = None) ~>
        \/ current # None \/ ~Needed \/ stop \/ fatal
        \/ launched = MaxLaunches /\ ~HasCandidate

\* A dead instance does not stay published.
DeadInstanceIsWithdrawn ==
    \A p \in Procs : (current = p /\ child[p] = "exited") ~> (current # p \/ DiedOfFault)

-----------------------------------------------------------------------------
(* What the runtime promises its callers, and how it keeps the promise.    *)

\* While a candidate is under way its number is not used up yet.
Service == INSTANCE RuntimeService
    WITH service <- current,
         issued  <- IF HasCandidate THEN launched - 1 ELSE launched,
         closed  <- stop

\* The supervisor implements the service: instances are issued in order, one at
\* a time, never again once withdrawn, and not at all after the end.
ImplementsService == Service!Spec
=============================================================================
