-------------------------- MODULE AsyncGoTransport --------------------------
(***************************************************************************)
(* _AsyncGoTransport of src/python/gohttpx.py, and beside it _GoTransport: *)
(* both promise the same, so one specification has the behaviours of a     *)
(* transport of either class, as async says.                               *)
(*                                                                         *)
(* Requests are coroutines of one event loop.  The first of them create    *)
(* the session in a shared task, which each awaits behind a shield; a lost *)
(* session is replaced under _session_lock (rebuilding says that it is     *)
(* held).  A request may be cancelled at every await that suspends.        *)
(* AsyncClient and _ManagedAsyncGoTransport run aclose() in a task of its  *)
(* own, so that it is not cancelled.                                       *)
(***************************************************************************)
EXTENDS GoTransport

VARIABLES
    async,   \* TRUE for _AsyncGoTransport
    attempt, \* _session_attempt: none, running, made, or the error it failed with
    waiters  \* _session_attempt_waiters

first     == <<attempt, waiters>>
asyncVars == <<vars, async, first>>

AsyncTypeOK ==
    /\ TypeOK
    /\ async \in BOOLEAN
    /\ attempt \in {"none", "running", "made", "unavailable", "error"}
    /\ waiters \in 0 .. Cardinality(Requests)

AsyncInit ==
    /\ Init
    /\ async \in BOOLEAN /\ attempt = "none" /\ waiters = 0

Over(a) == a \notin {"none", "running"}

\* The loop runs the coroutines that are ready before it looks at the network: who
\* awaited the attempt goes on before any other exchange ends.
LoopIsIdle == \A r \in Requests : At(r, "await") => ~Over(attempt)

-----------------------------------------------------------------------------
\* __init__ opens nothing.
AsyncConstruct ==
    /\ opened = "new" /\ opened' = "open"
    /\ UNCHANGED <<managed, service, state, calls, ending, async, first>>

AsyncEnter(r) ==
    /\ At(r, "idle") /\ opened = "open"
    /\ IF Refused
       THEN /\ req' = [req EXCEPT ![r].at = "done"]
            /\ outcome' = [outcome EXCEPT ![r] = "unavailable"]
            /\ UNCHANGED active
       ELSE /\ req' = [req EXCEPT ![r].at = "ensure"]
            /\ active' = active + 1
            /\ UNCHANGED outcome
    /\ UNCHANGED <<mode, service, state, executed, ending, async, first>>

\* _ensure_session: the session there is, under the lock.
EnsureHas(r) ==
    /\ At(r, "ensure") /\ ~rebuilding /\ clientId # None
    /\ req' = [req EXCEPT ![r].at = "post", ![r].session = clientId,
                          ![r].generation = generation]
    /\ UNCHANGED <<mode, service, state, active, executed, outcome, ending, async, first>>

EnsureRefused(r) ==
    /\ At(r, "ensure") /\ ~rebuilding /\ clientId = None /\ Refused
    /\ Ended(r, "unavailable")
    /\ UNCHANGED <<mode, service, state, executed, ending, async, first>>

\* Mutant of EnsureWaits: an attempt that is over is joined whoever else awaits it.
EnsureWaitsOnAny(r) ==
    /\ At(r, "ensure") /\ ~rebuilding /\ clientId = None /\ ~Refused
    /\ attempt' = IF attempt = "none" THEN "running" ELSE attempt
    /\ waiters' = waiters + 1
    /\ req' = [req EXCEPT ![r].at = "await"]
    /\ UNCHANGED <<mode, service, state, active, executed, outcome, ending, async>>

\* Join the attempt, or start one if there is none, or only one that is over and that
\* nobody awaits any more.
EnsureWaits(r) ==
    /\ At(r, "ensure") /\ ~rebuilding /\ clientId = None /\ ~Refused
    /\ attempt' = IF attempt = "none" \/ (Over(attempt) /\ waiters = 0) THEN "running"
                  ELSE attempt
    /\ waiters' = waiters + 1
    /\ req' = [req EXCEPT ![r].at = "await"]
    /\ UNCHANGED <<mode, service, state, active, executed, outcome, ending, async>>

\* _run_initial_session_attempt ends, awaited or not.
AttemptEnds ==
    /\ attempt = "running"
    /\ \E creation \in Creations :
        /\ Leaves(creation)
        /\ IF creation.error = None
           THEN attempt' = "made" /\ clientId' = made + 1
           ELSE attempt' = creation.error /\ UNCHANGED clientId
    /\ UNCHANGED <<mode, generation, rebuilding, failure, rebuilds, calls, ending, async, waiters>>

\* The last one that awaited an attempt that is over clears it away.
Left == /\ waiters' = waiters - 1
        /\ attempt' = IF Over(attempt) /\ waiters = 1 THEN "none" ELSE attempt

AwaitGets(r) ==
    /\ At(r, "await") /\ attempt = "made" /\ ~rebuilding
    /\ Left
    /\ req' = [req EXCEPT ![r].at = "post", ![r].session = clientId,
                          ![r].generation = generation]
    /\ UNCHANGED <<mode, service, state, active, executed, outcome, ending, async>>

AwaitRaises(r) ==
    /\ At(r, "await") /\ attempt \in {"unavailable", "error"}
    /\ Left
    /\ Ended(r, attempt)
    /\ UNCHANGED <<mode, service, state, executed, ending, async>>

-----------------------------------------------------------------------------
(* CancelledError, by the await it arrives at.                             *)

\* Waiting for the lock, in _ensure_session or in _rebuild.
CancelLocked(r) ==
    /\ req[r].at \in {"ensure", "rebuild"} /\ rebuilding
    /\ Ended(r, "cancelled")
    /\ UNCHANGED <<mode, service, state, executed, ending, async, first>>

\* Behind the shield: the attempt goes on.
CancelAwait(r) ==
    /\ At(r, "await")
    /\ Left
    /\ Ended(r, "cancelled")
    /\ UNCHANGED <<mode, service, state, executed, ending, async>>

\* Reading the body, or during the exchange: the target may have been asked.
CancelPost(r) ==
    /\ At(r, "post")
    /\ \E ran \in 0 .. 1 :
        /\ ran = 1 => sessions[req[r].session] = "listed"
        /\ executed' = [executed EXCEPT ![r] = @ + ran]
    /\ Ended(r, "cancelled")
    /\ UNCHANGED <<mode, service, state, ending, async, first>>

\* In the middle of a rebuild: the service may have made a session nobody is told of.
\* The failure is not recorded, so that the next request tries again.
CancelCreate(r) ==
    /\ At(r, "create")
    /\ rebuilding' = FALSE
    /\ rebuilds' = [rebuilds EXCEPT ![generation] = @ - 1]
    /\ \E creation \in {c \in Creations : c.left \in {"none", "stray"}} : Leaves(creation)
    /\ Ended(r, "cancelled")
    /\ UNCHANGED <<mode, clientId, generation, failure, executed, ending, async, first>>

Cancel(r) == CancelLocked(r) \/ CancelAwait(r) \/ CancelPost(r) \/ CancelCreate(r)

-----------------------------------------------------------------------------
\* The steps both classes have: coroutines wait for the lock, and for each other.
AsyncRebuild(r) ==
    /\ \/ ~rebuilding /\ (RebuildDone(r) \/ RebuildFailed(r) \/ RebuildRefused(r) \/ RebuildBegins(r))
       \/ LoopIsIdle /\ (Post(r) \/ RebuildEnds(r))
    /\ UNCHANGED <<async, first>>

\* Mutant of AcloseTake: the attempt is not waited for.
AcloseTakeAtOnce(k) == CloseTake(k) /\ UNCHANGED <<async, first>>

\* aclose() also waits for an attempt whose requests were all cancelled.
AcloseTake(k) ==
    /\ attempt # "running"
    /\ CloseTake(k)
    /\ attempt' = IF waiters = 0 THEN "none" ELSE attempt
    /\ UNCHANGED <<async, waiters>>

AcloseStep(k) ==
    \/ AcloseTake(k)
    \/ (CloseDelete(k) \/ CloseWaits(k)) /\ UNCHANGED <<async, first>>

AsyncRequestStep(r) ==
    \/ EnsureHas(r) \/ EnsureRefused(r) \/ EnsureWaits(r) \/ AwaitGets(r) \/ AwaitRaises(r)
    \/ AsyncRebuild(r)

AsyncNext ==
    \/ AsyncConstruct
    \/ AttemptEnds
    \/ \E r \in Requests : AsyncEnter(r) \/ AsyncRequestStep(r) \/ Cancel(r)
    \/ \E k \in Closers : AcloseStep(k)
    \/ /\ \/ \E s \in Sessions : Reap(s)
          \/ \E k \in Closers : CloseBegin(k)
       /\ UNCHANGED <<async, first>>

EitherNext ==
    \/ async /\ AsyncNext
    \/ ~async /\ Next /\ UNCHANGED <<async, first>>

EitherSpec == AsyncInit /\ [][EitherNext]_asyncVars

\* Threads and the loop run, and every exchange has a timeout.
EitherFairSpec ==
    /\ EitherSpec
    /\ \A r \in Requests :
        /\ WF_asyncVars(~async /\ RequestStep(r) /\ UNCHANGED <<async, first>>)
        /\ WF_asyncVars(async /\ AsyncRequestStep(r))
    /\ \A k \in Closers :
        /\ WF_asyncVars(~async /\ CloserStep(k) /\ UNCHANGED <<async, first>>)
        /\ WF_asyncVars(async /\ AcloseStep(k))
    /\ WF_asyncVars(async /\ AttemptEnds)

-----------------------------------------------------------------------------
(* Properties, beside those of GoTransport.                                *)

\* Concurrent first requests share one creation and its error, and a request that comes
\* when nobody awaits it any more gets neither: who is the first to await an attempt
\* awaits one that is running, whoever was cancelled before.
NoStaleFailure ==
    [][(/\ \A r \in Requests : ~At(r, "await")
        /\ \E r \in Requests : At(r, "await")') => attempt' = "running"]_asyncVars
=============================================================================
