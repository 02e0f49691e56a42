-------------------------- MODULE ManagedTransports --------------------------
(***************************************************************************)
(* Both managed transports of src/python/gohttpx.py side by side, for what *)
(* both promise of their ends: a behaviour is one of _ManagedGoTransport   *)
(* or one of _ManagedAsyncGoTransport.                                     *)
(***************************************************************************)
EXTENDS AsyncManagedTransport

VARIABLE async \* which class the transport is of

eitherVars == <<asyncVars, async>>

NoTasks == task = [e \in Entries |-> "none"] /\ cleanup = "none" /\ tended = None /\ lost = {}

EitherInit ==
    \/ async = TRUE /\ AsyncInit
    \/ async = FALSE /\ Init /\ NoTasks

EitherNext ==
    \/ async /\ AsyncNext /\ UNCHANGED async
    \/ ~async /\ Next /\ UNCHANGED <<tasks, async>>

\* A step of the class the transport is of.
Async(A) == async /\ A /\ UNCHANGED async
Sync(A)  == ~async /\ A /\ UNCHANGED <<tasks, async>>

\* Threads run, and every call they make outside the lock has a timeout; the loop runs
\* what is ready, and every I/O operation has a timeout.  The runtime owes nothing, and
\* nobody has to send a request, to cancel one or to close.
EitherFairSpec ==
    /\ EitherInit /\ [][EitherNext]_eitherVars
    /\ \A r \in Requests : /\ WF_eitherVars(Sync(RequestStep(r)))
                           /\ WF_eitherVars(Async(AsyncRequestStep(r)))
    /\ \A k \in Closers : /\ WF_eitherVars(Sync(CloserStep(k)))
                          /\ WF_eitherVars(Async(AcloseReturns(k)))
    /\ \A e \in Entries : WF_eitherVars(Async(TaskEnds(e)))
    /\ WF_eitherVars(Async(CleanupStep))
=============================================================================
