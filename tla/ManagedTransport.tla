-------------------------- MODULE ManagedTransport --------------------------
(***************************************************************************)
(* The synchronous managed transport of src/python/gohttpx.py:             *)
(* _ManagedGoTransport with the _ManagedState it shares with the           *)
(* asynchronous one.  Threads send requests through one transport, which   *)
(* keeps an entry (a _GoTransport with its Go session) for each instance   *)
(* of the runtime, while the runtime replaces instances underneath.        *)
(*                                                                         *)
(* The runtime is the abstract RuntimeService, which ManagedRuntime        *)
(* implements.  A step is one critical section of self._condition, or one  *)
(* call made outside it: ensure(), the factory, the inner handle_request,  *)
(* close().  report_fault() changes nothing RuntimeService shows.          *)
(***************************************************************************)
EXTENDS Naturals, FiniteSets

CONSTANTS
    Requests,     \* bound: handle_request calls of one behaviour
    Closers,      \* bound: close() calls of one behaviour
    MaxCalls,     \* bound: how many of all these calls one behaviour makes
    MaxInstances, \* bound: instance numbers the runtime uses up
    None

\* What ends an attempt: a response, a failure known to come before the target
\* was asked, a lost answer, CLIENT_NOT_FOUND, any other answer of the service.
Results == {"ok", "unavailable", "unknown", "notfound", "error"}

\* The thread that runs close() is none of the requests: see Takers.
ASSUME TransportAssumption ==
    /\ IsFiniteSet(Requests) /\ "close" \notin Requests
    /\ MaxInstances \in Nat \ {0} /\ MaxCalls \in Nat
    /\ None \notin Nat \cup Results

VARIABLES
    service, issued, closed, \* the runtime: see RuntimeService
    mapped,   \* _entries: the entry of each instance, or None
    made,     \* how many entries were created; they are numbered from 1
    of,       \* entry.instance
    ready,    \* entry.ready: pending, or how the factory ended
    users,    \* entry.users
    closes,   \* how often _close_entry ran on each entry
    session,  \* the Go service's view of the entry's session
    req,      \* each request: where it is, and its local variables
    executed, \* how often the Go service ran each request against the target
    outcome,  \* what handle_request returned or raised
    active,   \* _active
    closing,  \* _closing
    done,     \* _closed
    closer,   \* where each close() call is
    doomed,   \* the entries close() took
    released  \* how often runtime.release() was called

runtime == <<service, issued, closed>>
entries == <<mapped, made, of, ready, users, closes, session>>
calls   == <<req, executed, outcome, active>>
ending  == <<closing, done, closer, doomed, released>>
vars    == <<runtime, entries, calls, ending>>

Instances == 1 .. MaxInstances

\* A request has two attempts and creates at most one entry in each.
Entries == 1 .. (2 * Cardinality(Requests) + 1)

Runtime == INSTANCE RuntimeService

TypeOK ==
    /\ service \in Instances \cup {None} /\ issued \in 0 .. MaxInstances /\ closed \in BOOLEAN
    /\ mapped \in [Instances -> Entries \cup {None}]
    /\ made \in 0 .. Cardinality(Entries)
    /\ of \in [Entries -> Instances \cup {None}]
    /\ ready \in [Entries -> {"none", "pending", "ok", "unavailable", "error"}]
    /\ users \in [Entries -> 0 .. Cardinality(Requests)]
    /\ closes \in [Entries -> Nat]
    /\ session \in [Entries -> {"none", "listed", "reaped", "deleted", "lost"}]
    /\ req \in [Requests ->
                 [at : {"idle", "ensure", "prune", "pruned", "create", "await",
                        "call", "release", "retire", "leave", "done"},
                  attempt : 1 .. 2, instance : Instances \cup {None},
                  entry : Entries \cup {None}, retire : SUBSET Entries,
                  result : Results \cup {None}]]
    /\ executed \in [Requests -> 0 .. 2]
    /\ outcome \in [Requests -> Results \cup {None}]
    /\ active \in 0 .. Cardinality(Requests)
    /\ closing \in BOOLEAN /\ done \in BOOLEAN
    /\ closer \in [Closers -> {"idle", "draining", "closing", "waiting", "over"}]
    /\ doomed \subseteq Entries
    /\ released \in Nat

\* The constructor ran to its end before anybody else knew the transport: the
\* first instance has an entry nobody uses.  (If it raises there is no transport.)
Init ==
    /\ service = 1 /\ issued = 1 /\ closed = FALSE
    /\ mapped = [i \in Instances |-> IF i = 1 THEN 1 ELSE None]
    /\ made = 1
    /\ of = [e \in Entries |-> IF e = 1 THEN 1 ELSE None]
    /\ ready = [e \in Entries |-> IF e = 1 THEN "ok" ELSE "none"]
    /\ users = [e \in Entries |-> 0]
    /\ closes = [e \in Entries |-> 0]
    /\ session = [e \in Entries |-> IF e = 1 THEN "listed" ELSE "none"]
    /\ req = [r \in Requests |-> [at |-> "idle", attempt |-> 1, instance |-> None,
                                  entry |-> None, retire |-> {}, result |-> None]]
    /\ executed = [r \in Requests |-> 0]
    /\ outcome = [r \in Requests |-> None]
    /\ active = 0
    /\ closing = FALSE /\ done = FALSE
    /\ closer = [k \in Closers |-> "idle"]
    /\ doomed = {} /\ released = 0

At(r, place) == req[r].at = place

Live == 1 .. made

\* The calls a behaviour may still make.
MoreCalls ==
    Cardinality({r \in Requests : ~At(r, "idle")} \cup {k \in Closers : closer[k] # "idle"})
        < MaxCalls

-----------------------------------------------------------------------------
(* The runtime and the Go service.                                         *)

RuntimeStep ==
    /\ Runtime!Next
    /\ issued' <= MaxInstances
    /\ UNCHANGED <<entries, calls, ending>>

\* The Go service forgets a session by itself: idle cleanup, or its process died.
Reap(e) ==
    /\ session[e] = "listed"
    /\ session' = [session EXCEPT ![e] = "reaped"]
    /\ UNCHANGED <<runtime, mapped, made, of, ready, users, closes, calls, ending>>

-----------------------------------------------------------------------------
(* handle_request.                                                         *)

\* Mutant of Begin: only a transport that is closed already refuses.
BeginUnlessDone(r) ==
    /\ At(r, "idle") /\ MoreCalls
    /\ IF done
       THEN /\ req' = [req EXCEPT ![r].at = "done"]
            /\ outcome' = [outcome EXCEPT ![r] = "unavailable"]
            /\ UNCHANGED active
       ELSE /\ req' = [req EXCEPT ![r].at = "ensure"]
            /\ active' = active + 1
            /\ UNCHANGED outcome
    /\ UNCHANGED <<runtime, entries, executed, ending>>

\* _begin
Begin(r) ==
    /\ At(r, "idle") /\ MoreCalls
    /\ IF closing \/ done
       THEN /\ req' = [req EXCEPT ![r].at = "done"]
            /\ outcome' = [outcome EXCEPT ![r] = "unavailable"]
            /\ UNCHANGED active
       ELSE /\ req' = [req EXCEPT ![r].at = "ensure"]
            /\ active' = active + 1
            /\ UNCHANGED outcome
    /\ UNCHANGED <<runtime, entries, executed, ending>>

\* runtime.ensure() answers: what it answers may be withdrawn at once.
Ensure(r) ==
    /\ At(r, "ensure") /\ service # None /\ ~closed
    /\ req' = [req EXCEPT ![r].at = "prune", ![r].instance = service]
    /\ UNCHANGED <<runtime, entries, executed, outcome, active, ending>>

\* On the way to the outer finally the other locals are of no use any more.
Leaving(result) == [at |-> "leave", attempt |-> 1, instance |-> None, entry |-> None,
                    retire |-> {}, result |-> result]

\* runtime.ensure() raises: stopped or the budget is spent, or failed for good.
EnsureRaises(r) ==
    /\ At(r, "ensure")
    /\ \E error \in {"unavailable", "error"} :
        req' = [req EXCEPT ![r] = Leaving(error)]
    /\ UNCHANGED <<runtime, entries, executed, outcome, active, ending>>

\* Mutant of Unused: entries in use, or still being made, are taken as well.
UnusedOrNot(i) == {mapped[j] : j \in {k \in Instances : k # i /\ mapped[k] # None}}

\* _prune: the unused entries of every other instance leave the map ...
Unused(i) == {mapped[j] : j \in {k \in Instances : k # i /\ mapped[k] # None
                                                     /\ users[mapped[k]] = 0}}

Prune(r) ==
    /\ At(r, "prune")
    /\ LET old == Unused(req[r].instance)
       IN /\ mapped' = [i \in Instances |-> IF mapped[i] \in old THEN None ELSE mapped[i]]
          /\ req' = [req EXCEPT ![r].at = "pruned", ![r].retire = old]
    /\ UNCHANGED <<runtime, made, of, ready, users, closes, session,
                   executed, outcome, active, ending>>

\* _close_entry: only an entry of the current instance deletes its session, and
\* a deletion that fails is ignored.  A pending entry would block it for ever.
CloseEntry(e) ==
    /\ ready[e] # "pending"
    /\ closes' = [closes EXCEPT ![e] = @ + 1]
    /\ IF of[e] = service /\ ~closed /\ session[e] = "listed"
       THEN \E left \in {"deleted", "lost"} : session' = [session EXCEPT ![e] = left]
       ELSE UNCHANGED session

\* ... and are closed one after the other.
ClosePruned(r) ==
    /\ At(r, "pruned")
    /\ \E e \in req[r].retire :
        /\ CloseEntry(e)
        /\ req' = [req EXCEPT ![r].retire = @ \ {e}]
    /\ UNCHANGED <<runtime, mapped, made, of, ready, users, executed, outcome, active, ending>>

\* _checkout: join the entry of the instance, or create it.
CheckoutJoin(r) ==
    /\ At(r, "pruned") /\ req[r].retire = {}
    /\ LET e == mapped[req[r].instance]
       IN /\ e # None
          /\ users' = [users EXCEPT ![e] = @ + 1]
          /\ req' = [req EXCEPT ![r].at = "await", ![r].entry = e]
    /\ UNCHANGED <<runtime, mapped, made, of, ready, closes, session,
                   executed, outcome, active, ending>>

CheckoutCreate(r) ==
    /\ At(r, "pruned") /\ req[r].retire = {}
    /\ mapped[req[r].instance] = None
    /\ made' = made + 1
    /\ of' = [of EXCEPT ![made + 1] = req[r].instance]
    /\ ready' = [ready EXCEPT ![made + 1] = "pending"]
    /\ users' = [users EXCEPT ![made + 1] = 1]
    /\ mapped' = [mapped EXCEPT ![req[r].instance] = made + 1]
    /\ req' = [req EXCEPT ![r].at = "create", ![r].entry = made + 1]
    /\ UNCHANGED <<runtime, closes, session, executed, outcome, active, ending>>

\* Mutant of Retried: a lost answer is taken for a failed connection.
RetriedUnknown(r, result) ==
    req[r].attempt = 1 /\ result \in {"unavailable", "notfound", "unknown"}

\* An attempt is over: a failure that is known to precede the target earns the
\* first attempt a second one; all else ends the request.
Retried(r, result) == req[r].attempt = 1 /\ result \in {"unavailable", "notfound"}

Proceed(r, result) ==
    IF Retried(r, result)
    THEN [at |-> "ensure", attempt |-> 2, instance |-> None, entry |-> None,
          retire |-> {}, result |-> None]
    ELSE Leaving(result)

Unmap(e) == [i \in Instances |-> IF mapped[i] = e THEN None ELSE mapped[i]]

\* Mutant of Create: the creator raises the error of its factory by itself, and
\* who has joined its entry is not told.
CreateRaisesAlone(r) ==
    /\ At(r, "create")
    /\ LET e == req[r].entry
       IN \/ /\ ready' = [ready EXCEPT ![e] = "ok"]
             /\ session' = [session EXCEPT ![e] = "listed"]
             /\ req' = [req EXCEPT ![r].at = "await"]
             /\ UNCHANGED <<mapped, users>>
          \/ /\ \E error \in {"unavailable", "error"} :
                   req' = [req EXCEPT ![r] = Proceed(r, error)]
             /\ users' = [users EXCEPT ![e] = @ - 1]
             /\ mapped' = Unmap(e)
             /\ UNCHANGED <<ready, session>>
    /\ UNCHANGED <<runtime, made, of, closes, executed, outcome, active, ending>>

\* The factory: capabilities and a new session, or an error all waiters share.
Create(r) ==
    /\ At(r, "create")
    /\ LET e == req[r].entry
       IN \/ /\ ready' = [ready EXCEPT ![e] = "ok"]
             /\ session' = [session EXCEPT ![e] = "listed"]
          \/ /\ \E error \in {"unavailable", "error"} : ready' = [ready EXCEPT ![e] = error]
             /\ UNCHANGED session
    /\ req' = [req EXCEPT ![r].at = "await"]
    /\ UNCHANGED <<runtime, mapped, made, of, users, closes, executed, outcome, active, ending>>

\* The creator and those who joined it learn that the entry is usable.
Await(r) ==
    /\ At(r, "await") /\ ready[req[r].entry] = "ok"
    /\ req' = [req EXCEPT ![r].at = "call"]
    /\ UNCHANGED <<runtime, entries, executed, outcome, active, ending>>

\* They learn that it is not: _checkout takes it out of the map and raises.
AwaitRaises(r) ==
    /\ At(r, "await")
    /\ LET e == req[r].entry
       IN /\ ready[e] \in {"unavailable", "error"}
          /\ users' = [users EXCEPT ![e] = @ - 1]
          /\ mapped' = Unmap(e)
          /\ req' = [req EXCEPT ![r] = Proceed(r, ready[e])]
    /\ UNCHANGED <<runtime, made, of, ready, closes, session, executed, outcome, active, ending>>

\* The inner handle_request of the entry's transport ends.
Call(r) ==
    /\ At(r, "call")
    /\ \E result \in Results, ran \in 0 .. 1 :
        /\ result = "unavailable" => ran = 0
        /\ result = "notfound" => ran = 0 /\ session[req[r].entry] # "listed"
        /\ result = "ok" => ran = 1
        /\ ran = 1 => session[req[r].entry] = "listed"
        /\ closes[req[r].entry] > 0 => result = "unavailable"
        /\ executed' = [executed EXCEPT ![r] = @ + ran]
        /\ req' = [req EXCEPT ![r].at = "release", ![r].result = result]
    /\ UNCHANGED <<runtime, entries, outcome, active, ending>>

\* Mutant of Released: the last user closes the entry, mapped or not.
ReleasedByLast(e) == users'[e] = 0

Released(e) == users'[e] = 0 /\ mapped'[of[e]] # e

\* _release_entry: who leaves an unmapped entry last has to close it.
Release(r) ==
    /\ At(r, "release")
    /\ LET e == req[r].entry
           invalidate == req[r].attempt = 1 /\ req[r].result = "notfound"
       IN /\ users' = [users EXCEPT ![e] = @ - 1]
          /\ mapped' = IF invalidate THEN Unmap(e) ELSE mapped
          /\ req' = IF Released(e)
                    THEN [req EXCEPT ![r].at = "retire", ![r].retire = {e}]
                    ELSE [req EXCEPT ![r] = Proceed(r, req[r].result)]
    /\ UNCHANGED <<runtime, made, of, ready, closes, session, executed, outcome, active, ending>>

CloseReleased(r) ==
    /\ At(r, "retire")
    /\ CloseEntry(req[r].entry)
    /\ req' = [req EXCEPT ![r] = Proceed(r, req[r].result)]
    /\ UNCHANGED <<runtime, mapped, made, of, ready, users, executed, outcome, active, ending>>

\* What the caller sees: CLIENT_NOT_FOUND goes out as any other error.
Raised(result) == IF result = "notfound" THEN "error" ELSE result

\* The outer finally, with _finish.
Leave(r) ==
    /\ At(r, "leave")
    /\ active' = active - 1
    /\ outcome' = [outcome EXCEPT ![r] = Raised(req[r].result)]
    /\ req' = [req EXCEPT ![r].at = "done", ![r].result = None]
    /\ UNCHANGED <<runtime, entries, executed, ending>>

-----------------------------------------------------------------------------
(* close().                                                                *)

CloseBegin(k) ==
    /\ closer[k] = "idle" /\ MoreCalls
    /\ closer' = [closer EXCEPT ![k] = IF done THEN "over"
                                       ELSE IF closing THEN "waiting" ELSE "draining"]
    /\ closing' = (closing \/ ~done)
    /\ UNCHANGED <<runtime, entries, calls, done, doomed, released>>

\* Mutant of CloseTake: requests in flight are not waited for.
CloseTakeEager(k) ==
    /\ closer[k] = "draining"
    /\ closer' = [closer EXCEPT ![k] = "closing"]
    /\ doomed' = {mapped[i] : i \in {j \in Instances : mapped[j] # None}}
    /\ mapped' = [i \in Instances |-> None]
    /\ UNCHANGED <<runtime, made, of, ready, users, closes, session, calls,
                   closing, done, released>>

\* No request is active any more: every entry leaves the map.
CloseTake(k) ==
    /\ closer[k] = "draining" /\ active = 0
    /\ closer' = [closer EXCEPT ![k] = "closing"]
    /\ doomed' = {mapped[i] : i \in {j \in Instances : mapped[j] # None}}
    /\ mapped' = [i \in Instances |-> None]
    /\ UNCHANGED <<runtime, made, of, ready, users, closes, session, calls,
                   closing, done, released>>

\* Entries whose factory failed, or never ended, are dropped.
CloseNext(k) ==
    /\ closer[k] = "closing"
    /\ \E e \in doomed :
        /\ doomed' = doomed \ {e}
        /\ IF ready[e] = "ok" THEN CloseEntry(e) ELSE UNCHANGED <<closes, session>>
    /\ UNCHANGED <<runtime, mapped, made, of, ready, users, calls,
                   closing, done, closer, released>>

\* Mutant of CloseFinish: the waiters are not told.
CloseFinishSilent(k) ==
    /\ closer[k] = "closing" /\ doomed = {}
    /\ released' = released + 1
    /\ closer' = [closer EXCEPT ![k] = "over"]
    /\ UNCHANGED <<runtime, entries, calls, closing, done, doomed>>

CloseFinish(k) ==
    /\ closer[k] = "closing" /\ doomed = {}
    /\ released' = released + 1
    /\ done' = TRUE
    /\ closer' = [closer EXCEPT ![k] = "over"]
    /\ UNCHANGED <<runtime, entries, calls, closing, doomed>>

CloseWaits(k) ==
    /\ closer[k] = "waiting" /\ done
    /\ closer' = [closer EXCEPT ![k] = "over"]
    /\ UNCHANGED <<runtime, entries, calls, closing, done, doomed, released>>

-----------------------------------------------------------------------------
\* What a thread inside handle_request does next.
RequestStep(r) ==
    \/ Ensure(r) \/ EnsureRaises(r)
    \/ Prune(r) \/ ClosePruned(r)
    \/ CheckoutJoin(r) \/ CheckoutCreate(r) \/ Create(r) \/ Await(r) \/ AwaitRaises(r)
    \/ Call(r)
    \/ Release(r) \/ CloseReleased(r)
    \/ Leave(r)

CloserStep(k) == CloseTake(k) \/ CloseNext(k) \/ CloseFinish(k) \/ CloseWaits(k)

Next ==
    \/ RuntimeStep
    \/ \E e \in Live : Reap(e)
    \/ \E r \in Requests : Begin(r) \/ RequestStep(r)
    \/ \E k \in Closers : CloseBegin(k) \/ CloserStep(k)

Spec == Init /\ [][Next]_vars

-----------------------------------------------------------------------------
(* Properties.                                                             *)

\* The retry never makes the target act twice, though an attempt may be lost
\* with its answer, or answered by an instance that is being replaced.
RunsAtMostOnce == \A r \in Requests : executed[r] <= 1

\* What the caller is told is true: a response comes from the one execution, and
\* "unavailable" means that the target was never asked, in neither attempt.  The
\* runs check it as a part of KeepsContract.
OutcomeIsHonest ==
    \A r \in Requests :
        /\ outcome[r] = "ok" => executed[r] = 1
        /\ outcome[r] = "unavailable" => executed[r] = 0

\* Who has taken an entry out of the map and is about to close it.
Takers(e) ==
    {r \in Requests : e \in req[r].retire} \cup (IF e \in doomed THEN {"close"} ELSE {})

\* Every usable entry has one owner: it is mapped, or still used by a request
\* that will retire it, or in the hands of exactly one thread, or closed once.
\* So no session is closed under a request, twice, or never.
OneOwner ==
    \A e \in Live : ready[e] = "ok" =>
        LET kept == mapped[of[e]] = e \/ users[e] > 0
        IN Cardinality(Takers(e)) + closes[e] = (IF kept THEN 0 ELSE 1)

\* _close_entry calls entry.ready.result(): on a pending entry it would block
\* the thread for ever, on a failed one raise somebody else's error.
RetiredIsReady ==
    \A e \in Live : Takers(e) # {} => ready[e] = "ok"

\* When any close() has returned, the runtime was released once, no request is
\* inside, and every session this transport opened was closed.
CloseIsComplete ==
    (\E k \in Closers : closer[k] = "over") =>
        /\ released = 1 /\ active = 0
        /\ \A r \in Requests : req[r].at \in {"idle", "done"}
        /\ \A e \in Live : ready[e] = "ok" => closes[e] = 1

\* Every request ends, whatever becomes of its instances and its transport.
RequestsEnd == \A r \in Requests : At(r, "ensure") ~> At(r, "done")

\* Every close() ends, the concurrent ones too.  (An aclose() may be cancelled; one
\* that is not ends as well, although the cleanup was asked for by one that is.)
ClosesEnd ==
    \A k \in Closers : (closer[k] # "idle") ~> (closer[k] \in {"over", "cancelled"})

-----------------------------------------------------------------------------
(* What the transport promises httpx, and how it keeps the promise.        *)

Place(r) == CASE At(r, "idle") -> "before" [] At(r, "done") -> "over" [] OTHER -> "inside"

Phase == IF done THEN "closed" ELSE IF closing THEN "closing" ELSE "open"

Contract == INSTANCE TransportService
    WITH exact  <- TRUE,
         place  <- [r \in Requests |-> Place(r)],
         asked  <- executed,
         answer <- outcome,
         phase  <- Phase

\* Behind retries, retirements and replaced instances, a request is answered once and
\* truthfully, the target is asked at most once for it and never after the answer, and
\* close() lets nobody in and waits for those inside.
KeepsContract == Contract!Spec
=============================================================================
