----------------------- MODULE AsyncManagedTransport -----------------------
(***************************************************************************)
(* The asynchronous managed transport of src/python/gohttpx.py:            *)
(* _ManagedAsyncGoTransport, with the _ManagedState it shares with         *)
(* ManagedTransport.  Requests are coroutines of one event loop, so a step *)
(* goes from one await that suspends to the next, and every such await is  *)
(* a place where the request may be cancelled.  Only the runtime moves     *)
(* underneath, in its own thread.                                          *)
(*                                                                         *)
(* An entry is closed by a task of its own, which the closer awaits behind *)
(* a shield; aclose() awaits one shared cleanup task in the same way.      *)
(* The inner transport makes its session in its first call and deletes it  *)
(* in aclose() (see AsyncGoTransport), and the service may drop it at any  *)
(* time.  Here session[e] is "reaped" once a call has found out.           *)
(***************************************************************************)
EXTENDS ManagedTransport

VARIABLES
    task,    \* each entry's transport.aclose() task; _retiring are the running ones
    cleanup, \* _cleanup: where _run_close is
    tended,  \* the entry whose task _run_close awaits
    lost     \* history: entries a cancelled request took with it

tasks     == <<task, cleanup, tended, lost>>
asyncVars == <<vars, tasks>>

AsyncTypeOK ==
    /\ service \in Instances \cup {None} /\ issued \in 0 .. MaxInstances /\ closed \in BOOLEAN
    /\ mapped \in [Instances -> Entries \cup {None}] /\ made \in 0 .. Cardinality(Entries)
    /\ of \in [Entries -> Instances \cup {None}] /\ ready \in [Entries -> {"none", "ok"}]
    /\ users \in [Entries -> 0 .. Cardinality(Requests)] /\ closes \in [Entries -> 0 .. 1]
    /\ session \in [Entries -> {"none", "listed", "reaped"}]
    /\ req \in [Requests ->
                 [at : {"idle", "ensure", "prune", "call", "retire", "done"},
                  attempt : 1 .. 2, instance : Instances \cup {None},
                  entry : Entries \cup {None}, retire : SUBSET Entries,
                  result : Results \cup {"cancelled", None}]]
    /\ executed \in [Requests -> 0 .. 2]
    /\ outcome \in [Requests -> Results \cup {"cancelled", None}]
    /\ active \in 0 .. Cardinality(Requests) /\ closing \in BOOLEAN /\ done \in BOOLEAN
    /\ closer \in [Closers -> {"idle", "waiting", "over", "cancelled"}]
    /\ doomed \subseteq Entries /\ released \in 0 .. 1
    /\ task \in [Entries -> {"none", "running", "over"}]
    /\ cleanup \in {"none", "created", "polling", "closing", "over"}
    /\ tended \in Entries \cup {None} /\ lost \subseteq Entries

\* The constructor only acquires the runtime: nothing is started, no entry made.
AsyncInit ==
    /\ service = None /\ issued = 0 /\ closed = FALSE
    /\ mapped = [i \in Instances |-> None] /\ made = 0
    /\ of = [e \in Entries |-> None] /\ ready = [e \in Entries |-> "none"]
    /\ users = [e \in Entries |-> 0] /\ closes = [e \in Entries |-> 0]
    /\ session = [e \in Entries |-> "none"]
    /\ req = [r \in Requests |-> [at |-> "idle", attempt |-> 1, instance |-> None,
                                  entry |-> None, retire |-> {}, result |-> None]]
    /\ executed = [r \in Requests |-> 0] /\ outcome = [r \in Requests |-> None]
    /\ active = 0 /\ closing = FALSE /\ done = FALSE
    /\ closer = [k \in Closers |-> "idle"] /\ doomed = {} /\ released = 0
    /\ task = [e \in Entries |-> "none"] /\ cleanup = "none" /\ tended = None /\ lost = {}

-----------------------------------------------------------------------------
(* The tasks that close entries.                                           *)

\* _close_entry up to its await: the task is created.
StartClosing(e) ==
    /\ closes' = [closes EXCEPT ![e] = @ + 1]
    /\ task' = [task EXCEPT ![e] = "running"]

NoClosing == UNCHANGED <<closes, task>>

\* transport.aclose() ends, with an error or without.
TaskEnds(e) ==
    /\ task[e] = "running"
    /\ task' = [task EXCEPT ![e] = "over"]
    /\ UNCHANGED <<runtime, mapped, made, of, ready, users, closes, session, calls, ending,
                   cleanup, tended, lost>>

-----------------------------------------------------------------------------
(* handle_async_request.                                                   *)

AsyncBegin(r) == Begin(r) /\ UNCHANGED tasks

\* _checkout: the factory only builds an object here, so that an entry is never
\* seen pending, and the inner call begins before anybody else runs.
Checkout(r, i) ==
    LET e == IF mapped[i] = None THEN made + 1 ELSE mapped[i]
    IN /\ made' = IF mapped[i] = None THEN e ELSE made
       /\ of' = [of EXCEPT ![e] = i] /\ ready' = [ready EXCEPT ![e] = "ok"]
       /\ mapped' = [mapped EXCEPT ![i] = e]
       /\ users' = [users EXCEPT ![e] = @ + 1]
       /\ session' = IF mapped[i] = None THEN [session EXCEPT ![e] = "listed"] ELSE session
       /\ req' = [req EXCEPT ![r].at = "call", ![r].instance = None, ![r].entry = e]

\* The retired entry r closes now; it keeps the rest of them to itself.
PruneOne(r, i, old) ==
    \E e \in old :
        /\ StartClosing(e)
        /\ req' = [req EXCEPT ![r].at = "prune", ![r].instance = i, ![r].entry = e,
                              ![r].retire = old \ {e}]

\* ensure_async() answers with the instance of this moment, and _prune follows.
EnsureAnswers(r) ==
    /\ At(r, "ensure") /\ service # None /\ ~closed
    /\ LET old == Unused(service)
       IN IF old = {}
          THEN Checkout(r, service) /\ NoClosing
          ELSE /\ PruneOne(r, service, old)
               /\ mapped' = [i \in Instances |-> IF mapped[i] \in old THEN None ELSE mapped[i]]
               /\ UNCHANGED <<made, of, ready, users, session>>
    /\ UNCHANGED <<runtime, executed, outcome, active, ending, cleanup, tended, lost>>

\* The awaited task is over: the next entry, or, when all are closed, the call,
\* with an instance that may have been replaced meanwhile.
PruneGoesOn(r) ==
    /\ At(r, "prune") /\ task[req[r].entry] = "over"
    /\ IF req[r].retire = {}
       THEN Checkout(r, req[r].instance) /\ NoClosing
       ELSE /\ PruneOne(r, req[r].instance, req[r].retire)
            /\ UNCHANGED <<mapped, made, of, ready, users, session>>
    /\ UNCHANGED <<runtime, executed, outcome, active, ending, cleanup, tended, lost>>

\* The outer finally, with _finish.
Ended(r, result) ==
    /\ req' = [req EXCEPT ![r] = [at |-> "done", attempt |-> 1, instance |-> None,
                                  entry |-> None, retire |-> {}, result |-> None]]
    /\ outcome' = [outcome EXCEPT ![r] = Raised(result)]
    /\ active' = active - 1

\* What follows an attempt: the second one, or the end.
After(r, result) ==
    IF Retried(r, result)
    THEN /\ req' = [req EXCEPT ![r] = Proceed(r, result)]
         /\ UNCHANGED <<outcome, active>>
    ELSE Ended(r, result)

\* aread() raises, or ensure_async() does.
EnsureFails(r) ==
    /\ At(r, "ensure")
    /\ \E error \in {"unavailable", "error"} : Ended(r, error)
    /\ UNCHANGED <<runtime, entries, executed, ending, tasks>>

\* Mutant of ReleaseEntry: the entry is closed only if the call was not cancelled.
ReleaseEntryUnlessCancelled(r, result) ==
    LET e == req[r].entry
    IN /\ users' = [users EXCEPT ![e] = @ - 1]
       /\ mapped' = IF req[r].attempt = 1 /\ result = "notfound" THEN Unmap(e) ELSE mapped
       /\ IF Released(e) /\ result # "cancelled"
          THEN /\ StartClosing(e)
               /\ req' = [req EXCEPT ![r].at = "retire", ![r].result = result]
               /\ UNCHANGED <<outcome, active>>
          ELSE After(r, result) /\ NoClosing

\* The inner finally: who leaves an unmapped entry last starts to close it.
ReleaseEntry(r, result) ==
    LET e == req[r].entry
    IN /\ users' = [users EXCEPT ![e] = @ - 1]
       /\ mapped' = IF req[r].attempt = 1 /\ result = "notfound" THEN Unmap(e) ELSE mapped
       /\ IF Released(e)
          THEN /\ StartClosing(e)
               /\ req' = [req EXCEPT ![r].at = "retire", ![r].result = result]
               /\ UNCHANGED <<outcome, active>>
          ELSE After(r, result) /\ NoClosing

\* The inner handle_async_request returns or raises.
CallEnds(r) ==
    /\ At(r, "call")
    /\ \E result \in Results, ran \in 0 .. 1 :
        /\ result = "unavailable" => ran = 0
        /\ result = "notfound" => ran = 0
        /\ result = "ok" => ran = 1
        /\ ran = 1 => session[req[r].entry] = "listed"
        /\ executed' = [executed EXCEPT ![r] = @ + ran]
        /\ session' = IF result = "notfound" THEN [session EXCEPT ![req[r].entry] = "reaped"]
                      ELSE session
        /\ ReleaseEntry(r, result)
    /\ UNCHANGED <<runtime, made, of, ready, ending, cleanup, tended, lost>>

RetireEnds(r) ==
    /\ At(r, "retire") /\ task[req[r].entry] = "over"
    /\ After(r, req[r].result)
    /\ UNCHANGED <<runtime, entries, executed, ending, tasks>>

\* CancelledError at the await of the inner call: the target may have been asked.
CancelCall(r) ==
    /\ At(r, "call")
    /\ \E ran \in 0 .. 1 :
        /\ ran = 1 => session[req[r].entry] = "listed"
        /\ executed' = [executed EXCEPT ![r] = @ + ran]
    /\ ReleaseEntry(r, "cancelled")
    /\ UNCHANGED <<runtime, made, of, ready, session, ending, cleanup, tended, lost>>

\* CancelledError at any other await.  The task that is awaited goes on behind its
\* shield; of the entries still to be closed nobody knows any more.
Cancel(r) ==
    /\ req[r].at \in {"ensure", "prune", "retire"}
    /\ lost' = lost \cup req[r].retire
    /\ Ended(r, "cancelled")
    /\ UNCHANGED <<runtime, entries, executed, ending, task, cleanup, tended>>

-----------------------------------------------------------------------------
(* aclose() and _run_close.                                                *)

Aclose(k) ==
    /\ closer[k] = "idle" /\ MoreCalls
    /\ closer' = [closer EXCEPT ![k] = "waiting"]
    /\ cleanup' = IF cleanup = "none" THEN "created" ELSE cleanup
    /\ UNCHANGED <<runtime, entries, calls, closing, done, doomed, released, task, tended, lost>>

AcloseReturns(k) ==
    /\ closer[k] = "waiting" /\ cleanup = "over"
    /\ closer' = [closer EXCEPT ![k] = "over"]
    /\ UNCHANGED <<runtime, entries, calls, closing, done, doomed, released, tasks>>

\* Mutant of AcloseCancelled: without the shield the cleanup dies with its waiter.
AcloseCancelledUnshielded(k) ==
    /\ closer[k] = "waiting" /\ cleanup # "over"
    /\ closer' = [closer EXCEPT ![k] = "cancelled"]
    /\ cleanup' = "none"
    /\ UNCHANGED <<runtime, entries, calls, closing, done, doomed, released, task, tended, lost>>

\* A waiter is cancelled: the shared cleanup is shielded from it.
AcloseCancelled(k) ==
    /\ closer[k] = "waiting" /\ cleanup # "over"
    /\ closer' = [closer EXCEPT ![k] = "cancelled"]
    /\ UNCHANGED <<runtime, entries, calls, closing, done, doomed, released, tasks>>

CleanupStarts ==
    /\ cleanup = "created" /\ cleanup' = "polling" /\ closing' = TRUE
    /\ UNCHANGED <<runtime, entries, calls, done, closer, doomed, released, task, tended, lost>>

\* Mutant of CleanupTakes: requests inside are not waited for.
CleanupTakesEager ==
    /\ cleanup = "polling" /\ cleanup' = "closing"
    /\ doomed' = {mapped[i] : i \in {j \in Instances : mapped[j] # None}}
    /\ mapped' = [i \in Instances |-> None]
    /\ UNCHANGED <<runtime, made, of, ready, users, closes, session, calls,
                   closing, done, closer, released, task, tended, lost>>

\* A poll that finds no active request.
CleanupTakes ==
    /\ cleanup = "polling" /\ active = 0
    /\ cleanup' = "closing"
    /\ doomed' = {mapped[i] : i \in {j \in Instances : mapped[j] # None}}
    /\ mapped' = [i \in Instances |-> None]
    /\ UNCHANGED <<runtime, made, of, ready, users, closes, session, calls,
                   closing, done, closer, released, task, tended, lost>>

Tended == tended # None => task[tended] = "over"

CleanupCloses ==
    /\ cleanup = "closing" /\ Tended
    /\ \E e \in doomed :
        /\ StartClosing(e)
        /\ doomed' = doomed \ {e} /\ tended' = e
    /\ UNCHANGED <<runtime, mapped, made, of, ready, users, session, calls,
                   closing, done, closer, released, cleanup, lost>>

\* Mutant of CleanupEnds: no gather of the tasks that requests left behind.
CleanupEndsEarly ==
    /\ cleanup = "closing" /\ doomed = {} /\ Tended
    /\ cleanup' = "over" /\ done' = TRUE /\ released' = released + 1
    /\ UNCHANGED <<runtime, entries, calls, closing, closer, doomed, task, tended, lost>>

\* gather(*_retiring): the tasks whose requests were cancelled are waited for, too.
CleanupEnds ==
    /\ cleanup = "closing" /\ doomed = {} /\ Tended
    /\ \A e \in Entries : task[e] # "running"
    /\ cleanup' = "over" /\ done' = TRUE /\ released' = released + 1
    /\ UNCHANGED <<runtime, entries, calls, closing, closer, doomed, task, tended, lost>>

-----------------------------------------------------------------------------
AsyncRequestStep(r) ==
    EnsureAnswers(r) \/ EnsureFails(r) \/ PruneGoesOn(r) \/ CallEnds(r) \/ RetireEnds(r)

CleanupStep == CleanupStarts \/ CleanupTakes \/ CleanupCloses \/ CleanupEnds

AsyncNext ==
    \/ RuntimeStep /\ UNCHANGED tasks
    \/ \E e \in Live : TaskEnds(e)
    \/ \E r \in Requests : AsyncBegin(r) \/ AsyncRequestStep(r) \/ CancelCall(r) \/ Cancel(r)
    \/ \E k \in Closers : Aclose(k) \/ AcloseReturns(k) \/ AcloseCancelled(k)
    \/ CleanupStep

AsyncSpec == AsyncInit /\ [][AsyncNext]_asyncVars

-----------------------------------------------------------------------------
(* Properties, beside RunsAtMostOnce and OutcomeIsHonest.                  *)

\* OneOwner under cancellation: an entry is mapped or used, or in the hands of
\* exactly one coroutine, or closed once, or it was lost by a cancelled prune.
\* There is no other way to lose one.
OwnedOrLost ==
    \A e \in Live :
        LET kept == mapped[of[e]] = e \/ users[e] > 0
            given == Cardinality(Takers(e)) + closes[e] + (IF e \in lost THEN 1 ELSE 0)
        IN given = (IF kept THEN 0 ELSE 1)

\* When aclose() returns, to whomever: the runtime was released once, no request is
\* inside, no task is left behind, and every entry was closed or lost before.
CleanupIsComplete ==
    (\E k \in Closers : closer[k] = "over") =>
        /\ released = 1 /\ active = 0
        /\ \A r \in Requests : req[r].at \in {"idle", "done"}
        /\ \A e \in Live : task[e] = "over" \/ e \in lost

\* The cleanup reaches its end although coroutines that asked for it are cancelled,
\* the first of them and even all, while requests end, are cancelled or retire entries
\* under its polls.
CleanupSurvivesWaiters == cleanup # "none" ~> cleanup = "over"
=============================================================================
