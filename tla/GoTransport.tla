---------------------------- MODULE GoTransport ----------------------------
(***************************************************************************)
(* _GoTransport of src/python/gohttpx.py: the threads of one synchronous   *)
(* transport share one session in a Go service, and rebuild it when the    *)
(* service no longer knows it.  In an external transport (managed = FALSE) *)
(* the transport rebuilds by itself; in a managed one, with an instance    *)
(* id, CLIENT_NOT_FOUND goes to the owner: see ManagedTransport.           *)
(*                                                                         *)
(* A step is one critical section of self._condition, or one exchange with *)
(* the service.  The service may forget a session at any time, and lose or *)
(* garble any answer.                                                      *)
(***************************************************************************)
EXTENDS Naturals, FiniteSets

CONSTANTS
    Requests, \* bound: handle_request calls of one behaviour
    Closers,  \* bound: close() calls of one behaviour
    None

\* What handle_request returns or raises: a response, GoServiceUnavailable,
\* GoRequestOutcomeUnknown, CLIENT_NOT_FOUND, any other error.
Results == {"ok", "unavailable", "unknown", "notfound", "error"}

ASSUME GoTransportAssumption == IsFiniteSet(Requests) /\ None \notin Nat \cup Results

VARIABLES
    managed,    \* _instance_id is not None
    opened,     \* how __init__ ended
    sessions,   \* what the service knows of each session this transport asked for
    made,       \* how many those are
    clientId,   \* _client_id
    generation, \* _generation
    rebuilding, \* _rebuilding
    failure,    \* _failed_generation and _rebuild_error
    active,     \* _active
    closing,    \* _closing
    closed,     \* _closed
    req,        \* each request: where it is, and its local variables
    executed,   \* how often the service ran each request against the target
    outcome,    \* what handle_request returned or raised
    closer,     \* where each close() call is
    rebuilds    \* history: the attempts to replace the session of each generation

mode    == <<managed, opened>>
service == <<sessions, made>>
state   == <<clientId, generation, rebuilding, failure, rebuilds>>
calls   == <<active, req, executed, outcome>>
ending  == <<closing, closed, closer>>
vars    == <<mode, service, state, calls, ending>>

\* A request asks for at most two sessions, the constructor for one.
Sessions    == 1 .. (2 * Cardinality(Requests) + 1)
Generations == 0 .. Cardinality(Requests)

\* "stray" sessions exist in the service, but their id never came to be known,
\* or their deletion failed: the service's idle cleanup has to end them.
TypeOK ==
    /\ managed \in BOOLEAN /\ opened \in {"new", "open", "failed"}
    /\ sessions \in [Sessions -> {"none", "listed", "gone", "stray"}]
    /\ made \in 0 .. Cardinality(Sessions)
    /\ clientId \in Sessions \cup {None} /\ generation \in Generations
    /\ rebuilding \in BOOLEAN
    /\ failure \in [generation : Generations \cup {None}, error : Results \cup {None}]
    /\ active \in 0 .. Cardinality(Requests) /\ closing \in BOOLEAN /\ closed \in BOOLEAN
    /\ req \in [Requests -> [at : {"idle", "ensure", "await", "post", "rebuild", "create", "done"},
                             session : Sessions \cup {None}, generation : Generations,
                             resent : BOOLEAN]]
    /\ executed \in [Requests -> 0 .. 2]
    /\ outcome \in [Requests -> Results \cup {"cancelled", None}]
    /\ closer \in [Closers -> {"idle", "draining", "deleting", "waiting", "over"}]
    /\ rebuilds \in [Generations -> Nat]

\* A request before it is made, and when it is over.
Outside(place) == [at |-> place, session |-> None, generation |-> 0, resent |-> FALSE]

Init ==
    /\ managed \in BOOLEAN /\ opened = "new"
    /\ sessions = [s \in Sessions |-> "none"] /\ made = 0
    /\ clientId = None /\ generation = 0 /\ rebuilding = FALSE
    /\ failure = [generation |-> None, error |-> None]
    /\ active = 0 /\ closing = FALSE /\ closed = FALSE
    /\ req = [r \in Requests |-> Outside("idle")]
    /\ executed = [r \in Requests |-> 0] /\ outcome = [r \in Requests |-> None]
    /\ closer = [k \in Closers |-> "idle"]
    /\ rebuilds = [g \in Generations |-> 0]

At(r, place) == req[r].at = place

-----------------------------------------------------------------------------
(* The Go service.                                                         *)

\* Idle cleanup, or a restart of the service.
Reap(s) ==
    /\ sessions[s] = "listed"
    /\ sessions' = [sessions EXCEPT ![s] = "gone"]
    /\ UNCHANGED <<mode, made, state, calls, ending>>

\* How _create_session may end: with a session; refused; with an answer that is
\* lost; or with a bad one, and then the id in it, if any, is deleted if possible.
Creations ==
    [left : {"listed"}, error : {None}] \cup [left : {"none"}, error : {"unavailable", "error"}]
      \cup [left : {"stray"}, error : {"unavailable", "error"}]
      \cup [left : {"gone"}, error : {"error"}]

Leaves(creation) ==
    IF creation.left = "none" THEN UNCHANGED service
    ELSE /\ made' = made + 1
         /\ sessions' = [sessions EXCEPT ![made + 1] = creation.left]

-----------------------------------------------------------------------------
\* __init__: capabilities and a session, or an error and nothing that stays open.
Construct ==
    /\ opened = "new"
    /\ \E creation \in Creations :
        /\ Leaves(creation)
        /\ IF creation.error = None
           THEN opened' = "open" /\ clientId' = made + 1
           ELSE opened' = "failed" /\ UNCHANGED clientId
    /\ UNCHANGED <<managed, generation, rebuilding, failure, rebuilds, calls, ending>>

-----------------------------------------------------------------------------
(* handle_request.                                                         *)

\* Mutant of Ended: a request that fails stays counted.
EndedUncounted(r, result) ==
    /\ req' = [req EXCEPT ![r] = Outside("done")]
    /\ outcome' = [outcome EXCEPT ![r] = result]
    /\ active' = IF result = "ok" THEN active - 1 ELSE active

\* The finally: _active is decremented and everybody is notified.
Ended(r, result) ==
    /\ req' = [req EXCEPT ![r] = Outside("done")]
    /\ outcome' = [outcome EXCEPT ![r] = result]
    /\ active' = active - 1

Refused == closing \/ closed

\* The session and its generation are read together.
Enter(r) ==
    /\ At(r, "idle") /\ opened = "open"
    /\ IF Refused
       THEN /\ req' = [req EXCEPT ![r].at = "done"]
            /\ outcome' = [outcome EXCEPT ![r] = "unavailable"]
            /\ UNCHANGED active
       ELSE /\ req' = [req EXCEPT ![r].at = "post", ![r].session = clientId,
                                  ![r].generation = generation]
            /\ active' = active + 1
            /\ UNCHANGED outcome
    /\ UNCHANGED <<mode, service, state, executed, ending>>

\* What may become of one POST: the response; CLIENT_NOT_FOUND; no connection; no
\* answer; an answer that is not one (wrong instance, bad envelope); an error code.
Answers == {"ok", "notfound", "refused", "lost", "bad", "error"}

\* Mutant of Verdict: a managed transport reports a lost answer as an external one does.
VerdictExternal(answer) ==
    CASE answer \in {"ok", "notfound", "error"} -> answer
      [] answer \in {"refused", "lost"} -> "unavailable"
      [] answer = "bad" -> "error"

\* _call: once it was sent, only an error code says what became of a request; a
\* managed transport admits that.
Verdict(answer) ==
    CASE answer \in {"ok", "notfound", "error"} -> answer
      [] answer = "refused" -> "unavailable"
      [] answer = "lost" -> IF managed THEN "unknown" ELSE "unavailable"
      [] answer = "bad" -> IF managed THEN "unknown" ELSE "error"

Rebuilds(r, answer) == answer = "notfound" /\ ~managed /\ ~req[r].resent

\* The exchange with the service, and what the answer leads to.
Post(r) ==
    /\ At(r, "post")
    /\ \E answer \in Answers, ran \in 0 .. 1 :
        /\ ran = 1 => sessions[req[r].session] = "listed"
        /\ answer = "ok" => ran = 1
        /\ answer = "refused" => ran = 0
        /\ answer = "notfound" => ran = 0 /\ sessions[req[r].session] # "listed"
        /\ executed' = [executed EXCEPT ![r] = @ + ran]
        /\ IF Rebuilds(r, answer)
           THEN req' = [req EXCEPT ![r].at = "rebuild"] /\ UNCHANGED <<active, outcome>>
           ELSE Ended(r, Verdict(answer))
    /\ UNCHANGED <<mode, service, state, ending>>

-----------------------------------------------------------------------------
(* _rebuild.                                                               *)

Resend(r, s) ==
    req' = [req EXCEPT ![r].at = "post", ![r].session = s, ![r].resent = TRUE]

\* Who meant the session that is being replaced now has to wait for the end of it.
Decides(r) ==
    At(r, "rebuild") /\ ~(rebuilding /\ generation = req[r].generation)

\* Somebody else replaced the session meanwhile.
RebuildDone(r) ==
    /\ Decides(r) /\ generation # req[r].generation
    /\ Resend(r, clientId)
    /\ UNCHANGED <<mode, service, state, active, executed, outcome, ending>>

\* Somebody else tried and failed: the error is shared.
RebuildFailed(r) ==
    /\ Decides(r) /\ generation = req[r].generation
    /\ failure.generation = generation
    /\ Ended(r, failure.error)
    /\ UNCHANGED <<mode, service, state, executed, ending>>

RebuildRefused(r) ==
    /\ Decides(r) /\ generation = req[r].generation
    /\ failure.generation # generation
    /\ Refused
    /\ Ended(r, "unavailable")
    /\ UNCHANGED <<mode, service, state, executed, ending>>

RebuildBegins(r) ==
    /\ Decides(r) /\ generation = req[r].generation
    /\ failure.generation # generation
    /\ ~Refused
    /\ rebuilding' = TRUE
    /\ rebuilds' = [rebuilds EXCEPT ![generation] = @ + 1]
    /\ req' = [req EXCEPT ![r].at = "create"]
    /\ UNCHANGED <<mode, service, clientId, generation, failure, active, executed, outcome, ending>>

\* Mutant of RebuildEnds: the failure is not remembered.
RebuildEndsForgets(r) ==
    /\ At(r, "create")
    /\ rebuilding' = FALSE
    /\ \E creation \in Creations :
        /\ Leaves(creation)
        /\ IF creation.error = None
           THEN /\ clientId' = made + 1 /\ generation' = generation + 1
                /\ Resend(r, made + 1)
                /\ UNCHANGED <<active, outcome>>
           ELSE /\ Ended(r, creation.error)
                /\ UNCHANGED <<clientId, generation>>
    /\ UNCHANGED <<mode, failure, rebuilds, executed, ending>>

\* Outside the lock: the new session, or an error for all who meant the old one.
RebuildEnds(r) ==
    /\ At(r, "create")
    /\ rebuilding' = FALSE
    /\ \E creation \in Creations :
        /\ Leaves(creation)
        /\ IF creation.error = None
           THEN /\ clientId' = made + 1 /\ generation' = generation + 1
                /\ failure' = [generation |-> None, error |-> None]
                /\ Resend(r, made + 1)
                /\ UNCHANGED <<active, outcome>>
           ELSE /\ failure' = [generation |-> generation, error |-> creation.error]
                /\ Ended(r, creation.error)
                /\ UNCHANGED <<clientId, generation>>
    /\ UNCHANGED <<mode, rebuilds, executed, ending>>

-----------------------------------------------------------------------------
(* close().                                                                *)

\* A managed owner first forgets the session of an instance that is no longer
\* current; its process ends with it.
CloseBegin(k) ==
    /\ closer[k] = "idle" /\ opened = "open"
    /\ closer' = [closer EXCEPT ![k] = IF closed THEN "over"
                                       ELSE IF closing THEN "waiting" ELSE "draining"]
    /\ closing' = (closing \/ ~closed)
    /\ \/ UNCHANGED <<clientId, sessions>>
       \/ /\ managed /\ ~closing /\ active = 0 /\ clientId # None
          /\ clientId' = None /\ sessions' = [sessions EXCEPT ![clientId] = "gone"]
    /\ UNCHANGED <<mode, made, generation, rebuilding, failure, rebuilds, calls, closed>>

CloseTake(k) ==
    /\ closer[k] = "draining" /\ active = 0
    /\ closer' = [closer EXCEPT ![k] = "deleting"]
    /\ UNCHANGED <<mode, service, state, calls, closing, closed>>

\* The session is deleted if possible, and the control client closed in any case.
CloseDelete(k) ==
    /\ closer[k] = "deleting"
    /\ IF clientId # None /\ sessions[clientId] = "listed"
       THEN \E left \in {"gone", "stray"} : sessions' = [sessions EXCEPT ![clientId] = left]
       ELSE UNCHANGED sessions
    /\ closed' = TRUE
    /\ closer' = [closer EXCEPT ![k] = "over"]
    /\ UNCHANGED <<mode, made, state, calls, closing>>

CloseWaits(k) ==
    /\ closer[k] = "waiting" /\ closed
    /\ closer' = [closer EXCEPT ![k] = "over"]
    /\ UNCHANGED <<mode, service, state, calls, closing, closed>>

-----------------------------------------------------------------------------
RequestStep(r) ==
    \/ Post(r)
    \/ RebuildDone(r) \/ RebuildFailed(r) \/ RebuildRefused(r) \/ RebuildBegins(r) \/ RebuildEnds(r)

CloserStep(k) == CloseTake(k) \/ CloseDelete(k) \/ CloseWaits(k)

Next ==
    \/ Construct
    \/ \E s \in Sessions : Reap(s)
    \/ \E r \in Requests : Enter(r) \/ RequestStep(r)
    \/ \E k \in Closers : CloseBegin(k) \/ CloserStep(k)

Spec == Init /\ [][Next]_vars

-----------------------------------------------------------------------------
(* Properties.                                                             *)

\* The re-send after a rebuild never makes the target act twice, though answers are
\* lost and sessions vanish between any two steps; a response comes from the one
\* execution, and CLIENT_NOT_FOUND means that the target was never asked.  What
\* ManagedTransport relies on: with an instance id "unavailable" means that, too.
\* (An external transport does not promise it.)  Checked as a part of KeepsContract.
OutcomeIsHonest ==
    \A r \in Requests :
        /\ executed[r] <= 1
        /\ outcome[r] = "ok" => executed[r] = 1
        /\ outcome[r] = "notfound" => executed[r] = 0
        /\ managed /\ outcome[r] = "unavailable" => executed[r] = 0

\* The session of one generation is replaced, or fails to be, once for all who
\* found it lost, however their steps interleave.
OneRebuild == \A g \in Generations : rebuilds[g] <= 1

\* The transport never loses sight of a session it knows: what is listed in the
\* service is its session, and nothing is listed any more once it is closed.
NoSessionForgotten ==
    \A s \in Sessions : sessions[s] = "listed" => s = clientId /\ ~closed

\* Every request and every close() comes to an end (there are finitely many): nobody
\* waits for a rebuild that nobody makes, for a request that is gone, or for a close()
\* that is over.
ComesToRest ==
    <>[](active = 0 /\ \A k \in Closers : closer[k] \in {"idle", "over"})

-----------------------------------------------------------------------------
(* What the transport promises httpx, and how it keeps the promise.        *)

Place(r) == CASE At(r, "idle") -> "before" [] At(r, "done") -> "over" [] OTHER -> "inside"

Phase == IF closed THEN "closed" ELSE IF closing THEN "closing" ELSE "open"

Contract == INSTANCE TransportService
    WITH exact  <- managed,
         place  <- [r \in Requests |-> Place(r)],
         asked  <- executed,
         answer <- outcome,
         phase  <- Phase

\* Behind lost sessions, rebuilds and lost answers, a request is answered once and
\* truthfully, the target is asked at most once for it and never after the answer, and
\* close() lets nobody in and waits for those inside.
KeepsContract == Contract!Spec
=============================================================================
