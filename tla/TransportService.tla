-------------------------- MODULE TransportService --------------------------
(***************************************************************************)
(* What httpx may rely on when it hands its requests to a transport of the *)
(* SDK, whichever of the four classes it is, and without the sessions,     *)
(* instances, retries and rebuilds behind it: a request that got in is     *)
(* answered once and truthfully, the target is asked at most once on its   *)
(* behalf and not after its answer, and a close lets those that are inside *)
(* end, and nobody in.                                                     *)
(***************************************************************************)
EXTENDS Naturals

CONSTANTS Requests, None

VARIABLES
    exact,   \* the transport serves one instance, and says what it does not know
    place,   \* each request: before, inside, over
    asked,   \* how often the target was asked on behalf of each
    answer,  \* what each request returned or raised
    phase    \* open, closing, closed

tvars == <<exact, place, asked, answer, phase>>

Answers == {"ok", "unavailable", "unknown", "notfound", "error", "cancelled"}

\* A response comes from the one exchange with the target, a service that does not
\* know the session did not ask it, and, from an exact transport, "unavailable"
\* means that it was not asked either.
Truthful(a, n) ==
    /\ a = "ok" => n = 1
    /\ a = "notfound" => n = 0
    /\ exact /\ a = "unavailable" => n = 0

Init ==
    /\ exact \in BOOLEAN
    /\ place = [r \in Requests |-> "before"] /\ asked = [r \in Requests |-> 0]
    /\ answer = [r \in Requests |-> None] /\ phase = "open"

Enter(r) ==
    /\ place[r] = "before" /\ phase = "open"
    /\ place' = [place EXCEPT ![r] = "inside"]
    /\ UNCHANGED <<exact, asked, answer, phase>>

Refuse(r) ==
    /\ place[r] = "before" /\ phase # "open"
    /\ place' = [place EXCEPT ![r] = "over"]
    /\ answer' = [answer EXCEPT ![r] = "unavailable"]
    /\ UNCHANGED <<exact, asked, phase>>

Ask(r) ==
    /\ place[r] = "inside" /\ asked[r] = 0
    /\ asked' = [asked EXCEPT ![r] = 1]
    /\ UNCHANGED <<exact, place, answer, phase>>

\* The target may be asked, or not, in the very step that ends the request.
Answer(r) ==
    /\ place[r] = "inside"
    /\ place' = [place EXCEPT ![r] = "over"]
    /\ \E a \in Answers, n \in {asked[r], 1} :
        /\ Truthful(a, n)
        /\ asked' = [asked EXCEPT ![r] = n]
        /\ answer' = [answer EXCEPT ![r] = a]
    /\ UNCHANGED <<exact, phase>>

StartClosing ==
    /\ phase = "open" /\ phase' = "closing"
    /\ UNCHANGED <<exact, place, asked, answer>>

Close ==
    /\ phase = "closing" /\ phase' = "closed"
    /\ \A r \in Requests : place[r] # "inside"
    /\ UNCHANGED <<exact, place, asked, answer>>

Next ==
    \/ \E r \in Requests : Enter(r) \/ Refuse(r) \/ Ask(r) \/ Answer(r)
    \/ StartClosing \/ Close

Spec == Init /\ [][Next]_tvars
=============================================================================
