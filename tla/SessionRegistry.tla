--------------------------- MODULE SessionRegistry ---------------------------
(***************************************************************************)
(* The session registry of src/api.go: the map server.clients, the HTTP    *)
(* handlers that create, use and delete sessions, the goroutine cleanupLoop *)
(* that reaps idle ones and server.Close().                                *)
(*                                                                         *)
(* A step is one critical section of server.mu, or what a goroutine does   *)
(* between two of them.  session.mu nests in server.mu and guards only the *)
(* two fields read and written within a step here.                         *)
(*                                                                         *)
(* Times are ages relative to now, so that the clock may run for ever:     *)
(* age[s] is now - lastUsed, and a pending tick knows how long ago it was  *)
(* sent.  Ages stop counting once they exceed all that is compared to them.*)
(***************************************************************************)
EXTENDS Naturals, FiniteSets

CONSTANTS
    Sessions,  \* bound: the client ids that may be handed out
    Handlers,  \* bound: HTTP requests in progress at once
    IdleTTL,   \* idleTTL, and the period of the cleanup ticker
    MaxLag,    \* bound: how old a tick may be when the cleanup reads the map
    None

ASSUME RegistryAssumption ==
    /\ IdleTTL \in Nat \ {0}
    /\ MaxLag \in Nat
    /\ None \notin Sessions
    /\ IsFiniteSet(Handlers) /\ Handlers \cap {"sweep", "close"} = {}

VARIABLES
    clients,   \* the map: the listed sessions
    used,      \* ids handed out so far (newClientID never repeats one)
    age,       \* now - lastUsed of each session
    active,    \* activeCalls of each session
    closes,    \* how often close() ran on each session
    handler,   \* what each HTTP request is doing, and to which session
    tick,      \* the one-place channel of the ticker: age of the tick, or None
    countdown, \* time until the ticker fires next
    sweep,     \* cleanupLoop: where it is, its `now`, the sessions it took out
    closing,   \* Close(): where it is and the sessions it took out
    life       \* history: time since the session was stamped at creation

vars == <<clients, used, age, active, closes, handler, tick, countdown, sweep,
          closing, life>>

Cap == IdleTTL + MaxLag + 1
Older(n) == IF n < Cap THEN n + 1 ELSE Cap

Idle == [at |-> "idle", session |-> None]

TypeOK ==
    /\ clients \subseteq used /\ used \subseteq Sessions
    /\ age \in [Sessions -> 0 .. Cap]
    /\ active \in [Sessions -> 0 .. Cardinality(Handlers)]
    /\ closes \in [Sessions -> 0 .. 3]
    /\ handler \in [Handlers -> [at : {"idle", "built", "stamped", "calling", "deleting"},
                                 session : Sessions \cup {None}]]
    /\ tick \in (0 .. MaxLag) \cup {None}
    /\ countdown \in 1 .. IdleTTL
    /\ sweep \in [at : {"select", "scan", "close", "over"}, lag : 0 .. MaxLag,
                  expired : SUBSET Sessions]
    /\ closing \in [at : {"open", "close", "closed"}, taken : SUBSET Sessions]
    /\ life \in [Sessions -> 0 .. Cap]

Init ==
    /\ clients = {} /\ used = {}
    /\ age = [s \in Sessions |-> 0]
    /\ active = [s \in Sessions |-> 0]
    /\ closes = [s \in Sessions |-> 0]
    /\ handler = [h \in Handlers |-> Idle]
    /\ tick = None /\ countdown = IdleTTL
    /\ sweep = [at |-> "select", lag |-> 0, expired |-> {}]
    /\ closing = [at |-> "open", taken |-> {}]
    /\ life = [s \in Sessions |-> 0]

CloseSession(s) == closes' = [closes EXCEPT ![s] = @ + 1]

-----------------------------------------------------------------------------
(* The HTTP handlers.                                                      *)

\* handleCreateClient: a valid configuration has become a client.
CreateBuild(h) ==
    /\ handler[h] = Idle
    /\ \E s \in Sessions \ used :
        /\ used' = used \cup {s}
        /\ handler' = [handler EXCEPT ![h] = [at |-> "built", session |-> s]]
    /\ UNCHANGED <<clients, age, active, closes, tick, countdown, sweep, closing, life>>

\* newClientID failed: the session is closed and never listed.
CreateFails(h) ==
    /\ handler[h].at = "built"
    /\ CloseSession(handler[h].session)
    /\ handler' = [handler EXCEPT ![h] = Idle]
    /\ UNCHANGED <<clients, used, age, active, tick, countdown, sweep, closing, life>>

\* lastUsed is taken before the lock is ...
CreateStamp(h) ==
    /\ handler[h].at = "built"
    /\ LET s == handler[h].session
       IN /\ age' = [age EXCEPT ![s] = 0]
          /\ life' = [life EXCEPT ![s] = 0]
    /\ handler' = [handler EXCEPT ![h].at = "stamped"]
    /\ UNCHANGED <<clients, used, active, closes, tick, countdown, sweep, closing>>

\* ... and the session is listed under it, whether or not the server was closed.
CreateList(h) ==
    /\ handler[h].at = "stamped"
    /\ clients' = clients \cup {handler[h].session}
    /\ handler' = [handler EXCEPT ![h] = Idle]
    /\ UNCHANGED <<used, age, active, closes, tick, countdown, sweep, closing, life>>

\* handleDeleteClient: take the session out of the map under the lock ...
DeleteTake(h) ==
    /\ handler[h] = Idle
    /\ \E s \in clients :
        /\ clients' = clients \ {s}
        /\ handler' = [handler EXCEPT ![h] = [at |-> "deleting", session |-> s]]
    /\ UNCHANGED <<used, age, active, closes, tick, countdown, sweep, closing, life>>

\* ... and close it outside.  A session not listed is answered 204 as well.
DeleteClose(h) ==
    /\ handler[h].at = "deleting"
    /\ CloseSession(handler[h].session)
    /\ handler' = [handler EXCEPT ![h] = Idle]
    /\ UNCHANGED <<clients, used, age, active, tick, countdown, sweep, closing, life>>

\* handleRawRequest under the read lock: the call is counted before it starts.
\* A session not listed is answered CLIENT_NOT_FOUND and nothing changes.
RequestBegin(h) ==
    /\ handler[h] = Idle
    /\ \E s \in clients :
        /\ active' = [active EXCEPT ![s] = @ + 1]
        /\ age' = [age EXCEPT ![s] = 0]
        /\ handler' = [handler EXCEPT ![h] = [at |-> "calling", session |-> s]]
    /\ UNCHANGED <<clients, used, closes, tick, countdown, sweep, closing, life>>

\* The deferred decrement, however the call ended.
RequestEnd(h) ==
    /\ handler[h].at = "calling"
    /\ active' = [active EXCEPT ![handler[h].session] = @ - 1]
    /\ handler' = [handler EXCEPT ![h] = Idle]
    /\ UNCHANGED <<clients, used, age, closes, tick, countdown, sweep, closing, life>>

-----------------------------------------------------------------------------
(* The cleanup goroutine.                                                  *)

\* case now := <-ticker.C
SweepTick ==
    /\ sweep.at = "select" /\ tick # None
    /\ sweep' = [sweep EXCEPT !.at = "scan", !.lag = tick]
    /\ tick' = None
    /\ UNCHANGED <<clients, used, age, active, closes, handler, countdown, closing, life>>

\* case <-s.done, and the deferred ticker.Stop().
SweepStops ==
    /\ sweep.at = "select" /\ closing.at # "open"
    /\ sweep' = [sweep EXCEPT !.at = "over"]
    /\ tick' = None
    /\ UNCHANGED <<clients, used, age, active, closes, handler, countdown, closing, life>>

\* Mutants of Expired: running calls do not count, or >= is written for >.
ExpiredInUse(s) == age[s] > IdleTTL + sweep.lag
ExpiredAtOnce(s) == active[s] = 0 /\ age[s] >= IdleTTL + sweep.lag

\* now.Sub(lastUsed) > idleTTL, for the tick's now.
Expired(s) == active[s] = 0 /\ age[s] > IdleTTL + sweep.lag

\* Mutant of SweepScan: expired sessions stay in the map.
SweepScanKeeps ==
    /\ sweep.at = "scan"
    /\ sweep' = [at |-> "close", lag |-> 0, expired |-> {s \in clients : Expired(s)}]
    /\ UNCHANGED <<clients, used, age, active, closes, handler, tick, countdown, closing,
                   life>>

\* The loop over the map, under the write lock.
SweepScan ==
    /\ sweep.at = "scan"
    /\ LET out == {s \in clients : Expired(s)}
       IN /\ clients' = clients \ out
          /\ sweep' = [at |-> "close", lag |-> 0, expired |-> out]
    /\ UNCHANGED <<used, age, active, closes, handler, tick, countdown, closing, life>>

\* The expired sessions are closed one by one, without the lock.
SweepClose ==
    /\ sweep.at = "close" /\ sweep.expired # {}
    /\ \E s \in sweep.expired :
        /\ CloseSession(s)
        /\ sweep' = [sweep EXCEPT !.expired = @ \ {s}]
    /\ UNCHANGED <<clients, used, age, active, handler, tick, countdown, closing, life>>

\* Mutant of SweepDone: the goroutine ends after its first tick.
SweepDoneQuits ==
    /\ sweep.at = "close" /\ sweep.expired = {}
    /\ sweep' = [sweep EXCEPT !.at = "over"]
    /\ UNCHANGED <<clients, used, age, active, closes, handler, tick, countdown, closing,
                   life>>

SweepDone ==
    /\ sweep.at = "close" /\ sweep.expired = {}
    /\ sweep' = [sweep EXCEPT !.at = "select"]
    /\ UNCHANGED <<clients, used, age, active, closes, handler, tick, countdown, closing,
                   life>>

-----------------------------------------------------------------------------
(* server.Close(), at most once: main and runManaged call it when Shutdown *)
(* is over, or has timed out with handlers still running.                  *)

CloseTake ==
    /\ closing.at = "open"
    /\ closing' = [at |-> "close", taken |-> clients]
    /\ clients' = {}
    /\ UNCHANGED <<used, age, active, closes, handler, tick, countdown, sweep, life>>

CloseEach ==
    /\ closing.at = "close" /\ closing.taken # {}
    /\ \E s \in closing.taken :
        /\ CloseSession(s)
        /\ closing' = [closing EXCEPT !.taken = @ \ {s}]
    /\ UNCHANGED <<clients, used, age, active, handler, tick, countdown, sweep, life>>

CloseDone ==
    /\ closing.at = "close" /\ closing.taken = {}
    /\ closing' = [closing EXCEPT !.at = "closed"]
    /\ UNCHANGED <<clients, used, age, active, closes, handler, tick, countdown, sweep,
                   life>>

-----------------------------------------------------------------------------
(* The clock.  A tick finding the channel full is dropped.                 *)

SweepLags == sweep.at = "scan" /\ sweep.lag = MaxLag
TickLags  == tick # None /\ tick = MaxLag

TimePasses ==
    /\ ~SweepLags /\ ~TickLags
    /\ age' = [s \in Sessions |-> Older(age[s])]
    /\ life' = [s \in Sessions |-> Older(life[s])]
    /\ sweep' = IF sweep.at = "scan" THEN [sweep EXCEPT !.lag = @ + 1] ELSE sweep
    /\ IF sweep.at = "over"
       THEN UNCHANGED <<countdown, tick>>
       ELSE /\ countdown' = IF countdown = 1 THEN IdleTTL ELSE countdown - 1
            /\ tick' = IF tick # None THEN tick + 1
                       ELSE IF countdown = 1 THEN 0 ELSE None
    /\ UNCHANGED <<clients, used, active, closes, handler, closing>>

-----------------------------------------------------------------------------
HandlerStep(h) ==
    \/ CreateBuild(h) \/ CreateFails(h) \/ CreateStamp(h) \/ CreateList(h)
    \/ DeleteTake(h) \/ DeleteClose(h)
    \/ RequestBegin(h) \/ RequestEnd(h)

SweepStep == SweepTick \/ SweepStops \/ SweepScan \/ SweepClose \/ SweepDone

CloseStep == CloseTake \/ CloseEach \/ CloseDone

Next ==
    \/ \E h \in Handlers : HandlerStep(h)
    \/ SweepStep
    \/ CloseStep
    \/ TimePasses

Spec == Init /\ [][Next]_vars

\* Go schedules its goroutines and time goes on; a handler finishes what it has
\* begun, but nobody has to send a request, and Close() need not be called.
FairSpec ==
    /\ Spec
    /\ WF_vars(TimePasses)
    /\ WF_vars(SweepStep)
    /\ WF_vars(CloseEach \/ CloseDone)
    /\ \A h \in Handlers : WF_vars(CreateFails(h) \/ CreateStamp(h) \/ CreateList(h)
                                    \/ DeleteClose(h))

-----------------------------------------------------------------------------
(* Properties.                                                             *)

\* Who has taken a session out of the map and is about to close it.
Takers(s) ==
    {h \in Handlers : handler[h] = [at |-> "deleting", session |-> s]}
        \cup (IF s \in sweep.expired THEN {"sweep"} ELSE {})
        \cup (IF s \in closing.taken THEN {"close"} ELSE {})

\* Delete, cleanup and Close race for a session, and exactly one of them gets
\* to close it: it is listed, being created, in one taker's hands, or closed once.
OneCloser ==
    \A s \in used :
        LET unborn == \E h \in Handlers :
                          /\ handler[h].at \in {"built", "stamped"}
                          /\ handler[h].session = s
        IN /\ closes[s] <= 1
           /\ Cardinality(Takers(s)) + closes[s]
                = (IF s \in clients \/ unborn THEN 0 ELSE 1)

\* Idle cleanup never closes a session with a request in flight, not even one
\* that began while the cleanup was under way (README: 活动请求不会被空闲清理).
SweepSparesActive == \A s \in sweep.expired : active[s] = 0

\* The cleanup never takes a session before the expires_at its client was told,
\* however stale the tick it works with.
KeptUntilExpiry == \A s \in sweep.expired : life[s] > IdleTTL

\* A session nobody uses any more does not stay listed while the server runs.
AbandonedIsReaped ==
    \A s \in Sessions :
        []<>(s \notin clients \/ active[s] > 0 \/ age[s] = 0 \/ closing.at # "open")
=============================================================================
