------------------------ MODULE SessionRegistryProofs ------------------------
(***************************************************************************)
(* Theorems about SessionRegistry for any sets of sessions and handlers,   *)
(* any idle time and any delay of the cleanup goroutine.                   *)
(***************************************************************************)
EXTENDS SessionRegistry, FiniteSetTheorems, TLAPS

\* h is about to list the session it made, or to close the one it deletes.
Holds(h, s) ==
    handler[h].at \in {"built", "stamped", "deleting"} /\ handler[h].session = s

Calling(s) == {h \in Handlers : handler[h].at = "calling" /\ handler[h].session = s}

\* What a handler works on is a session that was handed out.
Working ==
    \A h \in Handlers :
        IF handler[h].at = "idle" THEN handler[h] = Idle ELSE handler[h].session \in used

\* The map, a handler, the cleanup, Close() and the end are disjoint homes ...
OneHome ==
    /\ \A s \in Sessions : s \in clients => s \notin sweep.expired /\ s \notin closing.taken
    /\ \A s \in Sessions : ~(s \in sweep.expired /\ s \in closing.taken)
    /\ \A h \in Handlers, s \in Sessions :
        Holds(h, s) => /\ s \notin clients /\ s \notin sweep.expired /\ s \notin closing.taken
                       /\ closes[s] = 0
                       /\ \A k \in Handlers \ {h} : ~Holds(k, s)
    /\ \A s \in Sessions :
        s \in clients \/ s \in sweep.expired \/ s \in closing.taken => closes[s] = 0

\* ... and every session handed out has one, and no other session has.
SomeHome ==
    /\ \A s \in Sessions : closes[s] \in {0, 1}
    /\ \A s \in used :
        \/ s \in clients \/ s \in sweep.expired \/ s \in closing.taken
        \/ closes[s] = 1 \/ \E h \in Handlers : Holds(h, s)
    /\ \A s \in Sessions \ used : closes[s] = 0
    /\ sweep.expired \subseteq used /\ closing.taken \subseteq used
    /\ sweep.at # "close" => sweep.expired = {}
    /\ closing.at # "close" => closing.taken = {}

\* activeCalls counts the handlers in a call; the cleanup holds idle sessions only.
Counted ==
    /\ \A s \in Sessions : active[s] = Cardinality(Calling(s))
    /\ SweepSparesActive

\* A session was used no earlier than it was made; the cleanup holds overdue ones only.
Dated ==
    /\ \A s \in Sessions : age[s] <= life[s]
    /\ KeptUntilExpiry

IInv ==
    /\ TypeOK
    /\ Working
    /\ OneHome
    /\ SomeHome
    /\ Counted
    /\ Dated

\* Sets of handlers are finite, so that they can be counted.
LEMMA CallingIsFinite ==
    ASSUME NEW s
    PROVE  /\ IsFiniteSet(Calling(s))
           /\ Cardinality(Calling(s)) \in 0 .. Cardinality(Handlers)
<1>1. Calling(s) \in SUBSET Handlers
  BY DEF Calling
<1>2. IsFiniteSet(Calling(s)) /\ Cardinality(Calling(s)) <= Cardinality(Handlers)
  BY <1>1, FS_Subset, RegistryAssumption
<1>3. QED
  BY <1>2, FS_CardinalityType, RegistryAssumption

\* The registry starts empty.
LEMMA InitIInv == Init => IInv
<1> SUFFICES ASSUME Init PROVE IInv
  OBVIOUS
<1> USE RegistryAssumption DEF Init
<1>1. TypeOK
  <2>1. Cardinality(Handlers) \in Nat
    BY FS_CardinalityType
  <2>2. QED
    BY <2>1 DEF TypeOK, Cap, Idle
<1>2. Working /\ OneHome /\ SomeHome
  BY DEF Working, OneHome, SomeHome, Holds, Idle
<1>3. Counted
  <2>1. \A s \in Sessions : Calling(s) = {}
    BY DEF Calling, Idle
  <2>2. QED
    BY <2>1, FS_EmptySet DEF Counted, SweepSparesActive
<1>4. Dated
  BY DEF Dated, KeptUntilExpiry
<1>5. QED
  BY <1>1, <1>2, <1>3, <1>4 DEF IInv

\* A handler's step leaves the invariant true, whatever the other actors are about.
LEMMA HandlerIInv == ASSUME IInv, NEW h \in Handlers, HandlerStep(h) PROVE IInv'
<1> USE RegistryAssumption DEF IInv, TypeOK, Working
<1>0. handler \in [Handlers -> [at : {"idle", "built", "stamped", "calling", "deleting"},
                               session : Sessions \cup {None}]]
  OBVIOUS
<1> DEFINE Same == \A s \in Sessions : Calling(s)' = Calling(s)
<1>1. CASE CreateBuild(h)
  <2> USE <1>1 DEF CreateBuild, Idle
  <2>1. TypeOK'
    OBVIOUS
  <2>2. Working'
    OBVIOUS
  <2>3. OneHome'
    BY DEF OneHome, SomeHome, Holds
  <2>4. SomeHome'
    BY DEF OneHome, SomeHome, Holds
  <2>5. Counted'
    <3>1. Same
      BY DEF Calling, Idle
    <3>2. QED
      BY <3>1 DEF Counted, SweepSparesActive
  <2>6. Dated'
    BY DEF Dated, KeptUntilExpiry
  <2>7. QED
    BY <2>1, <2>2, <2>3, <2>4, <2>5, <2>6
<1>2. CASE CreateFails(h)
  <2> USE <1>2 DEF CreateFails, CloseSession, Idle
  <2>1. TypeOK'
    BY DEF OneHome, SomeHome, Holds
  <2>2. Working'
    OBVIOUS
  <2>3. OneHome'
    BY DEF OneHome, SomeHome, Holds
  <2>4. SomeHome'
    BY DEF OneHome, SomeHome, Holds
  <2>5. Counted'
    <3>1. Same
      BY DEF Calling, Idle
    <3>2. QED
      BY <3>1 DEF Counted, SweepSparesActive
  <2>6. Dated'
    BY DEF Dated, KeptUntilExpiry
  <2>7. QED
    BY <2>1, <2>2, <2>3, <2>4, <2>5, <2>6
<1>3. CASE CreateStamp(h)
  <2> USE <1>3 DEF CreateStamp
  <2>1. TypeOK'
    BY DEF Cap
  <2>2. Working'
    OBVIOUS
  <2>3. OneHome'
    BY DEF OneHome, SomeHome, Holds
  <2>4. SomeHome'
    BY DEF OneHome, SomeHome, Holds
  <2>5. Counted'
    <3>1. Same
      BY DEF Calling, Idle
    <3>2. QED
      BY <3>1 DEF Counted, SweepSparesActive
  <2>6. Dated'
    BY DEF Dated, KeptUntilExpiry, OneHome, Holds
  <2>7. QED
    BY <2>1, <2>2, <2>3, <2>4, <2>5, <2>6
<1>4. CASE CreateList(h)
  <2> USE <1>4 DEF CreateList, Idle
  <2>1. TypeOK'
    OBVIOUS
  <2>2. Working'
    OBVIOUS
  <2>3. OneHome'
    BY DEF OneHome, SomeHome, Holds
  <2>4. SomeHome'
    BY DEF OneHome, SomeHome, Holds
  <2>5. Counted'
    <3>1. Same
      BY DEF Calling, Idle
    <3>2. QED
      BY <3>1 DEF Counted, SweepSparesActive
  <2>6. Dated'
    BY DEF Dated, KeptUntilExpiry
  <2>7. QED
    BY <2>1, <2>2, <2>3, <2>4, <2>5, <2>6
<1>5. CASE DeleteTake(h)
  <2> USE <1>5 DEF DeleteTake, Idle
  <2>1. TypeOK'
    OBVIOUS
  <2>2. Working'
    OBVIOUS
  <2>3. OneHome'
    BY DEF OneHome, SomeHome, Holds
  <2>4. SomeHome'
    BY DEF OneHome, SomeHome, Holds
  <2>5. Counted'
    <3>1. Same
      BY DEF Calling, Idle
    <3>2. QED
      BY <3>1 DEF Counted, SweepSparesActive
  <2>6. Dated'
    BY DEF Dated, KeptUntilExpiry
  <2>7. QED
    BY <2>1, <2>2, <2>3, <2>4, <2>5, <2>6
<1>6. CASE DeleteClose(h)
  <2> USE <1>6 DEF DeleteClose, CloseSession, Idle
  <2>1. TypeOK'
    BY DEF OneHome, SomeHome, Holds
  <2>2. Working'
    OBVIOUS
  <2>3. OneHome'
    BY DEF OneHome, SomeHome, Holds
  <2>4. SomeHome'
    BY DEF OneHome, SomeHome, Holds
  <2>5. Counted'
    <3>1. Same
      BY DEF Calling, Idle
    <3>2. QED
      BY <3>1 DEF Counted, SweepSparesActive
  <2>6. Dated'
    BY DEF Dated, KeptUntilExpiry
  <2>7. QED
    BY <2>1, <2>2, <2>3, <2>4, <2>5, <2>6
<1>7. CASE RequestBegin(h)
  <2> USE <1>7 DEF RequestBegin, Idle
  <2>1. PICK s \in clients : /\ active' = [active EXCEPT ![s] = @ + 1]
                             /\ age' = [age EXCEPT ![s] = 0]
                             /\ handler' = [handler EXCEPT ![h] =
                                              [at |-> "calling", session |-> s]]
    OBVIOUS
  <2>2. /\ Calling(s)' = Calling(s) \cup {h} /\ h \notin Calling(s)
        /\ \A t \in Sessions \ {s} : Calling(t)' = Calling(t)
    BY <2>1 DEF Calling
  <2>3. Cardinality(Calling(s)') = Cardinality(Calling(s)) + 1
    <3>1. Cardinality(Calling(s) \cup {h}) = Cardinality(Calling(s)) + 1
      BY <2>2, CallingIsFinite, FS_AddElement
    <3>2. QED
      BY <2>2, <3>1
  <2>4. active'[s] = Cardinality(Calling(s)')
    BY <2>1, <2>3 DEF Counted
  <2>5. Cardinality(Calling(s)') \in 0 .. Cardinality(Handlers)
    <3>1. Calling(s)' \in SUBSET Handlers
      BY DEF Calling
    <3>2. QED
      BY <3>1, FS_Subset, FS_CardinalityType
  <2>6. TypeOK'
    BY <2>1, <2>4, <2>5 DEF Cap
  <2>7. Working'
    BY <2>1
  <2>8. OneHome' /\ SomeHome'
    BY <2>1 DEF OneHome, SomeHome, Holds
  <2>9. Counted'
    <3>1. ASSUME NEW t \in Sessions PROVE active'[t] = Cardinality(Calling(t)')
      <4>1. CASE t = s
        BY <2>4, <4>1
      <4>2. CASE t # s
        BY <2>1, <2>2, <4>2 DEF Counted
      <4>3. QED
        BY <4>1, <4>2
    <3>2. SweepSparesActive'
      BY <2>1 DEF Counted, SweepSparesActive, OneHome
    <3>3. QED
      BY <3>1, <3>2 DEF Counted
  <2>10. Dated'
    BY <2>1 DEF Dated, KeptUntilExpiry
  <2>11. QED
    BY <2>6, <2>7, <2>8, <2>9, <2>10
<1>8. CASE RequestEnd(h)
  <2> USE <1>8 DEF RequestEnd, Idle
  <2>1. PICK s \in Sessions : s \in used /\ handler[h].session = s
    OBVIOUS
  <2>2. /\ Calling(s)' = Calling(s) \ {h} /\ h \in Calling(s)
        /\ \A t \in Sessions \ {s} : Calling(t)' = Calling(t)
    BY <2>1 DEF Calling
  <2>3. Cardinality(Calling(s) \ {h}) = Cardinality(Calling(s)) - 1
    BY <2>2, CallingIsFinite, FS_RemoveElement
  <2>4. IsFiniteSet(Calling(s) \ {h})
    BY CallingIsFinite, FS_RemoveElement
  <2>5. Cardinality(Calling(s) \ {h}) \in Nat
    BY <2>4, FS_CardinalityType
  <2>6. active'[s] = Cardinality(Calling(s)') /\ active[s] > 0
    <3>1. active[s] = Cardinality(Calling(s)) /\ Cardinality(Calling(s)) \in Nat
      BY CallingIsFinite DEF Counted
    <3>2. Cardinality(Calling(s)') = Cardinality(Calling(s)) - 1
      BY <2>2, <2>3
    <3>3. active'[s] = active[s] - 1
      BY <2>1
    <3>4. active'[s] = Cardinality(Calling(s)')
      BY <3>1, <3>2, <3>3
    <3>5. active[s] > 0
      BY ONLY <2>3, <2>5, <3>1
    <3>6. QED
      BY <3>4, <3>5
  <2>7. TypeOK'
    <3>1. Cardinality(Handlers) \in Nat
      BY FS_CardinalityType
    <3>2. active[s] - 1 \in 0 .. Cardinality(Handlers)
      BY <2>6, <3>1
    <3>3. active' \in [Sessions -> 0 .. Cardinality(Handlers)]
      BY <2>1, <3>2
    <3>4. QED
      BY <3>3
  <2>8. Working'
    OBVIOUS
  <2>9. OneHome' /\ SomeHome'
    BY DEF OneHome, SomeHome, Holds
  <2>10. Counted'
    <3>1. ASSUME NEW t \in Sessions PROVE active'[t] = Cardinality(Calling(t)')
      <4>1. CASE t = s
        BY <2>6, <4>1
      <4>2. CASE t # s
        BY <2>1, <2>2, <4>2 DEF Counted
      <4>3. QED
        BY <4>1, <4>2
    <3>2. SweepSparesActive'
      BY <2>1, <2>6 DEF Counted, SweepSparesActive
    <3>3. QED
      BY <3>1, <3>2 DEF Counted
  <2>11. Dated'
    BY DEF Dated, KeptUntilExpiry
  <2>12. QED
    BY <2>7, <2>8, <2>9, <2>10, <2>11
<1>9. QED
  BY <1>1, <1>2, <1>3, <1>4, <1>5, <1>6, <1>7, <1>8 DEF HandlerStep

\* Neither does a step of the cleanup goroutine ...
LEMMA SweepIInv == ASSUME IInv, SweepStep PROVE IInv'
<1> USE RegistryAssumption DEF IInv, TypeOK, Working
<1>1. CASE SweepTick \/ SweepStops
  <2> USE <1>1 DEF SweepTick, SweepStops
  <2>1. TypeOK' /\ Working'
    OBVIOUS
  <2>2. sweep'.expired = sweep.expired /\ sweep.at # "close" /\ sweep'.at # "close"
    OBVIOUS
  <2>3. OneHome' /\ SomeHome'
    BY <2>2 DEF OneHome, SomeHome, Holds
  <2>4. Counted' /\ Dated'
    BY <2>2 DEF Counted, Calling, SweepSparesActive, Dated, KeptUntilExpiry
  <2>5. QED
    BY <2>1, <2>3, <2>4
<1>2. CASE SweepScan
  <2> USE <1>2 DEF SweepScan
  <2>1. TypeOK' /\ Working'
    OBVIOUS
  <2>2. /\ clients' = clients \ sweep'.expired /\ sweep'.expired \subseteq clients
        /\ sweep'.at = "close" /\ \A s \in sweep'.expired : Expired(s)
    OBVIOUS
  <2>3. OneHome'
    BY <2>2 DEF OneHome, Holds
  <2>4. SomeHome'
    BY <2>2 DEF SomeHome, Holds
  <2>5. Counted'
    BY <2>2 DEF Counted, Calling, SweepSparesActive, Expired
  <2>6. Dated'
    BY <2>2 DEF Dated, KeptUntilExpiry, Expired, Cap
  <2>7. QED
    BY <2>1, <2>3, <2>4, <2>5, <2>6
<1>3. CASE SweepClose
  <2> USE <1>3 DEF SweepClose, CloseSession
  <2>1. TypeOK' /\ Working'
    BY DEF OneHome
  <2>2. OneHome' /\ SomeHome'
    BY DEF OneHome, SomeHome, Holds
  <2>3. Counted' /\ Dated'
    BY DEF Counted, Calling, SweepSparesActive, Dated, KeptUntilExpiry
  <2>4. QED
    BY <2>1, <2>2, <2>3
<1>4. CASE SweepDone
  <2> USE <1>4 DEF SweepDone
  <2>1. TypeOK' /\ Working'
    OBVIOUS
  <2>2. OneHome' /\ SomeHome'
    BY DEF OneHome, SomeHome, Holds
  <2>3. Counted' /\ Dated'
    BY DEF Counted, Calling, SweepSparesActive, Dated, KeptUntilExpiry
  <2>4. QED
    BY <2>1, <2>2, <2>3
<1>5. QED
  BY <1>1, <1>2, <1>3, <1>4 DEF SweepStep

\* ... or of Close().
LEMMA CloseIInv == ASSUME IInv, CloseStep PROVE IInv'
<1> USE RegistryAssumption DEF IInv, TypeOK, Working
<1>1. CASE CloseTake \/ CloseDone
  <2> USE <1>1 DEF CloseTake, CloseDone
  <2>1. TypeOK' /\ Working'
    OBVIOUS
  <2>2. OneHome' /\ SomeHome'
    BY DEF OneHome, SomeHome, Holds
  <2>3. Counted' /\ Dated'
    BY DEF Counted, Calling, SweepSparesActive, Dated, KeptUntilExpiry
  <2>4. QED
    BY <2>1, <2>2, <2>3
<1>2. CASE CloseEach
  <2> USE <1>2 DEF CloseEach, CloseSession
  <2>1. TypeOK' /\ Working'
    BY DEF OneHome
  <2>2. OneHome' /\ SomeHome'
    BY DEF OneHome, SomeHome, Holds
  <2>3. Counted' /\ Dated'
    BY DEF Counted, Calling, SweepSparesActive, Dated, KeptUntilExpiry
  <2>4. QED
    BY <2>1, <2>2, <2>3
<1>3. QED
  BY <1>1, <1>2 DEF CloseStep

\* Ages grow together and stop at the same bound.
LEMMA ClockIInv == ASSUME IInv, TimePasses PROVE IInv'
<1> USE RegistryAssumption
    DEF IInv, TypeOK, Working, TimePasses, SweepLags, TickLags, Older, Cap
<1>1. TypeOK'
  <2>1. age' \in [Sessions -> 0 .. Cap] /\ life' \in [Sessions -> 0 .. Cap]
    OBVIOUS
  <2>2. tick' \in (0 .. MaxLag) \cup {None} /\ countdown' \in 1 .. IdleTTL
    <3>1. /\ countdown \in 1 .. IdleTTL /\ IdleTTL \in Nat \ {0} /\ MaxLag \in Nat
          /\ tick \in (0 .. MaxLag) \cup {None}
          /\ tick # None => tick # MaxLag
      OBVIOUS
    <3>2. CASE sweep.at = "over"
      <4>1. countdown' = countdown /\ tick' = tick
        BY <3>2
      <4>2. QED
        BY <3>1, <4>1
    <3>3. CASE sweep.at # "over"
      <4>1. countdown' = IF countdown = 1 THEN IdleTTL ELSE countdown - 1
        BY <3>3
      <4>2. countdown' \in 1 .. IdleTTL
        BY ONLY <3>1, <4>1
      <4>3. tick' = IF tick # None THEN tick + 1 ELSE IF countdown = 1 THEN 0 ELSE None
        BY <3>3
      <4>4. tick' \in (0 .. MaxLag) \cup {None}
        BY ONLY <3>1, <4>3
      <4>5. QED
        BY <4>2, <4>4
    <3>4. QED
      BY <3>2, <3>3
  <2>3. sweep' \in [at : {"select", "scan", "close", "over"}, lag : 0 .. MaxLag,
                    expired : SUBSET Sessions]
    <3>1. CASE sweep.at = "scan"
      <4>1. sweep.lag + 1 \in 0 .. MaxLag
        <5>1. sweep.lag \in 0 .. MaxLag /\ sweep.lag # MaxLag
          BY <3>1
        <5>2. QED
          BY ONLY <5>1, RegistryAssumption
      <4>2. sweep' = [at |-> sweep.at, lag |-> sweep.lag + 1, expired |-> sweep.expired]
        BY <3>1
      <4>3. QED
        BY <4>1, <4>2
    <3>2. CASE sweep.at # "scan"
      BY <3>2
    <3>3. QED
      BY <3>1, <3>2
  <2>4. QED
    BY <2>1, <2>2, <2>3
<1>2. Working'
  OBVIOUS
<1>3. sweep'.expired = sweep.expired /\ sweep'.at = sweep.at
  OBVIOUS
<1>4. OneHome' /\ SomeHome'
  BY <1>3 DEF OneHome, SomeHome, Holds
<1>5. Counted'
  BY <1>3 DEF Counted, Calling, SweepSparesActive
<1>6. Dated'
  BY <1>3 DEF Dated, KeptUntilExpiry
<1>7. QED
  BY <1>1, <1>2, <1>4, <1>5, <1>6

\* So IInv is inductive.
LEMMA StepIInv == IInv /\ [Next]_vars => IInv'
<1> SUFFICES ASSUME IInv, [Next]_vars PROVE IInv'
  OBVIOUS
<1>1. CASE Next
  BY <1>1, HandlerIInv, SweepIInv, CloseIInv, ClockIInv DEF Next
<1>2. CASE UNCHANGED vars
  <2> USE <1>2 DEF vars, IInv
  <2>1. TypeOK' /\ Working'
    BY DEF TypeOK, Working
  <2>2. OneHome' /\ SomeHome'
    BY DEF OneHome, SomeHome, Holds
  <2>3. Counted' /\ Dated'
    BY DEF Counted, Calling, SweepSparesActive, Dated, KeptUntilExpiry
  <2>4. QED
    BY <2>1, <2>2, <2>3
<1>3. QED
  BY <1>1, <1>2

\* One home for each session means one closer: the takers of a session are the one it
\* is with, if it is with one, and none otherwise.
LEMMA HomesGiveOneCloser == IInv => OneCloser
<1> SUFFICES ASSUME IInv, NEW s \in used
             PROVE  LET unborn == \E h \in Handlers :
                                      /\ handler[h].at \in {"built", "stamped"}
                                      /\ handler[h].session = s
                    IN /\ closes[s] <= 1
                       /\ Cardinality(Takers(s)) + closes[s]
                            = (IF s \in clients \/ unborn THEN 0 ELSE 1)
  BY DEF OneCloser
<1> DEFINE unborn == \E h \in Handlers : /\ handler[h].at \in {"built", "stamped"}
                                        /\ handler[h].session = s
<1> USE DEF IInv, OneHome, SomeHome, Holds
<1>1. s \in Sessions /\ closes[s] \in {0, 1}
  BY DEF TypeOK
<1>2. CASE s \in clients \/ unborn
  <2>1. closes[s] = 0 /\ Takers(s) = {}
    BY <1>1, <1>2 DEF Takers
  <2>2. QED
    BY <1>2, <2>1, FS_EmptySet
<1>3. CASE ~(s \in clients \/ unborn) /\ closes[s] = 1
  <2>1. Takers(s) = {}
    BY <1>1, <1>3 DEF Takers
  <2>2. QED
    BY <1>3, <2>1, FS_EmptySet
<1>4. CASE ~(s \in clients \/ unborn) /\ closes[s] = 0
  <2>1. CASE s \in sweep.expired
    <3>1. Takers(s) = {"sweep"}
      <4>1. \A h \in Handlers : handler[h] # [at |-> "deleting", session |-> s]
        BY <1>1, <2>1
      <4>2. s \notin closing.taken
        BY <1>1, <2>1
      <4>3. QED
        BY ONLY <2>1, <4>1, <4>2 DEF Takers
    <3>2. Cardinality(Takers(s)) = 1
      BY ONLY <3>1, FS_Singleton
    <3>3. QED
      BY <1>4, <3>2
  <2>2. CASE s \in closing.taken
    <3>1. Takers(s) = {"close"}
      <4>1. \A h \in Handlers : handler[h] # [at |-> "deleting", session |-> s]
        BY <1>1, <2>2
      <4>2. s \notin sweep.expired
        BY <1>1, <2>2
      <4>3. QED
        BY ONLY <2>2, <4>1, <4>2 DEF Takers
    <3>2. Cardinality(Takers(s)) = 1
      BY ONLY <3>1, FS_Singleton
    <3>3. QED
      BY <1>4, <3>2
  <2>3. CASE s \notin sweep.expired /\ s \notin closing.taken
    <3>1. PICK h \in Handlers : handler[h].at = "deleting" /\ handler[h].session = s
      BY <1>4, <2>3
    <3>2. \A k \in Handlers : handler[k] = [at |-> "deleting", session |-> s] <=> k = h
      BY <1>1, <3>1 DEF TypeOK
    <3>3. Takers(s) = {h}
      BY ONLY <2>3, <3>1, <3>2 DEF Takers
    <3>4. Cardinality(Takers(s)) = 1
      BY ONLY <3>3, FS_Singleton
    <3>5. QED
      BY <1>4, <3>4
  <2>4. QED
    BY <2>1, <2>2, <2>3
<1>5. QED
  BY <1>1, <1>2, <1>3, <1>4

\* The inductive invariant holds in every state of the registry.
THEOREM Invariance == Spec => []IInv
BY InitIInv, StepIInv, PTL DEF Spec

\* Counters and ages stay in their bounds, activeCalls in the number of handlers.
THEOREM TypeCorrectness == Spec => []TypeOK
<1>1. IInv => TypeOK
  BY DEF IInv
<1>2. QED
  BY <1>1, Invariance, PTL

\* However Delete, cleanup, Close() and creations that outlive Close() race for it, a
\* session has one closer, and is closed once.
THEOREM ClosedOnce == Spec => []OneCloser
BY HomesGiveOneCloser, Invariance, PTL

\* The cleanup never holds a session with a request in flight.
THEOREM ActiveIsSpared == Spec => []SweepSparesActive
<1>1. IInv => SweepSparesActive
  BY DEF IInv, Counted
<1>2. QED
  BY <1>1, Invariance, PTL

\* The cleanup never takes a session within idleTTL of its creation, however late it
\* comes to handle a tick.
THEOREM ExpiryIsKept == Spec => []KeptUntilExpiry
<1>1. IInv => KeptUntilExpiry
  BY DEF IInv, Dated
<1>2. QED
  BY <1>1, Invariance, PTL
=============================================================================
