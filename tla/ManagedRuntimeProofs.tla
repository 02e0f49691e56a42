------------------------ MODULE ManagedRuntimeProofs ------------------------
(***************************************************************************)
(* Theorems about ManagedRuntime for any set of clients, any number of     *)
(* launches and any health threshold, with or without operating-system     *)
(* faults.  IInv is the inductive invariant all of them rest on.           *)
(***************************************************************************)
EXTENDS ManagedRuntime, TLAPS

Watching == {"loop", "select", "poll", "inspect", "probe", "crash"}
Holding  == {"poll", "inspect", "probe", "crash", "dispose", "record"}

\* Which child the supervisor answers for, by where it is.
Custody ==
    /\ \A p \in Procs : child[p] = "absent" <=> p > launched
    /\ cur # None => cur <= launched
    /\ \A p \in Procs : Running(p) => p = cur \/ (HasCandidate /\ p = launched)
    /\ HasCandidate => launched \in Procs /\ child[launched] \in {"alive", "exited"}
    /\ HasCandidate \/ pc \in {"unstarted", "launch", "failed"} => cur = None
    /\ pc \in Holding => cur # None
    /\ pc \in Watching \cup {"dispose"} /\ cur # None => child[cur] \in {"alive", "exited"}
    /\ pc = "record" => child[cur] = "closed"
    /\ pc = "finish" /\ cur # None => child[cur] = "closed"

\* What is published is what the supervisor watches.
Publication ==
    /\ current \in {None, cur}
    /\ pc \in Watching => current = cur
    /\ pc \in {"dispose", "record"} => current = None
    /\ pc \in {"final", "finish", "dead"} => state # "RUNNING"
    /\ state = "CLOSED" => stop
    /\ stop \/ current = None => state # "RUNNING"

\* The launch number and the probe counter stay in their bounds.
Counting ==
    /\ starts <= launched
    /\ HasCandidate => starts < launched
    /\ pc = "launch" => launched < MaxLaunches
    /\ errors = bad
    /\ pc \in Watching \ {"crash"} /\ cur # None => errors < HealthFailures
    /\ pc = "inspect" /\ code => child[cur] = "exited"
    /\ pc \in {"abort", "failed"} => reason # "none"

IInv ==
    /\ TypeOK
    /\ Custody
    /\ Publication
    /\ Counting
    /\ RunningIsBacked
    /\ ClosedIsQuiet
    /\ ReplacedWithCause

\* A runtime as __init__ leaves it has no child, no instance and nothing to dispose of.
LEMMA InitIInv == Init => IInv
<1> SUFFICES ASSUME Init PROVE IInv
  OBVIOUS
<1> USE RuntimeAssumption
  DEF Init, Procs, HasCandidate, Running, Watching, Holding
<1>1. TypeOK
  <2>1. /\ backoff \in BOOLEAN /\ wanted \in BOOLEAN /\ pinned \in BOOLEAN
        /\ stop \in BOOLEAN /\ fatal \in BOOLEAN /\ code \in BOOLEAN
    OBVIOUS
  <2>2. child \in [Procs -> ChildStates] /\ held \in [Clients -> Procs \cup {None}]
    BY DEF ChildStates
  <2>3. phase \in [Clients -> {"out", "idle", "waiting", "using"}]
    OBVIOUS
  <2>4. QED
    BY <2>1, <2>2, <2>3 DEF TypeOK, States, PcValues
<1>2. Custody
  BY DEF Custody
<1>3. Publication
  BY DEF Publication
<1>4. Counting
  BY DEF Counting
<1>5. RunningIsBacked
  BY DEF RunningIsBacked
<1>6. ClosedIsQuiet
  BY DEF ClosedIsQuiet
<1>7. ReplacedWithCause
  BY DEF ReplacedWithCause
<1>8. QED
  BY <1>1, <1>2, <1>3, <1>4, <1>5, <1>6, <1>7 DEF IInv

\* Every step of a client, the application, the supervisor and the operating
\* system keeps the inductive invariant.
LEMMA StepIInv == IInv /\ [Next]_vars => IInv'
<1> SUFFICES ASSUME IInv, [Next]_vars PROVE IInv'
  OBVIOUS
<1> USE RuntimeAssumption
  DEF IInv, TypeOK, Custody, Publication, Counting, RunningIsBacked, ClosedIsQuiet,
      ReplacedWithCause, Procs, States, ChildStates, PcValues, HasCandidate, Running,
      Watching, Holding, shared, locals, os, callers, vars
<1>1. ASSUME NEW c \in Clients, Acquire(c) PROVE IInv'
  BY <1>1 DEF Acquire
<1>2. ASSUME NEW c \in Clients, Release(c) PROVE IInv'
  BY <1>2 DEF Release
<1>3. ASSUME NEW c \in Clients, Ensure(c) PROVE IInv'
  BY <1>3 DEF Ensure, RequestReady
<1>4. ASSUME NEW c \in Clients, EnsureRaises(c) PROVE IInv'
  BY <1>4 DEF EnsureRaises
<1>5. ASSUME NEW c \in Clients, RequestEnds(c) PROVE IInv'
  BY <1>5 DEF RequestEnds
<1>6. ASSUME NEW c \in Clients, ReportFault(c) PROVE IInv'
  BY <1>6 DEF ReportFault
<1>7. ASSUME NEW r \in {"config", "unavailable"}, HandshakeFails(r) PROVE IInv'
  BY <1>7 DEF HandshakeFails
<1>8. ASSUME NEW p \in Procs, ChildExits(p) PROVE IInv'
  BY <1>8 DEF ChildExits
<1>9. CASE WarmUp
  BY <1>9 DEF WarmUp, RequestReady
<1>10. CASE Shutdown
  <2>1. TypeOK'
    <3>1. stop' \in BOOLEAN /\ backoff' \in BOOLEAN
      BY <1>10 DEF Shutdown, StateOnStop
    <3>2. QED
      BY <1>10, <3>1 DEF Shutdown, StateOnStop
  <2>2. Custody'
    BY <1>10 DEF Shutdown, StateOnStop
  <2>3. Publication'
    BY <1>10 DEF Shutdown, StateOnStop
  <2>4. Counting'
    BY <1>10 DEF Shutdown, StateOnStop
  <2>5. RunningIsBacked'
    BY <1>10 DEF Shutdown, StateOnStop
  <2>6. ClosedIsQuiet'
    BY <1>10 DEF Shutdown, StateOnStop
  <2>7. ReplacedWithCause'
    BY <1>10 DEF Shutdown, StateOnStop
  <2>8. QED
    BY <2>1, <2>2, <2>3, <2>4, <2>5, <2>6, <2>7
<1>11. CASE ShutdownReturns
  BY <1>11 DEF ShutdownReturns
<1>12. CASE ShutdownTimesOut
  BY <1>12 DEF ShutdownTimesOut
<1>13. CASE LoopTest
  BY <1>13 DEF LoopTest
<1>14. CASE SelectWait
  BY <1>14 DEF SelectWait, Demand
<1>15. CASE SelectLaunch
  BY <1>15 DEF SelectLaunch, Demand
<1>16. CASE SelectWatch
  BY <1>16 DEF SelectWatch
<1>17. CASE LaunchRefused
  BY <1>17 DEF LaunchRefused
<1>18. CASE LaunchSpawn
  BY <1>18 DEF LaunchSpawn
<1>19. CASE HandshakeReady
  BY <1>19 DEF HandshakeReady
<1>20. CASE AbortCloses
  BY <1>20 DEF AbortCloses, CloseOk
<1>21. CASE AbortTimesOut
  BY <1>21 DEF AbortTimesOut, CloseTimesOut
<1>22. CASE LaunchFailed
  <2>1. TypeOK'
    <3>1. fatal' \in BOOLEAN /\ backoff' \in BOOLEAN
      BY <1>22 DEF LaunchFailed
    <3>2. QED
      BY <1>22, <3>1 DEF LaunchFailed
  <2>2. Custody'
    BY <1>22 DEF LaunchFailed
  <2>3. Publication'
    BY <1>22 DEF LaunchFailed
  <2>4. Counting'
    BY <1>22 DEF LaunchFailed
  <2>5. RunningIsBacked'
    BY <1>22 DEF LaunchFailed
  <2>6. ClosedIsQuiet'
    BY <1>22 DEF LaunchFailed
  <2>7. ReplacedWithCause'
    BY <1>22 DEF LaunchFailed
  <2>8. QED
    BY <2>1, <2>2, <2>3, <2>4, <2>5, <2>6, <2>7
<1>23. CASE Publish
  <2>1. TypeOK'
    <3>1. backoff' \in BOOLEAN
      BY <1>23 DEF Publish, MayPublish
    <3>2. starts' \in 0 .. MaxLaunches /\ errors' \in 0 .. HealthFailures
      BY <1>23 DEF Publish, MayPublish
    <3>3. QED
      BY <1>23, <3>1, <3>2 DEF Publish, MayPublish
  <2>2. Custody'
    BY <1>23 DEF Publish, MayPublish
  <2>3. Publication'
    BY <1>23 DEF Publish, MayPublish
  <2>4. Counting'
    BY <1>23 DEF Publish, MayPublish
  <2>5. RunningIsBacked'
    BY <1>23 DEF Publish, MayPublish
  <2>6. ClosedIsQuiet'
    BY <1>23 DEF Publish, MayPublish
  <2>7. ReplacedWithCause'
    BY <1>23 DEF Publish, MayPublish
  <2>8. QED
    BY <2>1, <2>2, <2>3, <2>4, <2>5, <2>6, <2>7
<1>24. CASE PublishCancelled
  BY <1>24 DEF PublishCancelled, MayPublish
<1>25. CASE Discard
  BY <1>25 DEF Discard, CloseOk, CloseTimesOut
<1>26. CASE Poll
  <2>1. TypeOK'
    BY <1>26 DEF Poll
  <2>2. Custody'
    BY <1>26 DEF Poll
  <2>3. Publication'
    BY <1>26 DEF Poll
  <2>4. Counting'
    BY <1>26 DEF Poll
  <2>5. RunningIsBacked'
    BY <1>26 DEF Poll
  <2>6. ClosedIsQuiet'
    BY <1>26 DEF Poll
  <2>7. ReplacedWithCause'
    BY <1>26 DEF Poll
  <2>8. QED
    BY <2>1, <2>2, <2>3, <2>4, <2>5, <2>6, <2>7
<1>27. CASE PollFails
  BY <1>27 DEF PollFails
<1>28. CASE Inspect
  BY <1>28 DEF Inspect
<1>29. CASE ProbeOk
  BY <1>29 DEF ProbeOk
<1>30. CASE ProbeFails
  BY <1>30 DEF ProbeFails
<1>31. CASE Withdraw
  BY <1>31 DEF Withdraw
<1>32. CASE Dispose
  BY <1>32 DEF Dispose, CloseOk, CloseTimesOut
<1>33. CASE RecordCrash
  BY <1>33 DEF RecordCrash
<1>34. CASE Broken
  BY <1>34 DEF Broken
<1>35. CASE FinalDispose
  <2>1. TypeOK'
    BY <1>35 DEF FinalDispose, CloseOk, CloseTimesOut
  <2>2. Custody'
    <3>1. CASE child' = child
      BY <1>35, <3>1 DEF FinalDispose, CloseOk, CloseTimesOut
    <3>2. CASE cur # None /\ CloseOk(cur) /\ pc' = "finish"
      BY <1>35, <3>2 DEF FinalDispose, CloseOk
    <3>3. CASE cur # None /\ CloseTimesOut(cur) /\ pc' = "dead"
      BY <1>35, <3>3 DEF FinalDispose, CloseTimesOut
    <3>4. QED
      BY <1>35, <3>1, <3>2, <3>3 DEF FinalDispose
  <2>3. Publication'
    BY <1>35 DEF FinalDispose, CloseOk, CloseTimesOut
  <2>4. Counting'
    BY <1>35 DEF FinalDispose, CloseOk, CloseTimesOut
  <2>5. RunningIsBacked'
    BY <1>35 DEF FinalDispose, CloseOk, CloseTimesOut
  <2>6. ClosedIsQuiet'
    BY <1>35 DEF FinalDispose, CloseOk, CloseTimesOut
  <2>7. ReplacedWithCause'
    BY <1>35 DEF FinalDispose, CloseOk, CloseTimesOut
  <2>8. QED
    BY <2>1, <2>2, <2>3, <2>4, <2>5, <2>6, <2>7
<1>36. CASE Finish
  BY <1>36 DEF Finish
<1>37. CASE BackoffElapses
  <2>1. TypeOK'
    <3>1. backoff' \in BOOLEAN
      BY <1>37 DEF BackoffElapses
    <3>2. QED
      BY <1>37, <3>1 DEF BackoffElapses
  <2>2. Custody'
    BY <1>37 DEF BackoffElapses
  <2>3. Publication'
    BY <1>37 DEF BackoffElapses
  <2>4. Counting'
    BY <1>37 DEF BackoffElapses
  <2>5. RunningIsBacked'
    BY <1>37 DEF BackoffElapses
  <2>6. ClosedIsQuiet'
    BY <1>37 DEF BackoffElapses
  <2>7. ReplacedWithCause'
    BY <1>37 DEF BackoffElapses
  <2>8. QED
    BY <2>1, <2>2, <2>3, <2>4, <2>5, <2>6, <2>7
<1>38. CASE UNCHANGED vars
  BY <1>38
<1>39. QED
  BY <1>1, <1>2, <1>3, <1>4, <1>5, <1>6, <1>7, <1>8, <1>9, <1>10, <1>11, <1>12, <1>13, <1>14, <1>15, <1>16, <1>17, <1>18, <1>19, <1>20, <1>21, <1>22, <1>23, <1>24, <1>25, <1>26, <1>27, <1>28, <1>29, <1>30, <1>31, <1>32, <1>33, <1>34, <1>35, <1>36, <1>37, <1>38
  DEF Next, ClientStep, ApplicationStep, SupervisorStep, LaunchStep, WatchStep, EnvironmentStep

-----------------------------------------------------------------------------
(* The theorems.                                                           *)

\* The inductive invariant holds: at every point of the supervisor's loop it is
\* known which child may be alive and who is responsible for closing it.
THEOREM Invariance == Spec => []IInv
  BY InitIInv, StepIInv, PTL DEF Spec

\* The variables of the supervisor and of its callers keep their types.
THEOREM TypeCorrectness == Spec => []TypeOK
  BY Invariance, PTL DEF IInv

\* Whatever the operating system does, two children never run under open Jobs.
THEOREM SingleChild == Spec => []OneLiveChild
<1>1. IInv => OneLiveChild
  BY RuntimeAssumption DEF IInv, Custody, OneLiveChild, Procs
<1>2. QED
  BY <1>1, Invariance, PTL

\* RUNNING is never shown over an instance that was disposed of.
THEOREM BackedStatus == Spec => []RunningIsBacked
  BY Invariance, PTL DEF IInv

\* CLOSED means no thread, no instance, no live child.
THEOREM QuietEnd == Spec => []ClosedIsQuiet
  BY Invariance, PTL DEF IInv

\* An instance is given up only for its own exit or its own failed probes.
THEOREM CauseForReplacement == Spec => []ReplacedWithCause
  BY Invariance, PTL DEF IInv

\* Nothing is published after shutdown(), and CLOSED is final.
THEOREM Termination == Spec => NoRevival
<1> DEFINE Step == /\ stop => current' \in {current, None}
                   /\ state = "CLOSED" => state' = "CLOSED" /\ launched' = launched
<1>1. IInv /\ [Next]_vars => [Step]_vars
  <2> SUFFICES ASSUME IInv, Next PROVE Step
    OBVIOUS
  <2>1. stop => current' \in {current, None}
    BY DEF Next, ClientStep, ApplicationStep, SupervisorStep, LaunchStep, WatchStep,
           EnvironmentStep, shared, locals, os, callers,
           Acquire, Release, Ensure, EnsureRaises, RequestEnds, ReportFault, WarmUp,
           RequestReady, Shutdown, StateOnStop, ShutdownReturns, ShutdownTimesOut, LoopTest,
           SelectWait, SelectLaunch, SelectWatch, LaunchRefused, LaunchSpawn,
           HandshakeReady, HandshakeFails, AbortCloses, AbortTimesOut, LaunchFailed,
           Publish, MayPublish, PublishCancelled, Discard, Poll, PollFails, Inspect, ProbeOk,
           ProbeFails, Withdraw, Dispose, RecordCrash, Broken, FinalDispose, Finish,
           BackoffElapses, ChildExits
  <2>2. ASSUME state = "CLOSED" PROVE state' = "CLOSED" /\ launched' = launched
    <3>1. pc \in {"unstarted", "dead"} /\ stop
      BY <2>2 DEF IInv, ClosedIsQuiet, Publication
    <3>2. QED
      BY <2>2, <3>1
      DEF Next, ClientStep, ApplicationStep, SupervisorStep, LaunchStep, WatchStep,
           EnvironmentStep, shared, locals, os, callers,
           Acquire, Release, Ensure, EnsureRaises, RequestEnds, ReportFault, WarmUp,
           RequestReady, Shutdown, StateOnStop, ShutdownReturns, ShutdownTimesOut, LoopTest,
           SelectWait, SelectLaunch, SelectWatch, LaunchRefused, LaunchSpawn,
           HandshakeReady, HandshakeFails, AbortCloses, AbortTimesOut, LaunchFailed,
           Publish, MayPublish, PublishCancelled, Discard, Poll, PollFails, Inspect, ProbeOk,
           ProbeFails, Withdraw, Dispose, RecordCrash, Broken, FinalDispose, Finish,
           BackoffElapses, ChildExits
  <2>3. QED
    BY <2>1, <2>2
<1>2. QED
  BY <1>1, Invariance, PTL DEF Spec, NoRevival

\* The supervisor implements the service of RuntimeService: a spawn is invisible,
\* a launch that fails burns its number, and every other step withdraws,
\* publishes, closes or changes nothing.
THEOREM Refinement == Spec => ImplementsService
<1> DEFINE number == IF HasCandidate THEN launched - 1 ELSE launched
           same == UNCHANGED <<current, number, stop>>
<1> USE DEF HasCandidate
<1>1. Init => Service!Init
  BY DEF Init, Service!Init
<1>2. IInv /\ [Next]_vars => [Service!Next]_(Service!svars)
  <2> SUFFICES ASSUME IInv, [Next]_vars
               PROVE  Service!Next \/ same
    BY DEF Service!svars
  <2> USE RuntimeAssumption DEF IInv, TypeOK, Procs
  <2>1. ASSUME NEW c \in Clients, ClientStep(c) PROVE same
    BY <2>1 DEF ClientStep, Acquire, Release, Ensure, EnsureRaises, RequestEnds,
                ReportFault, RequestReady, shared, locals, os
  <2>2. CASE WarmUp \/ ShutdownReturns \/ ShutdownTimesOut
    BY <2>2 DEF WarmUp, RequestReady, ShutdownReturns, ShutdownTimesOut, shared, locals, os
  <2>3. CASE Shutdown
    <3>1. UNCHANGED <<current, number>> /\ stop' = TRUE
      BY <2>3 DEF Shutdown, StateOnStop, locals, os
    <3>2. CASE stop
      BY <3>1, <3>2
    <3>3. CASE ~stop
      BY <3>1, <3>3 DEF Service!Next, Service!Close
    <3>4. QED
      BY <3>2, <3>3
  <2>4. CASE LaunchSpawn
    BY <2>4 DEF LaunchSpawn, shared
  <2>5. CASE AbortCloses \/ AbortTimesOut \/ Discard
    <3>1. current = None /\ HasCandidate
      BY <2>5 DEF AbortCloses, AbortTimesOut, Discard, Custody, Publication
    <3>2. number' = number + 1 /\ UNCHANGED <<current, stop>>
      BY <2>5 DEF AbortCloses, AbortTimesOut, Discard, shared
    <3>3. QED
      BY <3>1, <3>2 DEF Service!Next, Service!Burn
  <2>6. CASE Publish
    <3>1. current = None /\ launched \in Nat
      BY <2>6 DEF Publish, MayPublish, Custody, Publication
    <3>2. number' = number + 1 /\ current' = number + 1 /\ ~stop /\ stop' = stop
      BY <2>6, <3>1 DEF Publish, MayPublish, os
    <3>3. QED
      BY <3>1, <3>2 DEF Service!Next, Service!Publish
  <2>7. CASE Withdraw
    <3>1. current # None
      BY <2>7 DEF Withdraw, Custody, Publication, Watching, Holding
    <3>2. current' = None /\ UNCHANGED <<number, stop>>
      BY <2>7 DEF Withdraw, os
    <3>3. QED
      BY <3>1, <3>2 DEF Service!Next, Service!Withdraw
  <2>8. CASE Finish
    <3>1. current' = None /\ UNCHANGED <<number, stop>>
      BY <2>8 DEF Finish, os
    <3>2. QED
      BY <3>1 DEF Service!Next, Service!Withdraw
  <2>9. CASE LaunchRefused \/ HandshakeReady \/ LaunchFailed \/ PublishCancelled
    BY <2>9 DEF LaunchRefused, HandshakeReady, LaunchFailed, PublishCancelled, MayPublish, shared, os
  <2>10. ASSUME NEW r \in {"config", "unavailable"}, HandshakeFails(r) PROVE same
    BY <2>10 DEF HandshakeFails, shared, os
  <2>11. CASE LoopTest \/ SelectWait \/ SelectLaunch \/ SelectWatch \/ Broken \/ FinalDispose
    BY <2>11 DEF LoopTest, SelectWait, SelectLaunch, SelectWatch, Broken, FinalDispose,
                 shared, os
  <2>12. CASE Poll \/ PollFails \/ Inspect \/ ProbeOk \/ ProbeFails \/ Dispose \/ RecordCrash
    BY <2>12 DEF Poll, PollFails, Inspect, ProbeOk, ProbeFails, Dispose, RecordCrash,
                 shared, os
  <2>13. CASE EnvironmentStep
    BY <2>13 DEF EnvironmentStep, BackoffElapses, ChildExits, shared, locals, os
  <2>14. CASE UNCHANGED vars
    BY <2>14 DEF vars, shared, locals, os
  <2>15. QED
    BY <2>1, <2>2, <2>3, <2>4, <2>5, <2>6, <2>7, <2>8, <2>9, <2>10, <2>11, <2>12,
       <2>13, <2>14
    DEF Next, ApplicationStep, SupervisorStep, LaunchStep, WatchStep
<1>3. QED
  BY <1>1, <1>2, Invariance, PTL DEF Spec, ImplementsService, Service!Spec

-----------------------------------------------------------------------------
(* The instances that requests use.                                        *)

\* The supervisor answers for the newest child or for none, and a request uses
\* the instance it answers for or one that was reaped.
Retained ==
    /\ cur # None => cur = launched
    /\ \A c \in Clients :
          held[c] # None => /\ held[c] <= launched
                            /\ held[c] = cur \/ child[held[c]] = "closed"

\* Every step keeps Retained: only a dispose that succeeded leads on to the next
\* launch, which is where the supervisor lets go of `cur`.
LEMMA StepRetained == IInv /\ Retained /\ [Next]_vars => Retained'
<1> SUFFICES ASSUME IInv, Retained, [Next]_vars PROVE Retained'
  OBVIOUS
<1> USE RuntimeAssumption
  DEF IInv, TypeOK, Custody, Publication, Retained, Procs, HasCandidate, Watching, Holding,
      shared, locals, os, callers, vars
<1>1. ASSUME NEW c \in Clients, ClientStep(c) PROVE Retained'
  <2>1. UNCHANGED <<cur, launched, child>>
    BY <1>1 DEF ClientStep, Acquire, Release, Ensure, EnsureRaises, RequestEnds, ReportFault,
                RequestReady
  <2>2. \A d \in Clients : held'[d] \in {held[d], None, current}
    BY <1>1 DEF ClientStep, Acquire, Release, Ensure, EnsureRaises, RequestEnds, ReportFault,
                RequestReady, Ready
  <2>3. current # None => current = cur /\ cur = launched
    OBVIOUS
  <2>4. QED
    BY <2>1, <2>2, <2>3
<1>2. CASE ApplicationStep
  BY <1>2 DEF ApplicationStep, WarmUp, RequestReady, Shutdown, ShutdownReturns, ShutdownTimesOut
<1>3. CASE LoopTest \/ SelectWait \/ SelectLaunch \/ SelectWatch
  BY <1>3 DEF LoopTest, SelectWait, SelectLaunch, SelectWatch
<1>4. CASE LaunchSpawn
  <2>1. cur = None /\ cur' = None /\ held' = held /\ launched' = launched + 1
    BY <1>4 DEF LaunchSpawn
  <2>2. \A p \in Procs : p <= launched => child'[p] = child[p]
    BY <1>4 DEF LaunchSpawn
  <2>3. QED
    BY <2>1, <2>2
<1>5. CASE LaunchRefused \/ HandshakeReady \/ LaunchFailed \/ PublishCancelled
  BY <1>5 DEF LaunchRefused, HandshakeReady, LaunchFailed, PublishCancelled
<1>6. ASSUME NEW r \in {"config", "unavailable"}, HandshakeFails(r) PROVE Retained'
  BY <1>6 DEF HandshakeFails
<1>7. CASE AbortCloses \/ AbortTimesOut \/ Discard
  BY <1>7 DEF AbortCloses, AbortTimesOut, Discard, CloseOk, CloseTimesOut
<1>8. CASE Publish
  BY <1>8 DEF Publish
<1>9. CASE Poll \/ PollFails \/ Inspect \/ ProbeOk \/ ProbeFails
  BY <1>9 DEF Poll, PollFails, Inspect, ProbeOk, ProbeFails
<1>10. CASE Withdraw \/ RecordCrash \/ Broken \/ Finish
  BY <1>10 DEF Withdraw, RecordCrash, Broken, Finish
<1>11. CASE Dispose \/ FinalDispose
  BY <1>11 DEF Dispose, FinalDispose, CloseOk, CloseTimesOut
<1>12. CASE EnvironmentStep
  BY <1>12 DEF EnvironmentStep, BackoffElapses, ChildExits
<1>13. CASE UNCHANGED vars
  BY <1>13
<1>14. QED
  BY <1>1, <1>2, <1>3, <1>4, <1>5, <1>6, <1>7, <1>8, <1>9, <1>10, <1>11, <1>12, <1>13
  DEF Next, SupervisorStep, LaunchStep, WatchStep

\* When a child is created, every instance that a request still uses was reaped:
\* a close() that fails ends the supervisor, so that no successor is launched
\* beside an instance in use that may still be running.
THEOREM SuccessorsComeAfter == Spec => []ReplacedInstanceIsGone
<1>1. Init => Retained
  BY DEF Init, Retained
<1>2. IInv /\ Retained => ReplacedInstanceIsGone
  BY RuntimeAssumption DEF IInv, TypeOK, Procs, Retained, ReplacedInstanceIsGone
<1>3. QED
  BY <1>1, <1>2, StepRetained, Invariance, PTL DEF Spec

-----------------------------------------------------------------------------
(* Without faults of the operating system.  ~faulty says that              *)
(* GetExitCodeProcess never fails and that a child whose Job was closed    *)
(* exits within the 5 s that close() waits; ShutdownCompletes does not     *)
(* hold of other runs (see the run runtime_stuck_stopping).                *)

\* Who is left when every close() succeeds: nobody but the child the supervisor
\* answers for, and nobody at all once its thread is about to end.
Reaped ==
    ~faulty =>
        /\ \A p \in Procs : child[p] # "killed"
        /\ \A p \in Procs : child[p] = "exited" => p = cur \/ (HasCandidate /\ p = launched)
        /\ pc # "broken"
        /\ pc \in {"finish", "dead"} => \A p \in Procs : child[p] \in {"absent", "closed"}
        /\ pc = "unstarted" => launched = 0

\* The way to the end leads through stop, and shutdown() waits for it.
Stopping ==
    ~faulty =>
        /\ pc \in {"discard", "final", "finish", "dead"} => stop
        /\ closer # "none" => stop
        /\ stop /\ pc = "unstarted" => state = "CLOSED"
        /\ pc = "dead" => state = "CLOSED"
        /\ closer = "returned" => pc \in {"unstarted", "dead"}

\* Whether the OS is faulty does not change.
LEMMA FaultsAreFixed == [Next]_vars => faulty' = faulty
<1> SUFFICES ASSUME [Next]_vars PROVE faulty' = faulty
  OBVIOUS
<1>1. QED
  BY DEF Next, ClientStep, ApplicationStep, SupervisorStep, LaunchStep, WatchStep,
         EnvironmentStep, vars, shared, locals, os, callers,
         Acquire, Release, Ensure, EnsureRaises, RequestEnds, ReportFault, WarmUp,
         RequestReady, Shutdown, ShutdownReturns, ShutdownTimesOut, LoopTest,
         SelectWait, SelectLaunch, SelectWatch, LaunchRefused, LaunchSpawn,
         HandshakeReady, HandshakeFails, AbortCloses, AbortTimesOut, LaunchFailed,
         Publish, PublishCancelled, Discard, Poll, PollFails, Inspect, ProbeOk,
         ProbeFails, Withdraw, Dispose, RecordCrash, Broken, FinalDispose, Finish,
         BackoffElapses, ChildExits

\* Custody without the record of who is exited but not yet reaped is not enough:
\* Reaped adds that, and Stopping that the thread ends for one reason only.
LEMMA StepReaped == IInv /\ Reaped /\ Stopping /\ [Next]_vars => Reaped' /\ Stopping'
<1> SUFFICES ASSUME IInv, Reaped, Stopping, [Next]_vars, ~faulty, ~faulty'
             PROVE  Reaped' /\ Stopping'
  BY FaultsAreFixed DEF Reaped, Stopping
<1> USE RuntimeAssumption
  DEF IInv, TypeOK, Custody, Publication, Reaped, Stopping, Procs, ChildStates, PcValues,
      HasCandidate, Running, Watching, Holding, shared, locals, os, callers, vars
<1>1. ASSUME NEW c \in Clients, ClientStep(c) PROVE Reaped' /\ Stopping'
  BY <1>1 DEF ClientStep, Acquire, Release, Ensure, EnsureRaises, RequestEnds, ReportFault,
              RequestReady
<1>2. CASE WarmUp \/ ShutdownReturns \/ ShutdownTimesOut
  BY <1>2 DEF WarmUp, RequestReady, ShutdownReturns, ShutdownTimesOut
<1>3. CASE Shutdown
  BY <1>3 DEF Shutdown, StateOnStop
<1>4. CASE LoopTest \/ SelectWait \/ SelectLaunch \/ SelectWatch
  BY <1>4 DEF LoopTest, SelectWait, SelectLaunch, SelectWatch
<1>5. CASE LaunchSpawn
  BY <1>5 DEF LaunchSpawn
<1>6. CASE LaunchRefused \/ HandshakeReady \/ LaunchFailed
  BY <1>6 DEF LaunchRefused, HandshakeReady, LaunchFailed
<1>7. ASSUME NEW r \in {"config", "unavailable"}, HandshakeFails(r) PROVE Reaped' /\ Stopping'
  BY <1>7 DEF HandshakeFails
<1>8. CASE AbortCloses \/ AbortTimesOut \/ Discard
  BY <1>8 DEF AbortCloses, AbortTimesOut, Discard, CloseOk, CloseTimesOut
<1>9. CASE Publish \/ PublishCancelled
  BY <1>9 DEF Publish, PublishCancelled, MayPublish
<1>10. CASE Poll \/ PollFails \/ Inspect \/ ProbeOk \/ ProbeFails
  BY <1>10 DEF Poll, PollFails, Inspect, ProbeOk, ProbeFails
<1>11. CASE Withdraw \/ RecordCrash \/ Broken \/ Finish
  BY <1>11 DEF Withdraw, RecordCrash, Broken, Finish
<1>12. CASE Dispose \/ FinalDispose
  BY <1>12 DEF Dispose, FinalDispose, CloseOk, CloseTimesOut
<1>13. CASE EnvironmentStep
  BY <1>13, SMTT(30) DEF EnvironmentStep, BackoffElapses, ChildExits
<1>14. CASE UNCHANGED vars
  BY <1>14
<1>15. QED
  BY <1>1, <1>2, <1>3, <1>4, <1>5, <1>6, <1>7, <1>8, <1>9, <1>10, <1>11, <1>12, <1>13, <1>14
  DEF Next, ApplicationStep, SupervisorStep, LaunchStep, WatchStep

\* Without faults Reaped and Stopping hold beside the inductive invariant.
THEOREM Reaping == Spec => [](IInv /\ Reaped /\ Stopping)
<1>1. Init => Reaped /\ Stopping
  BY RuntimeAssumption DEF Init, Reaped, Stopping, Procs
<1>2. QED
  BY <1>1, StepReaped, Invariance, PTL DEF Spec

\* A shutdown() that returns leaves a CLOSED runtime and no process or handle behind,
\* provided that no poll fails and that close() never gives up waiting.
THEOREM ShutdownIsComplete == Spec => []ShutdownCompletes
<1>1. IInv /\ Reaped /\ Stopping => ShutdownCompletes
  BY RuntimeAssumption DEF IInv, Custody, Reaped, Stopping, ShutdownCompletes, Procs
<1>2. QED
  BY <1>1, Reaping, PTL
=============================================================================
