----------------------- MODULE ManagedHandshakeProofs -----------------------
(***************************************************************************)
(* Theorems about ManagedHandshake, which has no constants: TLC explores   *)
(* all of its states, and the proofs say why the properties hold in them.  *)
(***************************************************************************)
EXTENDS ManagedHandshake, TLAPS

\* The child listens while it serves and at no other time, and its sessions are
\* closed as the last thing it does.
Listening ==
    /\ py = "idle" => go = "none" /\ registry = "none"
    /\ port = "mine" => go \in {"announce", "serve"} /\ served = "running"
    /\ registry = "closed" => go \in {"left", "exited"}

\* A child that got so far as to listen had accepted its bootstrap, and an answer
\* is taken for one of this instance only when it came from there.
Bootstrapped ==
    /\ go \in {"listen", "announce", "serve", "drain", "join"} => boot = "ok"
    /\ registry # "none" => boot = "ok"
    /\ answer = "mine" => boot = "ok"
    /\ py = "candidate" => answer = "mine"

\* A rejection is written, read and reported for a foreign version alone: the other
\* cause of a bad bootstrap, a closed pipe, leaves nobody to write to.  A child whose
\* creation failed is sent no bootstrap.
Rejection ==
    /\ boot = "bad" => ~matching \/ PipeClosed
    /\ "rejected" \in {out, queue} => ~matching /\ boot = "bad"
    /\ verdict = "mismatch" => ~matching /\ boot = "bad"
    /\ py = "idle" => inbox = "empty" /\ boot = "reading"
    /\ verdict = "refused" => /\ py \in {"closing", "over", "dead"}
                              /\ inbox # "bootstrap" /\ boot # "ok"

\* Handlers run until the listener is given up, and beyond Shutdown only if late.
Grace ==
    busy => \/ go \in {"announce", "serve", "drain"}
            \/ late /\ go \in {"join", "leave", "left"}

IInv ==
    /\ TypeOK
    /\ Listening
    /\ Bootstrapped
    /\ Rejection
    /\ Grace

\* Nothing has been spawned, nothing is published and nobody listens.
LEMMA InitIInv == Init => IInv
<1> SUFFICES ASSUME Init PROVE IInv
  OBVIOUS
<1> USE DEF Init
<1>1. TypeOK
  BY DEF TypeOK, Services
<1>2. QED
  BY <1>1 DEF IInv, Listening, Bootstrapped, Rejection, Grace, PipeClosed

\* No step of Python's supervisor thread breaks the invariant.
LEMMA PythonIInv ==
    ASSUME IInv, LaunchStep \/ Condemn \/ DisposeStep \/ ReadStdout
    PROVE  IInv'
<1> USE DEF IInv, python, child, pipes, outside, PipeClosed, Alive, Awake, Abort, Services,
            TypeOK, Listening, Bootstrapped, Rejection, Grace
<1>1. CASE Spawn
  BY <1>1 DEF Spawn
<1>2. CASE SpawnFails
  BY <1>2 DEF SpawnFails
<1>3. CASE WriteBootstrap
  BY <1>3 DEF WriteBootstrap
<1>4. CASE AwaitStop
  BY <1>4 DEF AwaitStop
<1>5. CASE AwaitLine
  <2>1. queue = "rejected" => ~matching /\ boot = "bad"
    OBVIOUS
  <2>2. /\ py' \in {"probe", "closing"} /\ verdict' \in {verdict, "mismatch", "missing"}
        /\ verdict' = "mismatch" => verdict = "mismatch" \/ queue = "rejected"
    <3>1. queue \in {"ready", "rejected", "eof"}
      BY <1>5 DEF AwaitLine
    <3>2. QED
      BY <1>5, <3>1 DEF AwaitLine
  <2>3. UNCHANGED <<answer, child, pipes, outside>>
    BY <1>5 DEF AwaitLine
  <2>4. py = "await"
    BY <1>5 DEF AwaitLine
  <2>5. QED
    BY <2>1, <2>2, <2>3, <2>4
<1>6. CASE AwaitLapses \/ LapsedExited \/ LapsedTimeout \/ LapsedAgain
  BY <1>6 DEF AwaitLapses, LapsedExited, LapsedTimeout, LapsedAgain
<1>7. CASE ProbeAnswered
  BY <1>7 DEF ProbeAnswered
<1>8. CASE ProbeFails
  BY <1>8 DEF ProbeFails
<1>9. CASE ProbeDone
  BY <1>9 DEF ProbeDone, Accepts
<1>10. CASE Publish
  BY <1>10 DEF Publish
<1>11. CASE Condemn
  BY <1>11 DEF Condemn
<1>12. CASE DisposeStep
  BY <1>12 DEF DisposeStep, Farewell, LingerEnds, CloseEnds
<1>13. CASE ReadStdout
  BY <1>13 DEF ReadStdout
<1>14. QED
  BY <1>1, <1>2, <1>3, <1>4, <1>5, <1>6, <1>7, <1>8, <1>9, <1>10, <1>11, <1>12, <1>13
     DEF LaunchStep

\* Neither does a step of the child's goroutines.
LEMMA ChildIInv ==
    ASSUME IInv,
           MainStep \/ SelectInterrupt \/ ReadBootstrap \/ StopRead \/ ServeReturns
             \/ HandlerEnds
    PROVE  IInv'
<1> USE DEF IInv, python, child, pipes, outside, PipeClosed, Alive, Awake, Services,
            GiveUpPort, BeginShutdown,
            TypeOK, Listening, Bootstrapped, Rejection, Grace
<1>1. CASE BootAccepted
  BY <1>1 DEF BootAccepted
<1>2. CASE BootRejected
  BY <1>2 DEF BootRejected
<1>3. CASE BootTimesOut
  BY <1>3 DEF BootTimesOut
<1>4. CASE Listen
  BY <1>4 DEF Listen
<1>5. CASE ListenFails
  BY <1>5 DEF ListenFails
<1>6. CASE Announce
  <2>1. late' \in {late, TRUE} /\ late' \in BOOLEAN
    BY <1>6 DEF Announce
  <2>2. QED
    BY <1>6, <2>1 DEF Announce
<1>7. CASE SelectStop \/ SelectInterrupt
  BY <1>7 DEF SelectStop, SelectInterrupt
<1>8. CASE SelectServed
  <2>1. late' = TRUE /\ late' \in BOOLEAN
    BY <1>8 DEF SelectServed
  <2>2. QED
    BY <1>8, <2>1 DEF SelectServed
<1>9. CASE DrainEnds
  <2>1. late' \in BOOLEAN
    BY <1>9 DEF DrainEnds
  <2>2. QED
    BY <1>9, <2>1 DEF DrainEnds
<1>10. CASE JoinServe
  BY <1>10 DEF JoinServe
<1>11. CASE Leave
  BY <1>11 DEF Leave
<1>12. CASE Exits
  <2>1. busy' = FALSE /\ busy' \in BOOLEAN
    BY <1>12 DEF Exits, Exit
  <2>2. QED
    BY <1>12, <2>1 DEF Exits, Exit
<1>13. CASE ReadBootstrap
  BY <1>13 DEF ReadBootstrap
<1>14. CASE StopRead
  BY <1>14 DEF StopRead
<1>15. CASE ServeReturns
  BY <1>15 DEF ServeReturns
<1>16. CASE HandlerEnds
  <2>1. busy' = FALSE /\ busy' \in BOOLEAN
    BY <1>16 DEF HandlerEnds
  <2>2. QED
    BY <1>16, <2>1 DEF HandlerEnds
<1>17. QED
  BY <1>1, <1>2, <1>3, <1>4, <1>5, <1>6, <1>7, <1>8, <1>9, <1>10, <1>11, <1>12, <1>13,
     <1>14, <1>15, <1>16 DEF MainStep

\* Nor anything that happens to the two processes from outside.
LEMMA WorldIInv == ASSUME IInv, WorldStep PROVE IInv'
<1> USE DEF IInv, python, child, pipes, outside, PipeClosed, Alive, Awake, Services,
            GiveUpPort, TypeOK, Listening, Bootstrapped, Rejection, Grace
<1>1. CASE Killed \/ Crashes
  <2>1. busy' = FALSE /\ busy' \in BOOLEAN
    BY <1>1 DEF Killed, Crashes, Exit
  <2>2. QED
    BY <1>1, <2>1 DEF Killed, Crashes, Exit
<1>2. CASE Freezes
  BY <1>2 DEF Freezes
<1>3. CASE OwnerDies
  BY <1>3 DEF OwnerDies
<1>4. CASE SetStop
  BY <1>4 DEF SetStop
<1>5. CASE PortIsReused
  BY <1>5 DEF PortIsReused
<1>6. CASE ClientCreates
  BY <1>6 DEF ClientCreates, Accepts
<1>7. CASE ClientRequests
  BY <1>7 DEF ClientRequests
<1>8. QED
  BY <1>1, <1>2, <1>3, <1>4, <1>5, <1>6, <1>7 DEF WorldStep

\* So IInv is inductive.
LEMMA StepIInv == IInv /\ [Next]_vars => IInv'
<1> SUFFICES ASSUME IInv, [Next]_vars PROVE IInv'
  OBVIOUS
<1>1. CASE Next
  BY <1>1, PythonIInv, ChildIInv, WorldIInv DEF Next
<1>2. CASE UNCHANGED vars
  BY <1>2 DEF vars, python, child, pipes, outside, IInv, TypeOK, Listening, Bootstrapped,
              Rejection, Grace, PipeClosed, Services
<1>3. QED
  BY <1>1, <1>2

\* The inductive invariant holds in every state of a launch and its end.
THEOREM Invariance == Spec => []IInv
BY InitIInv, StepIInv, PTL DEF Spec

\* Every place of the two processes, and every line in their pipes, is a known one.
THEOREM TypeCorrectness == Spec => []TypeOK
<1>1. IInv => TypeOK
  BY DEF IInv
<1>2. QED
  BY <1>1, Invariance, PTL

\* A configuration error, which ends the runtime for good, never comes of a child
\* that took its bootstrap or began to serve, whatever crashed or was delayed; and
\* when the child is said to be of another version, it is.
THEOREM FatalHasReason == Spec => []FatalWithReason
<1>1. IInv => FatalWithReason
  BY DEF IInv, Bootstrapped, Rejection, FatalWithReason
<1>2. QED
  BY <1>1, Invariance, PTL

\* server.Close() takes the sessions from under a running handler only when the time
\* granted to it was over, or the HTTP server had failed before.
THEOREM GraceIsKept == Spec => []GraceBeforeClose
<1>1. IInv => GraceBeforeClose
  BY DEF IInv, Listening, Grace, GraceBeforeClose
<1>2. QED
  BY <1>1, Invariance, PTL

\* The instance that is published answered the probe itself and had accepted its
\* bootstrap, although its port may have gone to another service since.
THEOREM PublicationIsProved == Spec => PublishedIsMine
<1>1. IInv /\ [Next]_vars
        => [py' = "published" /\ py # "published" => answer = "mine" /\ boot = "ok"]_vars
  <2> SUFFICES ASSUME IInv, Next, py' = "published", py # "published"
               PROVE  answer = "mine" /\ boot = "ok"
    OBVIOUS
  <2> USE DEF python, child, pipes, outside, Abort
  <2>1. CASE Publish
    BY <2>1 DEF Publish, IInv, Bootstrapped
  <2>2. CASE LaunchStep /\ ~Publish
    BY <2>2 DEF LaunchStep, Spawn, SpawnFails, WriteBootstrap, AwaitStop, AwaitLine,
                AwaitLapses, LapsedExited, LapsedTimeout, LapsedAgain, ProbeAnswered,
                ProbeFails, ProbeDone, IInv, TypeOK
  <2>3. CASE Condemn \/ DisposeStep \/ ReadStdout
    BY <2>3 DEF Condemn, DisposeStep, Farewell, LingerEnds, CloseEnds, ReadStdout
  <2>4. CASE MainStep \/ SelectInterrupt \/ ReadBootstrap \/ StopRead \/ ServeReturns
               \/ HandlerEnds
    BY <2>4 DEF MainStep, BootAccepted, BootRejected, BootTimesOut, Listen, ListenFails,
                Announce, SelectStop, SelectServed, DrainEnds, JoinServe, Leave, Exits,
                Exit, SelectInterrupt, ReadBootstrap, StopRead, ServeReturns, HandlerEnds
  <2>5. CASE WorldStep
    BY <2>5 DEF WorldStep, Killed, Crashes, Exit, Freezes, OwnerDies, SetStop,
                PortIsReused, ClientCreates, ClientRequests
  <2>6. QED
    BY <2>1, <2>2, <2>3, <2>4, <2>5 DEF Next
<1>2. QED
  BY <1>1, Invariance, PTL DEF Spec, PublishedIsMine
=============================================================================
