-------------------------- MODULE ManagedHandshake --------------------------
(***************************************************************************)
(* One managed child from spawn to exit, seen from both ends of its pipes: *)
(* _launch, _probe and _dispose of src/python/_gohttpx_runtime.py, and     *)
(* readBootstrap and runManaged of src/managed.go.                         *)
(*                                                                         *)
(* ManagedRuntime says what the supervisor does with the result of a       *)
(* launch; here are the two processes that produce it.  Either may stop at *)
(* any point: Python is killed, the child crashes, freezes, or is killed   *)
(* by the kernel because its Job was closed.  The port the child gives up  *)
(* may be taken by another GoHTTPX service.                                *)
(*                                                                         *)
(* Lines are atomic: each is one write that fits the pipe.  All deadlines  *)
(* (10 s on both sides of the handshake, 5 s on both sides of the end) are *)
(* steps that may be taken; no order between those of the two processes is *)
(* assumed.                                                                *)
(***************************************************************************)

VARIABLES
    py,       \* where the thread of _supervise is with this child
    verdict,  \* what _launch comes to: "ready", or why not
    answer,   \* who answered the probe
    stop,     \* _stop
    inbox,    \* the child's stdin: the line not yet read
    out,      \* the child's stdout: the line not yet read
    queue,    \* messages: what _read_stdout has put there
    go,       \* where runManaged is
    boot,     \* the bootstrap goroutine and its channel
    served,   \* the goroutine of server.Serve and its channel
    stopper,  \* the goroutine that waits for the shutdown line
    registry, \* the server with its sessions
    busy,     \* an HTTP handler is running in the child
    late,     \* history: the child no longer owes its handlers time to finish
    hung,     \* the child is frozen
    matching, \* the binary has the version of the SDK
    port,     \* who listens on the port the child was given
    sess      \* the service that keeps the session of a client

python  == <<py, verdict, answer>>
child   == <<go, boot, served, stopper, registry, busy, late>>
pipes   == <<inbox, out, queue>>
outside == <<stop, hung, matching, port, sess>>
vars    == <<python, child, pipes, outside>>

Services == {"mine", "managed", "open"}

TypeOK ==
    /\ py \in {"idle", "write", "await", "lapsed", "probe", "answered", "candidate",
               "published", "linger", "closing", "over", "dead"}
    /\ verdict \in {"none", "ready", "mismatch", "refused", "stopped", "missing", "exited",
                    "timeout", "unready", "broken"}
    /\ answer \in Services \cup {"none"}
    /\ stop \in BOOLEAN
    /\ inbox \in {"empty", "bootstrap", "shutdown"}
    /\ out \in {"none", "ready", "rejected"}
    /\ queue \in {"none", "ready", "rejected", "eof"}
    /\ go \in {"none", "boot", "listen", "announce", "serve", "drain", "join",
               "leave", "left", "exited"}
    /\ boot \in {"reading", "ok", "bad"}
    /\ served \in {"none", "running", "sent", "taken"}
    /\ stopper \in {"none", "reading", "fired"}
    /\ registry \in {"none", "open", "closed"}
    /\ busy \in BOOLEAN /\ late \in BOOLEAN /\ hung \in BOOLEAN /\ matching \in BOOLEAN
    /\ port \in Services \cup {"none"}
    /\ sess \in {"none", "mine", "open"}

Init ==
    /\ py = "idle" /\ verdict = "none" /\ answer = "none"
    /\ inbox = "empty" /\ out = "none" /\ queue = "none"
    /\ go = "none" /\ boot = "reading" /\ served = "none" /\ stopper = "none"
    /\ registry = "none" /\ busy = FALSE /\ late = FALSE
    /\ stop = FALSE /\ hung = FALSE /\ port = "none" /\ sess = "none"
    /\ matching \in BOOLEAN

JobClosed  == py \in {"closing", "over", "dead"}
PipeClosed == py \in {"over", "dead"}
Alive      == go \notin {"none", "exited"}
Awake      == Alive /\ ~hung

\* Mutant of Accepts: the status alone is trusted.
AcceptsStatus(who) == who \in {"mine", "open"}

\* What _probe and _call take for an answer of this instance: success, and its
\* own id in the header.  Another managed child answers 401 with another id, an
\* external service without a token answers, but with no id at all.
Accepts(who) ==
    LET succeeds == who \in {"mine", "open"}
        header   == IF who \in {"mine", "managed"} THEN who ELSE "none"
    IN succeeds /\ header = "mine"

-----------------------------------------------------------------------------
(* Python.                                                                 *)

Spawn ==
    /\ py = "idle" /\ py' = "write"
    /\ go' = "boot"
    /\ UNCHANGED <<verdict, answer, boot, served, stopper, registry, busy, late, pipes,
                   outside>>

\* JobProcess.__init__ raises, before CreateProcessW or after it, and then closes
\* what it has got so far: without a child that is all, with one the Job ends it.
\* _launch takes the OSError for a configuration error.
SpawnFails ==
    /\ py = "idle" /\ verdict' = "refused"
    /\ \/ py' = "over" /\ UNCHANGED go
       \/ py' = "closing" /\ go' = "boot"
    /\ UNCHANGED <<answer, boot, served, stopper, registry, busy, late, pipes, outside>>

\* except BaseException of _launch: the Job is closed, then the error goes on.
Abort(why) == py' = "closing" /\ verdict' = why

\* The write fails when the child is gone already.
WriteBootstrap ==
    /\ py = "write"
    /\ IF Alive THEN py' = "await" /\ inbox' = "bootstrap" /\ UNCHANGED verdict
                ELSE Abort("broken") /\ UNCHANGED inbox
    /\ UNCHANGED <<answer, child, out, queue, outside>>

AwaitStop ==
    /\ py = "await" /\ stop
    /\ Abort("stopped")
    /\ UNCHANGED <<answer, child, pipes, outside>>

\* Mutant of AwaitLine: no line is taken for a malformed one.
AwaitLineStrict ==
    /\ py = "await" /\ queue # "none"
    /\ CASE queue = "ready"  -> py' = "probe" /\ UNCHANGED verdict
         [] queue # "ready"  -> Abort("mismatch")
    /\ UNCHANGED <<answer, child, pipes, outside>>

\* The line, or the end of stdout, has arrived.  The fields of a ready line are
\* those of this launch, because only a child of this version writes one.
AwaitLine ==
    /\ py = "await" /\ queue # "none"
    /\ CASE queue = "ready"    -> py' = "probe" /\ UNCHANGED verdict
         [] queue = "rejected" -> Abort("mismatch")
         [] queue = "eof"      -> Abort("missing")
    /\ UNCHANGED <<answer, child, pipes, outside>>

\* except queue.Empty: get() gave up after 0.05 s ...
AwaitLapses ==
    /\ py = "await" /\ queue = "none"
    /\ py' = "lapsed"
    /\ UNCHANGED <<verdict, answer, child, pipes, outside>>

\* ... and poll() decides, whatever has been put into the queue since.
LapsedExited ==
    /\ py = "lapsed" /\ ~Alive
    /\ Abort("exited")
    /\ UNCHANGED <<answer, child, pipes, outside>>

\* Mutant of LapsedTimeout: the deadline moves on with every turn.
LapsedTimeoutNever == FALSE

LapsedTimeout ==
    /\ py = "lapsed" /\ Alive
    /\ Abort("timeout")
    /\ UNCHANGED <<answer, child, pipes, outside>>

LapsedAgain ==
    /\ py = "lapsed" /\ Alive
    /\ py' = "await"
    /\ UNCHANGED <<verdict, answer, child, pipes, outside>>

\* _probe: whoever listens on the port answers, unless it is too slow.
ProbeAnswered ==
    /\ py = "probe" /\ port # "none" /\ (port = "mine" => Awake)
    /\ answer' = port /\ py' = "answered"
    /\ UNCHANGED <<verdict, child, pipes, outside>>

ProbeFails ==
    /\ py = "probe"
    /\ Abort("unready")
    /\ UNCHANGED <<answer, child, pipes, outside>>

\* The answer is checked, and the process once more.
ProbeDone ==
    /\ py = "answered"
    /\ IF Accepts(answer) /\ Alive THEN py' = "candidate" /\ UNCHANGED verdict
                                   ELSE Abort("unready")
    /\ UNCHANGED <<answer, child, pipes, outside>>

\* Back in _supervise, under the lock.
Publish ==
    /\ py = "candidate"
    /\ IF stop THEN Abort("stopped") ELSE py' = "published" /\ verdict' = "ready"
    /\ UNCHANGED <<answer, child, pipes, outside>>

\* An exit was seen, or health probes failed: _dispose(current, False).
Condemn ==
    /\ py = "published"
    /\ py' = "closing"
    /\ UNCHANGED <<verdict, answer, child, pipes, outside>>

\* _dispose(current, True): the shutdown line, if there is still a reader.
Farewell ==
    /\ py = "published" /\ stop
    /\ IF Alive THEN py' = "linger" /\ inbox' = "shutdown"
                ELSE py' = "closing" /\ UNCHANGED inbox
    /\ UNCHANGED <<verdict, answer, child, out, queue, outside>>

\* Mutant of LingerEnds: the wait has no timeout.
LingerEndsOnExit ==
    /\ py = "linger" /\ ~Alive
    /\ py' = "closing"
    /\ UNCHANGED <<verdict, answer, child, pipes, outside>>

\* The process has exited, or shutdown_timeout is over.
LingerEnds ==
    /\ py = "linger"
    /\ py' = "closing"
    /\ UNCHANGED <<verdict, answer, child, pipes, outside>>

\* JobProcess.close() saw the exit; the streams are closed after it.
CloseEnds ==
    /\ py = "closing" /\ ~Alive
    /\ py' = "over"
    /\ UNCHANGED <<verdict, answer, child, pipes, outside>>

\* _read_stdout: one line, or the end of the pipe; what follows is drained.
ReadStdout ==
    /\ queue = "none" /\ py \notin {"idle", "over", "dead"}
    /\ out # "none" \/ ~Alive
    /\ queue' = IF out = "none" THEN "eof" ELSE out
    /\ out' = "none"
    /\ UNCHANGED <<inbox, python, child, outside>>

-----------------------------------------------------------------------------
(* The child.                                                              *)

\* The bootstrap goroutine: a valid line, a foreign version, or end of file.
ReadBootstrap ==
    /\ go = "boot" /\ ~hung /\ boot = "reading"
    /\ inbox = "bootstrap" \/ PipeClosed
    /\ boot' = IF inbox = "bootstrap" /\ matching THEN "ok" ELSE "bad"
    /\ inbox' = "empty"
    /\ UNCHANGED <<python, go, served, stopper, registry, busy, late, out, queue, outside>>

BootAccepted ==
    /\ go = "boot" /\ ~hung /\ boot = "ok"
    /\ go' = "listen"
    /\ UNCHANGED <<python, boot, served, stopper, registry, busy, late, pipes, outside>>

BootRejected ==
    /\ go = "boot" /\ ~hung /\ boot = "bad"
    /\ out' = IF PipeClosed THEN out ELSE "rejected"
    /\ go' = "leave"
    /\ UNCHANGED <<python, boot, served, stopper, registry, busy, late, inbox, queue,
                   outside>>

\* time.After(10 s); a line that is there as well need not win.
BootTimesOut ==
    /\ go = "boot" /\ ~hung
    /\ go' = "leave"
    /\ UNCHANGED <<python, boot, served, stopper, registry, busy, late, pipes, outside>>

Listen ==
    /\ go = "listen" /\ ~hung
    /\ port' = "mine" /\ registry' = "open" /\ served' = "running"
    /\ go' = "announce"
    /\ UNCHANGED <<python, boot, stopper, busy, late, pipes, stop, hung, matching, sess>>

ListenFails ==
    /\ go = "listen" /\ ~hung
    /\ go' = "leave"
    /\ UNCHANGED <<python, boot, served, stopper, registry, busy, late, pipes, outside>>

GiveUpPort == port' = IF port = "mine" THEN "none" ELSE port

\* The ready line; with nobody to read it the server is closed again.
Announce ==
    /\ go = "announce" /\ ~hung
    /\ IF PipeClosed
       THEN go' = "leave" /\ GiveUpPort /\ late' = TRUE /\ UNCHANGED <<stopper, out>>
       ELSE go' = "serve" /\ stopper' = "reading" /\ out' = "ready" /\ UNCHANGED <<port, late>>
    /\ UNCHANGED <<python, boot, served, registry, busy, inbox, queue, stop, hung,
                   matching, sess>>

\* The stop goroutine: any line, or the end of the pipe.
StopRead ==
    /\ stopper = "reading" /\ Awake
    /\ inbox = "shutdown" \/ PipeClosed
    /\ stopper' = "fired" /\ inbox' = "empty"
    /\ UNCHANGED <<python, go, boot, served, registry, busy, late, out, queue, outside>>

\* Serve returns: its listener was closed, or Accept failed.
ServeReturns ==
    /\ served = "running" /\ Awake
    /\ served' = "sent" /\ GiveUpPort
    /\ UNCHANGED <<python, go, boot, stopper, registry, busy, late, pipes, stop, hung,
                   matching, sess>>

\* Mutant of BeginShutdown: handlers are not waited for.
BeginShutdownAtOnce == go' = "join" /\ GiveUpPort

\* server.Shutdown stops listening, then waits.
BeginShutdown == go' = "drain" /\ GiveUpPort

SelectStop ==
    /\ go = "serve" /\ ~hung /\ stopper = "fired"
    /\ BeginShutdown
    /\ UNCHANGED <<python, boot, served, stopper, registry, busy, late, pipes, stop, hung,
                   matching, sess>>

\* os.Interrupt
SelectInterrupt ==
    /\ go = "serve" /\ ~hung
    /\ BeginShutdown
    /\ UNCHANGED <<python, boot, served, stopper, registry, busy, late, pipes, stop, hung,
                   matching, sess>>

\* Mutant of SelectServed: the failed server is shut down like a running one.
SelectServedShutsDown ==
    /\ go = "serve" /\ ~hung /\ served = "sent"
    /\ served' = "taken" /\ BeginShutdown /\ late' = TRUE
    /\ UNCHANGED <<python, boot, stopper, registry, busy, pipes, stop, hung, matching, sess>>

\* The HTTP server ended by itself: return at once.
SelectServed ==
    /\ go = "serve" /\ ~hung /\ served = "sent"
    /\ served' = "taken" /\ go' = "leave" /\ late' = TRUE
    /\ UNCHANGED <<python, boot, stopper, registry, busy, pipes, outside>>

\* Shutdown returns: idle, or after 5 s, and then server.Close() does not wait.
DrainEnds ==
    /\ go = "drain" /\ ~hung
    /\ go' = "join" /\ late' = (late \/ busy)
    /\ UNCHANGED <<python, boot, served, stopper, registry, busy, pipes, outside>>

\* <-served
JoinServe ==
    /\ go = "join" /\ ~hung /\ served = "sent"
    /\ served' = "taken" /\ go' = "leave"
    /\ UNCHANGED <<python, boot, stopper, registry, busy, late, pipes, outside>>

\* The deferred registry.Close() and listener.Close(), as far as they were set up.
Leave ==
    /\ go = "leave" /\ ~hung
    /\ registry' = IF registry = "open" THEN "closed" ELSE registry
    /\ GiveUpPort /\ go' = "left"
    /\ UNCHANGED <<python, boot, served, stopper, busy, late, pipes, stop, hung, matching,
                   sess>>

HandlerEnds ==
    /\ busy /\ Awake
    /\ busy' = FALSE
    /\ UNCHANGED <<python, go, boot, served, stopper, registry, late, pipes, outside>>

\* The process is gone, with its port, its handlers and its ends of the pipes.
Exit ==
    /\ go' = "exited" /\ busy' = FALSE /\ GiveUpPort
    /\ UNCHANGED <<python, boot, served, stopper, registry, late, pipes, stop, hung,
                   matching, sess>>

Exits == go = "left" /\ ~hung /\ Exit

-----------------------------------------------------------------------------
(* The rest of the world.                                                  *)

\* The kernel ends the members of a Job whose last handle was closed.
Killed == Alive /\ JobClosed /\ Exit

\* A panic, or a kill from outside.
Crashes == Alive /\ ~JobClosed /\ Exit

Freezes ==
    /\ Alive /\ ~hung
    /\ hung' = TRUE
    /\ UNCHANGED <<python, child, pipes, stop, matching, port, sess>>

\* The Python process dies: its handles of the Job and of the pipes are closed.
OwnerDies ==
    /\ py \notin {"over", "dead"}
    /\ py' = "dead"
    /\ UNCHANGED <<verdict, answer, child, pipes, outside>>

\* shutdown()
SetStop ==
    /\ ~stop /\ py # "dead"
    /\ stop' = TRUE
    /\ UNCHANGED <<python, child, pipes, hung, matching, port, sess>>

\* Another GoHTTPX service is given the port the child no longer listens on.
PortIsReused ==
    /\ go \in {"drain", "join", "leave", "left", "exited"} /\ registry # "none"
    /\ port = "none" /\ port' \in {"managed", "open"}
    /\ UNCHANGED <<python, child, pipes, stop, hung, matching, sess>>

\* A client that was handed this instance makes its session, perhaps long after.
ClientCreates ==
    /\ verdict = "ready" /\ py # "dead" /\ sess = "none"
    /\ port # "none" /\ (port = "mine" => Awake)
    /\ sess' = IF Accepts(port) THEN port ELSE "none"
    /\ UNCHANGED <<python, child, pipes, stop, hung, matching, port>>

\* ... and sends a request, which runs where the session is known.
ClientRequests ==
    /\ sess = "mine" /\ port = "mine" /\ Awake /\ ~busy /\ py # "dead"
    /\ busy' = TRUE
    /\ UNCHANGED <<python, go, boot, served, stopper, registry, late, pipes, outside>>

-----------------------------------------------------------------------------
LaunchStep ==
    \/ Spawn \/ SpawnFails \/ WriteBootstrap \/ AwaitStop \/ AwaitLine \/ AwaitLapses
    \/ LapsedExited \/ LapsedTimeout \/ LapsedAgain
    \/ ProbeAnswered \/ ProbeFails \/ ProbeDone \/ Publish

DisposeStep == Farewell \/ LingerEnds \/ CloseEnds

MainStep ==
    \/ BootAccepted \/ BootRejected \/ BootTimesOut \/ Listen \/ ListenFails
    \/ Announce \/ SelectStop \/ SelectServed \/ DrainEnds \/ JoinServe \/ Leave \/ Exits

WorldStep ==
    \/ Killed \/ Crashes \/ Freezes \/ OwnerDies \/ SetStop \/ PortIsReused
    \/ ClientCreates \/ ClientRequests

Next ==
    \/ LaunchStep \/ Condemn \/ DisposeStep \/ ReadStdout
    \/ MainStep \/ SelectInterrupt
    \/ ReadBootstrap \/ StopRead \/ ServeReturns \/ HandlerEnds
    \/ WorldStep

Spec == Init /\ [][Next]_vars

\* Python's threads run and its clock passes every deadline; so do the child's
\* goroutines and its clock, unless it is frozen.  A Job closed by close() kills.
\* Nothing is assumed of a Job whose owner died.
FairSpec ==
    /\ Spec
    /\ WF_vars(LaunchStep /\ py # "idle") /\ SF_vars(LapsedTimeout)
    /\ WF_vars(DisposeStep) /\ WF_vars(ReadStdout)
    /\ WF_vars(py = "closing" /\ Killed)
    /\ WF_vars(MainStep) /\ WF_vars(ReadBootstrap) /\ WF_vars(StopRead)
    /\ WF_vars(port # "mine" /\ ServeReturns)

-----------------------------------------------------------------------------
(* Properties.                                                             *)

\* What is published has proved itself: it was this child that answered the
\* probe, not a service that took over its port, and it took the bootstrap.
PublishedIsMine ==
    [][py' = "published" /\ py # "published" => answer = "mine" /\ boot = "ok"]_vars

\* A configuration error stops the runtime for good.  There are two here: the
\* process was refused, though a child may have come of it already, or the child
\* rejected its bootstrap, which only one of another version does.  Neither meets a
\* child that took its bootstrap or began to serve; a crash, a timeout, a stop or
\* the answer of somebody else is no configuration error.
FatalWithReason ==
    verdict \in {"mismatch", "refused"} =>
        /\ boot # "ok" /\ registry = "none"
        /\ verdict = "mismatch" => ~matching

\* Sessions are closed under a running request only when its time was over, or
\* the HTTP server had failed already.
GraceBeforeClose == registry = "closed" /\ busy => late

\* The end of the pipe is enough to end a child that can still act, wherever it
\* is; the closed Job is not needed for it (design, section 4.2).
PipeEndsChild == (py = "dead" /\ go # "none") ~> (go = "exited" \/ hung)

\* A launch ends, even with a child that is frozen.
LaunchEnds == (py = "write") ~> (py \in {"published", "over", "dead"})

\* So does a stop, wherever it finds the child.
StopEnds == (stop /\ py # "idle") ~> (py \in {"over", "dead"})

\* A refused bootstrap is recognised as one and not retried like a crash
\* (src/managed.go:73).
RejectionIsRecognised == verdict = "exited" => "rejected" \notin {out, queue}
=============================================================================
