---------------------------- MODULE RestartBackoff ----------------------------
(***************************************************************************)
(* The arithmetic of _record_failure in src/python/_gohttpx_runtime.py:    *)
(* when the supervisor may try again after a failed launch or a crash.     *)
(* ManagedRuntime knows only that there is a delay; here are its length,   *)
(* the sliding window of failures and the cooldown.                        *)
(*                                                                         *)
(* Time is counted in whole units (a quarter of a second for the defaults).*)
(***************************************************************************)
EXTENDS Naturals, Sequences, FiniteSets

CONSTANTS
    RestartLimit,   \* restart_limit
    RestartWindow,  \* restart_window
    Cooldown,       \* cooldown
    FirstDelay,     \* 0.25 s
    LongestDelay,   \* 5 s
    Uptimes,        \* what may pass between the retry time and the next failure:
                    \* jitter, polling, the launch, a healthy run
    Horizon         \* bound: the clock of a behaviour

ASSUME BackoffAssumption ==
    /\ {RestartLimit, RestartWindow, Cooldown, FirstDelay, LongestDelay} \subseteq Nat \ {0}
    /\ Uptimes \subseteq Nat
    /\ Horizon \in Nat

VARIABLES
    failures,   \* _failures: the deque of failure times
    nextRetry,  \* _next_retry
    history,    \* every failure so far
    delay       \* the delay chosen last

vars == <<failures, nextRetry, history, delay>>

Init == failures = <<>> /\ nextRetry = 0 /\ history = <<>> /\ delay = 0

\* Mutant of DropOld: a failure as old as the window still counts.
DropOldLate(times, t) ==
    LET n == Cardinality({i \in DOMAIN times : \A j \in 1 .. i : t - times[j] > RestartWindow})
    IN SubSeq(times, n + 1, Len(times))

\* popleft() while the oldest failure has left the window.
DropOld(times, t) ==
    LET Old(i) == \A j \in 1 .. i : t - times[j] >= RestartWindow
        n == Cardinality({i \in DOMAIN times : Old(i)})
    IN SubSeq(times, n + 1, Len(times))

Doubled(n) == FirstDelay * 2 ^ (n - 1)

\* A power of two is a positive number: TLC computes it, the proofs take it from here.
ASSUME DoublingAssumption == \A n \in 1 .. RestartLimit : Doubled(n) \in Nat \ {0}

\* Mutant of Delay: the cooldown comes one failure late.
DelayLate(n) == IF n > RestartLimit THEN Cooldown
                ELSE IF Doubled(n) < LongestDelay THEN Doubled(n) ELSE LongestDelay

\* The delay after a failure that is the n-th in its window.
Delay(n) ==
    IF n >= RestartLimit THEN Cooldown
    ELSE IF Doubled(n) < LongestDelay THEN Doubled(n) ELSE LongestDelay

RecordFailure(now) ==
    /\ failures' = Append(DropOld(failures, now), now)
    /\ delay' = Delay(Len(failures'))
    /\ nextRetry' = now + delay'
    /\ history' = Append(history, now)

\* The supervisor launches no earlier than nextRetry; the attempt, or the
\* instance it produced, fails some time later.
Fail ==
    \E uptime \in Uptimes :
        /\ nextRetry + uptime <= Horizon
        /\ RecordFailure(nextRetry + uptime)

Next == Fail

Spec == Init /\ [][Next]_vars

-----------------------------------------------------------------------------
TypeOK ==
    /\ failures \in Seq(0 .. Horizon)
    /\ history \in Seq(0 .. Horizon)
    /\ nextRetry \in 0 .. Horizon + Cooldown + LongestDelay
    /\ delay \in 0 .. Cooldown + LongestDelay

\* The deque holds exactly the failures of the rolling window that ends with
\* the latest one: none is forgotten early, none stays too long.
WindowIsExact ==
    history # <<>> =>
        LET now == history[Len(history)]
            recent == {i \in DOMAIN history : now - history[i] < RestartWindow}
        IN failures = SubSeq(history, Len(history) - Cardinality(recent) + 1, Len(history))

\* No restart storm: however the attempts fail, a window of RestartWindow never
\* sees more than RestartLimit failures plus those a cooldown lets through.
RateIsBounded ==
    \A i \in DOMAIN history :
        Cardinality({j \in DOMAIN history :
                        history[j] >= history[i] /\ history[j] < history[i] + RestartWindow})
            <= RestartLimit + (RestartWindow - 1) \div Cooldown
=============================================================================
