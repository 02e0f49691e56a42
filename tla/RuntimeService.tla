--------------------------- MODULE RuntimeService ---------------------------
(***************************************************************************)
(* What a caller of ManagedRuntime may rely on, without its supervisor,    *)
(* its child processes or its retries: a service with at most one          *)
(* instance, named by an ever growing number.                              *)
(***************************************************************************)
EXTENDS Naturals

CONSTANT None

VARIABLES
    service,  \* the instance callers are given, or None
    issued,   \* the numbers up to this one are used up
    closed    \* the owner asked for the end

svars == <<service, issued, closed>>

Init == service = None /\ issued = 0 /\ closed = FALSE

\* A new instance takes a number never used before, and only in an open
\* service without one.
Publish ==
    /\ service = None /\ ~closed
    /\ issued' = issued + 1
    /\ service' = issued + 1
    /\ UNCHANGED closed

\* An attempt that comes to nothing uses its number up.
Burn ==
    /\ service = None
    /\ issued' = issued + 1
    /\ UNCHANGED <<service, closed>>

Withdraw ==
    /\ service # None
    /\ service' = None
    /\ UNCHANGED <<issued, closed>>

Close ==
    /\ ~closed
    /\ closed' = TRUE
    /\ UNCHANGED <<service, issued>>

Next == Publish \/ Burn \/ Withdraw \/ Close

Spec == Init /\ [][Next]_svars
=============================================================================
