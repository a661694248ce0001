------------------------- MODULE RequestsRefinement -------------------------
(***************************************************************************)
(* Requests implements WidgetAPI: deadlines, disconnects, broken           *)
(* connections, late commits and panics are not visible to a client beyond *)
(* what the abstract specification allows.                                 *)
(***************************************************************************)
EXTENDS Requests

\* A statement that was not sent, or still runs, has had no effect.
EffectOf(s) == CASE s \in {"none", "running"} -> "none" [] s = "aborted" -> "failed" [] OTHER -> s

\* What a client makes of a status, with 0 for a connection without a response.
Meaning(st) ==
    CASE st \in 200..299 -> "success" [] st \in 400..499 -> "refusal" [] OTHER -> "unknown"

effectBar == [r \in Requests |-> EffectOf(stmt[r])]
answerBar == [r \in Requests |-> IF pc[r] \in Answered THEN Meaning(status[r]) ELSE "none"]

API == INSTANCE WidgetAPI WITH effect <- effectBar, answer <- answerBar

\* Every behaviour of the service is one that WidgetAPI allows: a request takes
\* effect once and atomically, a definite answer is true and final, and a late
\* effect is only met by clients that were told nothing definite.
ImplementsAPI == API!Spec
=============================================================================
