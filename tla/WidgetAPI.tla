----------------------------- MODULE WidgetAPI -----------------------------
(***************************************************************************)
(* What the widget API promises its clients, whatever happens between the  *)
(* handler, the pool and the database: a request takes effect at most once *)
(* and atomically, a definite answer tells the truth about it, and only a  *)
(* client that got no definite answer has to reckon with a later effect.   *)
(***************************************************************************)
EXTENDS Naturals

CONSTANTS Requests, Widgets, Operations, NoTarget

VARIABLES
    op,         \* the operation a request asks for, "none" before it arrives
    target,     \* the widget it names
    effect,     \* "none", "applied", "missed" (no such widget) or "failed"
    answer,     \* "none", "success", "refusal" (4xx) or "unknown"
    rows        \* the widgets that exist

vars == <<op, target, effect, answer, rows>>

Invoke(r, o, t) ==
    /\ op[r] = "none"
    /\ op' = [op EXCEPT ![r] = o]
    /\ target' = [target EXCEPT ![r] = t]
    /\ UNCHANGED <<effect, answer, rows>>

\* The request takes effect, at most once and never after a definite answer.
TakeEffect(r) ==
    /\ op[r] # "none" /\ effect[r] = "none" /\ answer[r] \in {"none", "unknown"}
    /\ IF op[r] \in {"get", "delete"} /\ target[r] \notin rows
       THEN effect' = [effect EXCEPT ![r] = "missed"] /\ rows' = rows
       ELSE /\ effect' = [effect EXCEPT ![r] = "applied"]
            /\ rows' = CASE op[r] = "create" -> rows \cup {r}
                         [] op[r] = "delete" -> rows \ {target[r]}
                         [] OTHER -> rows
    /\ UNCHANGED <<op, target, answer>>

\* The request will never take effect.
Fail(r) ==
    /\ op[r] # "none" /\ effect[r] = "none"
    /\ effect' = [effect EXCEPT ![r] = "failed"]
    /\ UNCHANGED <<op, target, answer, rows>>

\* Success is answered after the effect, a refusal instead of one; an error of
\* the server, or no answer at all, says nothing about it.
Reply(r, a) ==
    /\ op[r] # "none" /\ answer[r] = "none"
    /\ a = "success" => effect[r] = "applied"
    /\ a = "refusal" => effect[r] \in {"none", "missed"}
    /\ answer' = [answer EXCEPT ![r] = a]
    /\ UNCHANGED <<op, target, effect, rows>>

Init ==
    /\ op = [r \in Requests |-> "none"]
    /\ target = [r \in Requests |-> NoTarget]
    /\ effect = [r \in Requests |-> "none"]
    /\ answer = [r \in Requests |-> "none"]
    /\ rows = Widgets

Next ==
    \E r \in Requests :
        \/ \E o \in Operations, t \in Widgets \cup {NoTarget} : Invoke(r, o, t)
        \/ TakeEffect(r) \/ Fail(r)
        \/ \E a \in {"success", "refusal", "unknown"} : Reply(r, a)

Spec == Init /\ [][Next]_vars
=============================================================================
