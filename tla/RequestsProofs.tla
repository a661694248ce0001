--------------------------- MODULE RequestsProofs ---------------------------
(***************************************************************************)
(* Proofs about Requests for any number of requests, widgets and           *)
(* connections, and whether or not handlers panic or abort, and that it    *)
(* implements WidgetAPI: initial states map to initial states, and every   *)
(* step maps to a step of the abstract specification or leaves it          *)
(* unchanged.                                                              *)
(***************************************************************************)
EXTENDS RequestsRefinement, TLAPS

-----------------------------------------------------------------------------
(* The operators that map outcomes to statuses.                            *)

\* A handler writes nothing only for a canceled context, claims a write only on
\* success and answers 4xx only for what it knows to have had no effect.
LEMMA AnswerFacts ==
    ASSUME NEW o \in Operations, NEW res \in Outcomes \ {"none"}
    PROVE  /\ Answer(o, res) \in Statuses
           /\ Answer(o, res) = 0 => res = "canceled"
           /\ Answer(o, res) \in 200..299 => res = "ok"
           /\ Answer(o, res) = 204 => o = "delete"
           /\ Answer(o, res) \in 400..499 =>
                  res \in {"not_found", "bad_request", "too_large", "media_type", "unprocessable"}
<1>1. o \in {"create", "get", "list", "delete", "ready"}
  BY RequestsAssumption
<1>2. res \in {"ok", "not_found", "deadline", "canceled", "internal", "bad_request",
               "too_large", "media_type", "unprocessable", "draining"}
  BY DEF Outcomes
<1> QED BY <1>1, <1>2 DEF Answer, Success, failRequest, WriteContextError, readiness, Statuses

\* The refusals of a handler are outcomes that involve no statement.
LEMMA RefusalFacts ==
    ASSUME NEW o \in Operations, NEW res \in Refusals(o)
    PROVE  res \in {"not_found", "bad_request", "too_large", "media_type", "unprocessable", "draining"}
<1>1. o \in {"create", "get", "list", "delete", "ready"}
  BY RequestsAssumption
<1> QED BY <1>1 DEF Refusals

-----------------------------------------------------------------------------
(* The steps of one request.                                               *)

\* One step of request r, of any kind.
Step(r) == Begin(r) \/ Acquire(r) \/ Destroy(r) \/ Serve(r) \/ Disturb(r)

\* The places of the other requests are not affected by a step of r.
LEMMA OthersUnchanged ==
    ASSUME TypeOK, NEW r \in Requests, Step(r), NEW q \in Requests, q # r
    PROVE  /\ pc'[q] = pc[q] /\ op'[q] = op[q] /\ target'[q] = target[q] /\ ctx'[q] = ctx[q]
           /\ gone'[q] = gone[q] /\ slot'[q] = slot[q] /\ stmt'[q] = stmt[q]
           /\ outcome'[q] = outcome[q] /\ status'[q] = status[q] /\ aborted'[q] = aborted[q]
           /\ logged'[q] = logged[q] /\ wire'[q] = wire[q]
<1> USE DEF TypeOK
<1>1. CASE Begin(r)
  BY <1>1 DEF Begin, Arrive, Refuse
<1>2. CASE Acquire(r) \/ Destroy(r)
  BY <1>2 DEF Acquire, Destroy
<1>3. CASE Serve(r)
  BY <1>3 DEF Serve, Deadline, GiveUp, Interrupt, Reply, Respond, Log, Flush
<1>4. CASE Disturb(r)
  BY <1>4 DEF Disturb, Disconnect, ConnectFails, ConnectionLost, Execute, StatementFails, Panic, Abort
<1> QED BY <1>1, <1>2, <1>3, <1>4 DEF Step

\* Types are kept.
LEMMA StepType ==
    ASSUME TypeOK, NEW r \in Requests, Untouched(r), Truthful(r), Step(r)
    PROVE  TypeOK'
<1>1. ASSUME NEW o \in Operations, NEW t \in Targets(o), Arrive(r, o, t) PROVE TypeOK'
  <2>1. t \in Widgets \cup {NoTarget}
    BY DEF Targets
  <2> QED BY <1>1, <2>1 DEF Arrive, TypeOK
<1>2. ASSUME NEW o \in Operations, NEW res \in Refusals(o), Refuse(r, o, res) PROVE TypeOK'
  <2>1. res \in Outcomes
    BY RefusalFacts DEF Outcomes
  <2> QED BY <1>2, <2>1 DEF Refuse, TypeOK
<1>3. CASE Acquire(r)
  BY <1>3 DEF Acquire, TypeOK
<1>4. CASE Destroy(r)
  BY <1>4 DEF Destroy, TypeOK
<1>5. CASE Deadline(r)
  BY <1>5 DEF Deadline, TypeOK
<1>6. CASE GiveUp(r)
  BY <1>6 DEF GiveUp, TypeOK, Outcomes
<1>7. CASE Interrupt(r)
  BY <1>7 DEF Interrupt, TypeOK, Outcomes
<1>8. CASE Reply(r)
  BY <1>8 DEF Reply, TypeOK, Outcomes, RepositoryResult
<1>9. CASE Respond(r)
  <2>1. op[r] \in Operations /\ outcome[r] \in Outcomes \ {"none"}
    BY <1>9 DEF Respond, TypeOK, Untouched, Truthful
  <2>2. Answer(op[r], outcome[r]) \in Statuses
    BY <2>1, AnswerFacts
  <2> QED BY <1>9, <2>2 DEF Respond, TypeOK
<1>10. CASE Log(r)
  BY <1>10 DEF Log, TypeOK, recordedStatus, Statuses
<1>11. CASE Flush(r)
  BY <1>11 DEF Flush, TypeOK, Statuses
<1>12. CASE Disconnect(r)
  BY <1>12 DEF Disconnect, TypeOK
<1>13. CASE ConnectFails(r) \/ ConnectionLost(r)
  BY <1>13 DEF ConnectFails, ConnectionLost, TypeOK, Outcomes
<1>14. CASE Execute(r)
  BY <1>14 DEF Execute, TypeOK
<1>15. CASE StatementFails(r)
  BY <1>15 DEF StatementFails, TypeOK
<1>16. CASE Panic(r)
  BY <1>16 DEF Panic, TypeOK, Statuses
<1>17. CASE Abort(r)
  BY <1>17 DEF Abort, TypeOK
<1> QED BY <1>1, <1>2, <1>3, <1>4, <1>5, <1>6, <1>7, <1>8, <1>9, <1>10, <1>11, <1>12,
           <1>13, <1>14, <1>15, <1>16, <1>17 DEF Step, Begin, Serve, Disturb

\* Nothing happens out of order.
LEMMA StepUntouched ==
    ASSUME TypeOK, NEW r \in Requests, Untouched(r), Truthful(r), Faithful(r), Step(r)
    PROVE  Untouched(r)'
<1> USE DEF TypeOK, Answered, clientClosedRequestStatus
<1>1. CASE Begin(r)
  BY <1>1, RefusalFacts, RequestsAssumption DEF Begin, Arrive, Refuse, Untouched, Truthful
<1>2. CASE Acquire(r)
  BY <1>2 DEF Acquire, Untouched, Truthful
<1>3. CASE Destroy(r)
  BY <1>3 DEF Destroy, Untouched, Truthful
<1>4. CASE Deadline(r)
  BY <1>4 DEF Deadline, Untouched, Truthful
<1>5. CASE GiveUp(r)
  BY <1>5 DEF GiveUp, Untouched, Truthful
<1>6. CASE Interrupt(r)
  BY <1>6 DEF Interrupt, Untouched, Truthful
<1>7. CASE Reply(r)
  BY <1>7 DEF Reply, RepositoryResult, Untouched, Truthful
<1>8. CASE Respond(r)
  <2>1. op[r] \in Operations /\ outcome[r] \in Outcomes \ {"none"}
    BY <1>8 DEF Respond, Untouched, Truthful
  <2> DEFINE a == Answer(op[r], outcome[r])
  <2>2. /\ a \in Statuses
        /\ a = 0 => outcome[r] = "canceled"
        /\ a \in 200..299 => outcome[r] = "ok"
        /\ a = 204 => op[r] = "delete"
        /\ a \in 400..499 =>
               outcome[r] \in {"not_found", "bad_request", "too_large", "media_type", "unprocessable"}
    BY <2>1, AnswerFacts
  <2> HIDE DEF a
  <2>3. status'[r] = a
    BY <1>8 DEF Respond, a
  <2> QED BY <1>8, <2>1, <2>2, <2>3 DEF Respond, Statuses, Untouched, Truthful
<1>9. CASE Log(r)
  BY <1>9 DEF Log, recordedStatus, Untouched, Truthful
<1>10. CASE Flush(r)
  BY <1>10 DEF Flush, Untouched, Truthful
<1>11. CASE Disconnect(r)
  BY <1>11 DEF Disconnect, Untouched, Truthful
<1>12. CASE ConnectFails(r)
  BY <1>12 DEF ConnectFails, Untouched, Truthful
<1>13. CASE ConnectionLost(r)
  BY <1>13 DEF ConnectionLost, Untouched, Truthful
<1>14. CASE Execute(r)
  BY <1>14 DEF Execute, Hits, Untouched, Truthful
<1>15. CASE StatementFails(r)
  BY <1>15 DEF StatementFails, Untouched, Truthful
<1>16. CASE Panic(r)
  BY <1>16 DEF Panic, Untouched, Truthful
<1>17. CASE Abort(r)
  BY <1>17 DEF Abort, Untouched, Truthful
<1> QED BY <1>1, <1>2, <1>3, <1>4, <1>5, <1>6, <1>7, <1>8, <1>9,
           <1>10, <1>11, <1>12, <1>13, <1>14, <1>15, <1>16, <1>17 DEF Step, Serve, Disturb

\* The outcome, and the status made from it, stay true of the statement.
LEMMA StepTruthful ==
    ASSUME TypeOK, NEW r \in Requests, Untouched(r), Truthful(r), Faithful(r), Step(r)
    PROVE  Truthful(r)'
<1> USE DEF TypeOK, Answered, clientClosedRequestStatus
<1>1. CASE Begin(r)
  BY <1>1, RefusalFacts, RequestsAssumption DEF Begin, Arrive, Refuse, Untouched, Truthful
<1>2. CASE Acquire(r)
  BY <1>2 DEF Acquire, Untouched, Truthful
<1>3. CASE Destroy(r)
  BY <1>3 DEF Destroy, Untouched, Truthful
<1>4. CASE Deadline(r)
  BY <1>4 DEF Deadline, Untouched, Truthful
<1>5. CASE GiveUp(r)
  BY <1>5 DEF GiveUp, Untouched, Truthful
<1>6. CASE Interrupt(r)
  BY <1>6 DEF Interrupt, Untouched, Truthful
<1>7. CASE Reply(r)
  BY <1>7 DEF Reply, RepositoryResult, Untouched, Truthful
<1>8. CASE Respond(r)
  <2>1. op[r] \in Operations /\ outcome[r] \in Outcomes \ {"none"}
    BY <1>8 DEF Respond, Untouched, Truthful
  <2> DEFINE a == Answer(op[r], outcome[r])
  <2>2. /\ a \in Statuses
        /\ a = 0 => outcome[r] = "canceled"
        /\ a \in 200..299 => outcome[r] = "ok"
        /\ a = 204 => op[r] = "delete"
        /\ a \in 400..499 =>
               outcome[r] \in {"not_found", "bad_request", "too_large", "media_type", "unprocessable"}
    BY <2>1, AnswerFacts
  <2> HIDE DEF a
  <2>3. status'[r] = a
    BY <1>8 DEF Respond, a
  <2> QED BY <1>8, <2>1, <2>2, <2>3 DEF Respond, Statuses, Untouched, Truthful
<1>9. CASE Log(r)
  BY <1>9 DEF Log, recordedStatus, Untouched, Truthful
<1>10. CASE Flush(r)
  BY <1>10 DEF Flush, Untouched, Truthful
<1>11. CASE Disconnect(r)
  BY <1>11 DEF Disconnect, Untouched, Truthful
<1>12. CASE ConnectFails(r)
  BY <1>12 DEF ConnectFails, Untouched, Truthful
<1>13. CASE ConnectionLost(r)
  BY <1>13 DEF ConnectionLost, Untouched, Truthful
<1>14. CASE Execute(r)
  BY <1>14 DEF Execute, Hits, Untouched, Truthful
<1>15. CASE StatementFails(r)
  BY <1>15 DEF StatementFails, Untouched, Truthful
<1>16. CASE Panic(r)
  BY <1>16 DEF Panic, Untouched, Truthful
<1>17. CASE Abort(r)
  BY <1>17 DEF Abort, Untouched, Truthful
<1> QED BY <1>1, <1>2, <1>3, <1>4, <1>5, <1>6, <1>7, <1>8, <1>9,
           <1>10, <1>11, <1>12, <1>13, <1>14, <1>15, <1>16, <1>17 DEF Step, Serve, Disturb

\* The log record and the wire stay true of the status.
LEMMA StepFaithful ==
    ASSUME TypeOK, NEW r \in Requests, Untouched(r), Truthful(r), Faithful(r), Step(r)
    PROVE  Faithful(r)'
<1> USE DEF TypeOK, Answered, clientClosedRequestStatus
<1>1. CASE Begin(r)
  BY <1>1, RefusalFacts, RequestsAssumption DEF Begin, Arrive, Refuse, Untouched, Truthful, Faithful
<1>2. CASE Acquire(r)
  BY <1>2 DEF Acquire, Untouched, Truthful, Faithful
<1>3. CASE Destroy(r)
  BY <1>3 DEF Destroy, Untouched, Truthful, Faithful
<1>4. CASE Deadline(r)
  BY <1>4 DEF Deadline, Untouched, Truthful, Faithful
<1>5. CASE GiveUp(r)
  BY <1>5 DEF GiveUp, Untouched, Truthful, Faithful
<1>6. CASE Interrupt(r)
  BY <1>6 DEF Interrupt, Untouched, Truthful, Faithful
<1>7. CASE Reply(r)
  BY <1>7 DEF Reply, RepositoryResult, Untouched, Truthful, Faithful
<1>8. CASE Respond(r)
  <2>1. op[r] \in Operations /\ outcome[r] \in Outcomes \ {"none"}
    BY <1>8 DEF Respond, Untouched, Truthful
  <2> DEFINE a == Answer(op[r], outcome[r])
  <2>2. /\ a \in Statuses
        /\ a = 0 => outcome[r] = "canceled"
        /\ a \in 200..299 => outcome[r] = "ok"
        /\ a = 204 => op[r] = "delete"
        /\ a \in 400..499 =>
               outcome[r] \in {"not_found", "bad_request", "too_large", "media_type", "unprocessable"}
    BY <2>1, AnswerFacts
  <2> HIDE DEF a
  <2>3. status'[r] = a
    BY <1>8 DEF Respond, a
  <2> QED BY <1>8, <2>1, <2>2, <2>3 DEF Respond, Statuses, Untouched, Truthful, Faithful
<1>9. CASE Log(r)
  BY <1>9 DEF Log, recordedStatus, Untouched, Truthful, Faithful
<1>10. CASE Flush(r)
  BY <1>10 DEF Flush, Untouched, Truthful, Faithful
<1>11. CASE Disconnect(r)
  BY <1>11 DEF Disconnect, Untouched, Truthful, Faithful
<1>12. CASE ConnectFails(r)
  BY <1>12 DEF ConnectFails, Untouched, Truthful, Faithful
<1>13. CASE ConnectionLost(r)
  BY <1>13 DEF ConnectionLost, Untouched, Truthful, Faithful
<1>14. CASE Execute(r)
  BY <1>14 DEF Execute, Hits, Untouched, Truthful, Faithful
<1>15. CASE StatementFails(r)
  BY <1>15 DEF StatementFails, Untouched, Truthful, Faithful
<1>16. CASE Panic(r)
  BY <1>16 DEF Panic, Untouched, Truthful, Faithful
<1>17. CASE Abort(r)
  BY <1>17 DEF Abort, Untouched, Truthful, Faithful
<1> QED BY <1>1, <1>2, <1>3, <1>4, <1>5, <1>6, <1>7, <1>8, <1>9,
           <1>10, <1>11, <1>12, <1>13, <1>14, <1>15, <1>16, <1>17 DEF Step, Serve, Disturb

-----------------------------------------------------------------------------
(* What relates several requests: the table and the pool.                  *)

\* Only Execute touches the table; every other step keeps the operation and the
\* target of each statement that was applied.
LEMMA AppliedKept ==
    ASSUME TypeOK, NEW r \in Requests, Untouched(r), Step(r), ~Execute(r)
    PROVE  /\ rows' = rows
           /\ stmt'[r] = "applied" => stmt[r] = "applied" /\ op'[r] = op[r] /\ target'[r] = target[r]
<1> USE DEF TypeOK
<1>1. CASE Begin(r)
  BY <1>1 DEF Begin, Arrive, Refuse, Untouched
<1>2. CASE Acquire(r) \/ Destroy(r)
  BY <1>2 DEF Acquire, Destroy
<1>3. CASE Serve(r)
  BY <1>3 DEF Serve, Deadline, GiveUp, Interrupt, Reply, Respond, Log, Flush
<1>4. CASE Disturb(r)
  BY <1>4 DEF Disturb, Disconnect, ConnectFails, ConnectionLost, StatementFails, Panic, Abort
<1> QED BY <1>1, <1>2, <1>3, <1>4 DEF Step

\* A statement of a delete always names a widget.
LEMMA TargetsKept ==
    ASSUME TypeOK, NEW r \in Requests, Untouched(r), Truthful(r), Step(r),
           op[r] = "delete" /\ (pc[r] = "acquire" \/ stmt[r] # "none") => target[r] \in Widgets
    PROVE  op'[r] = "delete" /\ (pc'[r] = "acquire" \/ stmt'[r] # "none") => target'[r] \in Widgets
<1> USE DEF TypeOK
<1>1. CASE Begin(r)
  BY <1>1 DEF Begin, Arrive, Refuse, Targets, Untouched
<1>2. CASE Acquire(r) \/ Destroy(r)
  BY <1>2 DEF Acquire, Destroy
<1>3. CASE Serve(r)
  BY <1>3 DEF Serve, Deadline, GiveUp, Interrupt, Reply, Respond, Log, Flush
<1>4. CASE Disturb(r)
  BY <1>4 DEF Disturb, Disconnect, ConnectFails, ConnectionLost, Execute, StatementFails, Panic, Abort
<1> QED BY <1>1, <1>2, <1>3, <1>4 DEF Step

\* A second delete of the same widget finds no row.
LEMMA StepDeletedOnce ==
    ASSUME RequestsInv, NEW r \in Requests, Step(r)
    PROVE  DeletedOnce'
<1>1. TypeOK /\ DeletedOnce /\ Untouched(r) /\ Truthful(r)
  BY DEF RequestsInv
<1> DEFINE named(q) == op[q] = "delete" /\ (pc[q] = "acquire" \/ stmt[q] # "none") => target[q] \in Widgets
<1>2. \A q \in Requests : named(q)'
  <2> SUFFICES ASSUME NEW q \in Requests PROVE named(q)'
    OBVIOUS
  <2>1. CASE q = r
    <3>1. named(r)
      BY <1>1 DEF DeletedOnce
    <3> QED BY <1>1, <2>1, <3>1, TargetsKept
  <2>2. CASE q # r
    <3>1. /\ pc'[q] = pc[q] /\ op'[q] = op[q] /\ target'[q] = target[q] /\ stmt'[q] = stmt[q]
      BY <1>1, <2>2, OthersUnchanged
    <3> QED BY <1>1, <3>1 DEF DeletedOnce
  <2> QED BY <2>1, <2>2
<1>3. CASE Execute(r)
  <2>1. /\ stmt[r] = "running" /\ op' = op /\ target' = target
        /\ stmt'[r] = (IF Hits(r) THEN "applied" ELSE "missed")
        /\ \A q \in Requests \ {r} : stmt'[q] = stmt[q]
        /\ rows' \subseteq rows \cup {r}
        /\ op[r] = "delete" => rows' = rows \ {target[r]}
    BY <1>1, <1>3 DEF Execute, TypeOK
  <2>2. r \notin Widgets
    BY RequestsAssumption
  <2>3. \A q \in Requests : op[q] = "delete" /\ stmt'[q] = "applied" => target[q] \notin rows'
    <3> SUFFICES ASSUME NEW q \in Requests, op[q] = "delete", stmt'[q] = "applied"
                 PROVE  target[q] \notin rows'
      OBVIOUS
    <3>1. CASE q = r
      BY <2>1, <3>1
    <3>2. CASE q # r
      <4>1. stmt[q] = "applied" /\ target[q] \notin rows /\ target[q] \in Widgets
        BY <1>1, <2>1, <3>2 DEF DeletedOnce
      <4> QED BY <2>1, <2>2, <4>1
    <3> QED BY <3>1, <3>2
  <2>4. ASSUME NEW q \in Requests, op[q] = "delete", op[r] = "delete",
               stmt'[q] = "applied", stmt'[r] = "applied", target[q] = target[r], q # r
        PROVE  FALSE
    <3>1. target[r] \in rows
      BY <2>1, <2>4 DEF Hits
    <3>2. stmt[q] = "applied"
      BY <2>1, <2>4
    <3> QED BY <1>1, <2>4, <3>1, <3>2 DEF DeletedOnce
  <2>5. \A p, q \in Requests :
           op[p] = "delete" /\ op[q] = "delete" /\ stmt'[p] = "applied" /\ stmt'[q] = "applied"
           /\ target[p] = target[q] => p = q
    <3> SUFFICES ASSUME NEW p \in Requests, NEW q \in Requests, op[p] = "delete", op[q] = "delete",
                        stmt'[p] = "applied", stmt'[q] = "applied", target[p] = target[q], p # q
                 PROVE  FALSE
      OBVIOUS
    <3>1. CASE p = r
      BY <2>4, <3>1
    <3>2. CASE q = r
      BY <2>4, <3>2
    <3>3. CASE p # r /\ q # r
      BY <1>1, <2>1, <3>3 DEF DeletedOnce
    <3> QED BY <3>1, <3>2, <3>3
  <2> QED BY <1>2, <2>1, <2>3, <2>5 DEF DeletedOnce
<1>4. CASE ~Execute(r)
  <2>1. rows' = rows
    BY <1>1, <1>4, AppliedKept
  <2>2. \A q \in Requests :
           stmt'[q] = "applied" => stmt[q] = "applied" /\ op'[q] = op[q] /\ target'[q] = target[q]
    BY <1>1, <1>4, AppliedKept, OthersUnchanged
  <2> QED BY <1>1, <1>2, <2>1, <2>2 DEF DeletedOnce
<1> QED BY <1>3, <1>4

-----------------------------------------------------------------------------
(* The theorems.                                                           *)

LEMMA InitInv == Init => RequestsInv
<1> SUFFICES ASSUME Init PROVE RequestsInv
  OBVIOUS
<1>1. TypeOK
  BY DEF Init, TypeOK, Outcomes, Statuses
<1>2. \A r \in Requests : Untouched(r) /\ Truthful(r) /\ Faithful(r)
  BY DEF Init, Untouched, Truthful, Faithful, Answered
<1>3. DeletedOnce
  BY DEF Init, DeletedOnce
<1> QED BY <1>1, <1>2, <1>3 DEF RequestsInv

LEMMA NextInv == RequestsInv /\ [Next]_vars => RequestsInv'
<1> SUFFICES ASSUME RequestsInv, [Next]_vars PROVE RequestsInv'
  OBVIOUS
<1>1. CASE UNCHANGED vars
  <2> USE <1>1 DEF vars
  <2>1. TypeOK'
    BY DEF RequestsInv, TypeOK
  <2>2. \A r \in Requests : Untouched(r)' /\ Truthful(r)' /\ Faithful(r)'
    BY DEF RequestsInv, Untouched, Truthful, Faithful
  <2>3. DeletedOnce'
    BY DEF RequestsInv, DeletedOnce
  <2> QED BY <2>1, <2>2, <2>3 DEF RequestsInv
<1>2. ASSUME NEW r \in Requests, Step(r) PROVE RequestsInv'
  <2>1. TypeOK /\ Untouched(r) /\ Truthful(r) /\ Faithful(r)
    BY DEF RequestsInv
  <2>2. TypeOK'
    BY <1>2, <2>1, StepType
  <2>3. ASSUME NEW q \in Requests PROVE Untouched(q)' /\ Truthful(q)' /\ Faithful(q)'
    <3>1. CASE q = r
      BY <1>2, <2>1, <3>1, StepUntouched, StepTruthful, StepFaithful
    <3>2. CASE q # r
      <4>1. /\ pc'[q] = pc[q] /\ op'[q] = op[q] /\ target'[q] = target[q] /\ ctx'[q] = ctx[q]
            /\ gone'[q] = gone[q] /\ slot'[q] = slot[q] /\ stmt'[q] = stmt[q]
            /\ outcome'[q] = outcome[q] /\ status'[q] = status[q] /\ aborted'[q] = aborted[q]
            /\ logged'[q] = logged[q] /\ wire'[q] = wire[q]
        BY <1>2, <2>1, <3>2, OthersUnchanged
      <4>2. Untouched(q) /\ Truthful(q) /\ Faithful(q)
        BY DEF RequestsInv
      <4> QED BY <4>1, <4>2 DEF Untouched, Truthful, Faithful
    <3> QED BY <3>1, <3>2
  <2>4. DeletedOnce'
    BY <1>2, StepDeletedOnce
  <2> QED BY <2>2, <2>3, <2>4 DEF RequestsInv
<1>3. CASE Terminated
  BY <1>1, <1>3 DEF Terminated
<1> QED BY <1>1, <1>2, <1>3 DEF Next, Step

\* Every behaviour keeps the inductive invariant, the types included.
THEOREM RequestsInvariant == Spec => []RequestsInv
<1> QED BY InitInv, NextInv, PTL DEF Spec

\* Type correctness: every variable stays within the values the code gives it.
THEOREM RequestsTypes == Spec => []TypeOK
<1>1. RequestsInv => TypeOK
  BY DEF RequestsInv
<1> QED BY <1>1, RequestsInvariant, PTL

\* Whatever the deadline, the client and the database do, an answer is true of
\* the statement behind it.
THEOREM AnswersAlwaysTrue == Spec => []AnswersAreTrue
<1>1. RequestsInv => AnswersAreTrue
  BY DEF RequestsInv, Truthful, AnswersAreTrue
<1> QED BY <1>1, RequestsInvariant, PTL

\* Of any number of concurrent deletes of one widget at most one answers 204.
THEOREM DeletesExclude == Spec => []OneDeleteWins
<1>1. RequestsInv => OneDeleteWins
  BY DEF RequestsInv, Truthful, DeletedOnce, OneDeleteWins
<1> QED BY <1>1, RequestsInvariant, PTL

\* The request log never reports a response that was not written.
THEOREM NothingPhantomLogged == Spec => []NoPhantomResponse
<1>1. RequestsInv => NoPhantomResponse
  BY DEF RequestsInv, Untouched, Faithful, NoPhantomResponse, TypeOK, clientClosedRequestStatus
<1> QED BY <1>1, RequestsInvariant, PTL

\* What the request log reports is what a client that stayed received.
THEOREM LogIsFaithful == Spec => []LogMatchesWire
<1>1. RequestsInv => LogMatchesWire
  BY DEF RequestsInv, Untouched, Faithful, LogMatchesWire, TypeOK, clientClosedRequestStatus,
         Answered, Statuses
<1> QED BY <1>1, RequestsInvariant, PTL

\* A status that was written is final: neither a panic after the response nor
\* any other step replaces it.
THEOREM StatusWrittenOnce == Spec => OneStatus
<1>1. RequestsInv /\ [Next]_vars => [\A r \in Requests : status[r] # 0 => status'[r] = status[r]]_vars
  <2> SUFFICES ASSUME RequestsInv, Next, NEW q \in Requests, status[q] # 0
               PROVE  status'[q] = status[q]
    OBVIOUS
  <2>1. TypeOK /\ Untouched(q)
    BY DEF RequestsInv
  <2>2. ASSUME NEW r \in Requests, Step(r), q # r PROVE status'[q] = status[q]
    BY <2>1, <2>2, OthersUnchanged
  <2>3. CASE Step(q)
    <3> USE <2>1 DEF TypeOK, Untouched, Answered
    <3>1. CASE Begin(q)
      BY <3>1 DEF Begin, Arrive, Refuse
    <3>2. CASE Acquire(q) \/ Destroy(q)
      BY <3>2 DEF Acquire, Destroy
    <3>3. CASE Serve(q)
      BY <3>3 DEF Serve, Deadline, GiveUp, Interrupt, Reply, Respond, Log, Flush
    <3>4. CASE Disturb(q)
      BY <3>4 DEF Disturb, Disconnect, ConnectFails, ConnectionLost, Execute, StatementFails, Panic, Abort
    <3> QED BY <2>3, <3>1, <3>2, <3>3, <3>4 DEF Step
  <2>4. CASE Terminated
    BY <2>4 DEF Terminated, vars
  <2> QED BY <2>2, <2>3, <2>4 DEF Next, Step
<1> QED BY <1>1, RequestsInvariant, PTL DEF Spec, OneStatus

-----------------------------------------------------------------------------
(* Every request runs out of steps.                                        *)

\* Eleven steps are the most at every place: before the query there is neither a
\* connection nor a statement to end.
LEMMA RemainingBound ==
    ASSUME TypeOK, NEW r \in Requests, Untouched(r)
    PROVE  Remaining(r) \in 0..11
<1>1. pc[r] \in {"idle", "acquire", "query", "respond", "return", "unwound", "flush", "done"}
  BY DEF TypeOK
<1>2. /\ Ahead("idle") = 9 /\ Ahead("acquire") = 8 /\ Ahead("query") = 5
      /\ Ahead("respond") = 4 /\ Ahead("return") = 3 /\ Ahead("unwound") = 2
      /\ Ahead("flush") = 1 /\ Ahead("done") = 0
  BY DEF Ahead
<1>3. Ahead(pc[r]) \in 0..9 /\ (Ahead(pc[r]) > 5 => pc[r] \in {"idle", "acquire"})
  BY <1>1, <1>2
<1>4. pc[r] \in {"idle", "acquire"} => slot[r] = "none" /\ stmt[r] # "running"
  BY DEF Untouched
<1> QED BY <1>3, <1>4 DEF Remaining

\* A step of a request uses up one of those it had left, or more.
LEMMA StepRunsDown ==
    ASSUME TypeOK, NEW r \in Requests, Untouched(r), Truthful(r), Step(r)
    PROVE  Remaining(r)' < Remaining(r)
<1> USE DEF TypeOK, Remaining, Ahead
<1>1. CASE Begin(r)
  BY <1>1 DEF Begin, Arrive, Refuse
<1>2. CASE Acquire(r)
  BY <1>2 DEF Acquire, Untouched
<1>3. CASE Destroy(r)
  BY <1>3 DEF Destroy
<1>4. CASE Deadline(r)
  BY <1>4 DEF Deadline
<1>5. CASE GiveUp(r) \/ ConnectFails(r)
  BY <1>5 DEF GiveUp, ConnectFails
<1>6. CASE Reply(r)
  BY <1>6 DEF Reply
<1>7. CASE Interrupt(r) \/ ConnectionLost(r)
  BY <1>7 DEF Interrupt, ConnectionLost, Truthful
<1>8. CASE Respond(r) \/ Log(r) \/ Flush(r)
  BY <1>8 DEF Respond, Log, Flush
<1>9. CASE Disconnect(r)
  BY <1>9 DEF Disconnect
<1>10. CASE Execute(r) \/ StatementFails(r)
  BY <1>10 DEF Execute, StatementFails
<1>11. CASE Panic(r) \/ Abort(r)
  BY <1>11 DEF Panic, Abort
<1> QED BY <1>1, <1>2, <1>3, <1>4, <1>5, <1>6, <1>7, <1>8, <1>9, <1>10, <1>11
        DEF Step, Serve, Disturb

\* No request ever has more than eleven steps before it.
THEOREM LivesAreBounded == Spec => []BoundedLife
<1>1. RequestsInv => BoundedLife
  BY RemainingBound DEF RequestsInv, BoundedLife
<1> QED BY <1>1, RequestsInvariant, PTL

\* Every step brings one request nearer its end and sets no other back: with any
\* number of requests, a full pool and a database that never answers, there is
\* no retry and no endless bustle; that each goes on until it is done is the
\* fairness EveryRequestEnds and SlotsReturn are checked under.
THEOREM StepsRunOut == Spec => RunsDown
<1>1. RequestsInv /\ [Next]_vars =>
        [\E r \in Requests :
             /\ Remaining(r)' < Remaining(r)
             /\ \A q \in Requests \ {r} : Remaining(q)' = Remaining(q)]_vars
  <2> SUFFICES ASSUME RequestsInv, Next, vars' # vars
               PROVE  \E r \in Requests :
                        /\ Remaining(r)' < Remaining(r)
                        /\ \A q \in Requests \ {r} : Remaining(q)' = Remaining(q)
    OBVIOUS
  <2>1. PICK r \in Requests : Step(r)
    BY DEF Next, Step, Terminated
  <2>2. TypeOK /\ Untouched(r) /\ Truthful(r)
    BY DEF RequestsInv
  <2>3. Remaining(r)' < Remaining(r)
    BY <2>1, <2>2, StepRunsDown
  <2>4. ASSUME NEW q \in Requests \ {r} PROVE Remaining(q)' = Remaining(q)
    BY <2>1, <2>2, OthersUnchanged DEF Remaining
  <2> QED BY <2>3, <2>4
<1> QED BY <1>1, RequestsInvariant, PTL DEF Spec, RunsDown

-----------------------------------------------------------------------------
(* The refinement of WidgetAPI.                                            *)

\* What the mapping sees of a step of r: at most the effect and the answer of r.
LEMMA StepBars ==
    ASSUME TypeOK, NEW r \in Requests, Step(r)
    PROVE  /\ effectBar' = [effectBar EXCEPT ![r] = EffectOf(stmt'[r])]
           /\ answerBar' = [answerBar EXCEPT ![r] =
                                IF pc'[r] \in Answered THEN Meaning(status'[r]) ELSE "none"]
<1>1. \A q \in Requests : q # r => stmt'[q] = stmt[q] /\ pc'[q] = pc[q] /\ status'[q] = status[q]
  BY OthersUnchanged
<1>2. effectBar' = [effectBar EXCEPT ![r] = EffectOf(stmt'[r])]
  BY <1>1 DEF effectBar
<1>3. answerBar' = [answerBar EXCEPT ![r] =
                        IF pc'[r] \in Answered THEN Meaning(status'[r]) ELSE "none"]
  BY <1>1 DEF answerBar
<1> QED BY <1>2, <1>3

\* A step of r that changes neither the effect nor the answer is not seen.
LEMMA Unseen ==
    ASSUME TypeOK, NEW r \in Requests, Step(r),
           EffectOf(stmt'[r]) = effectBar[r],
           (IF pc'[r] \in Answered THEN Meaning(status'[r]) ELSE "none") = answerBar[r]
    PROVE  effectBar' = effectBar /\ answerBar' = answerBar
BY StepBars DEF effectBar, answerBar

LEMMA InitRefines == Init => API!Init
BY DEF Init, API!Init, effectBar, answerBar, EffectOf, Answered

LEMMA StepRefines ==
    ASSUME RequestsInv, RequestsInv', NEW r \in Requests, Step(r)
    PROVE  API!Next \/ UNCHANGED API!vars
<1> DEFINE ans == IF pc'[r] \in Answered THEN Meaning(status'[r]) ELSE "none"
<1>1. TypeOK /\ Untouched(r) /\ Truthful(r) /\ Truthful(r)'
  BY DEF RequestsInv
<1>2. /\ effectBar[r] = EffectOf(stmt[r])
      /\ answerBar[r] = IF pc[r] \in Answered THEN Meaning(status[r]) ELSE "none"
  BY DEF effectBar, answerBar
<1>3. /\ effectBar' = [effectBar EXCEPT ![r] = EffectOf(stmt'[r])]
      /\ answerBar' = [answerBar EXCEPT ![r] = ans]
  BY <1>1, StepBars
<1>4. ASSUME UNCHANGED <<op, target, rows>>, EffectOf(stmt'[r]) = effectBar[r], ans = answerBar[r]
      PROVE  UNCHANGED API!vars
  BY <1>1, <1>4, Unseen DEF API!vars
<1>5. CASE Begin(r)
  <2>1. pc[r] = "idle" /\ pc'[r] \notin Answered /\ pc[r] \notin Answered /\ stmt' = stmt /\ rows' = rows
    BY <1>1, <1>5 DEF Begin, Arrive, Refuse, TypeOK, Answered
  <2>2. effectBar' = effectBar /\ answerBar' = answerBar
    BY <1>1, <1>2, <2>1, Unseen
  <2>3. PICK o \in Operations, t \in Widgets \cup {NoTarget} :
            op' = [op EXCEPT ![r] = o] /\ target' = [target EXCEPT ![r] = t]
    <3>1. ASSUME NEW o \in Operations, NEW t \in Targets(o), Arrive(r, o, t)
          PROVE  \E p \in Operations, u \in Widgets \cup {NoTarget} :
                     op' = [op EXCEPT ![r] = p] /\ target' = [target EXCEPT ![r] = u]
      BY <3>1 DEF Arrive, Targets
    <3>2. ASSUME NEW o \in Operations, NEW res \in Refusals(o), Refuse(r, o, res)
          PROVE  \E p \in Operations, u \in Widgets \cup {NoTarget} :
                     op' = [op EXCEPT ![r] = p] /\ target' = [target EXCEPT ![r] = u]
      <4>1. target[r] \in Widgets \cup {NoTarget} /\ target' = [target EXCEPT ![r] = target[r]]
        BY <1>1, <3>2 DEF Refuse, TypeOK
      <4> QED BY <3>2, <4>1 DEF Refuse
    <3> QED BY <1>5, <3>1, <3>2 DEF Begin
  <2>4. op[r] = "none"
    BY <1>1, <2>1 DEF Untouched
  <2>5. API!Invoke(r, o, t)
    BY <2>1, <2>2, <2>3, <2>4 DEF API!Invoke
  <2> QED BY <2>5 DEF API!Next
<1>6. CASE Acquire(r)
  <2>1. stmt[r] = "none" /\ stmt'[r] = "running" /\ pc[r] \notin Answered /\ pc'[r] \notin Answered
        /\ UNCHANGED <<op, target, rows>>
    BY <1>1, <1>6 DEF Acquire, Untouched, TypeOK, Answered
  <2> QED BY <1>2, <1>4, <2>1 DEF EffectOf
<1>7. CASE \/ Destroy(r) \/ Deadline(r) \/ Disconnect(r) \/ GiveUp(r) \/ ConnectFails(r)
           \/ Reply(r) \/ Interrupt(r) \/ ConnectionLost(r)
  <2>1. /\ stmt' = stmt /\ status' = status /\ UNCHANGED <<op, target, rows>>
        /\ pc'[r] \in Answered <=> pc[r] \in Answered
    BY <1>1, <1>7 DEF Destroy, Deadline, Disconnect, GiveUp, ConnectFails, Reply, Interrupt,
                      ConnectionLost, TypeOK, Answered
  <2> QED BY <1>2, <1>4, <2>1
<1>8. CASE Log(r) \/ Flush(r)
  <2>1. /\ stmt' = stmt /\ status' = status /\ UNCHANGED <<op, target, rows>>
        /\ pc'[r] \in Answered /\ pc[r] \in Answered
    BY <1>1, <1>8 DEF Log, Flush, TypeOK, Answered
  <2> QED BY <1>2, <1>4, <2>1
<1>9. CASE Execute(r)
  <2>1. /\ stmt[r] = "running" /\ pc' = pc /\ status' = status /\ UNCHANGED <<op, target>>
        /\ stmt'[r] = IF Hits(r) THEN "applied" ELSE "missed"
    BY <1>1, <1>9 DEF Execute, TypeOK
  <2>2. op[r] # "none" /\ effectBar[r] = "none"
    BY <1>1, <1>2, <2>1 DEF Untouched, EffectOf
  <2>3. answerBar[r] \in {"none", "unknown"}
    BY <1>1, <1>2, <2>1 DEF Truthful, Meaning
  <2>4. answerBar' = answerBar
    <3>1. answerBar' = [answerBar EXCEPT ![r] = answerBar[r]]
      BY <1>2, <1>3, <2>1
    <3> QED BY <3>1 DEF answerBar
  <2>5. effectBar' = [effectBar EXCEPT ![r] = IF Hits(r) THEN "applied" ELSE "missed"]
    BY <1>3, <2>1 DEF EffectOf
  <2>6. API!TakeEffect(r)
    <3>1. CASE op[r] \in {"get", "delete"} /\ target[r] \notin rows
      <4>1. ~Hits(r) /\ rows' = rows
        BY <1>9, <3>1, <1>1 DEF Hits, Execute, TypeOK
      <4> QED BY <2>1, <2>2, <2>3, <2>4, <2>5, <3>1, <4>1 DEF API!TakeEffect
    <3>2. CASE ~(op[r] \in {"get", "delete"} /\ target[r] \notin rows)
      <4>1. Hits(r)
        BY <3>2 DEF Hits
      <4>2. rows' = CASE op[r] = "create" -> rows \cup {r}
                      [] op[r] = "delete" -> rows \ {target[r]}
                      [] OTHER -> rows
        BY <1>9 DEF Execute
      <4> QED BY <2>1, <2>2, <2>3, <2>4, <2>5, <3>2, <4>1, <4>2 DEF API!TakeEffect
    <3> QED BY <3>1, <3>2
  <2> QED BY <2>6 DEF API!Next
<1>10. CASE StatementFails(r)
  <2>1. /\ stmt[r] = "running" /\ stmt'[r] = "aborted" /\ pc' = pc /\ status' = status
        /\ UNCHANGED <<op, target, rows>>
    BY <1>1, <1>10 DEF StatementFails, TypeOK
  <2>2. op[r] # "none" /\ effectBar[r] = "none"
    BY <1>1, <1>2, <2>1 DEF Untouched, EffectOf
  <2>3. answerBar' = [answerBar EXCEPT ![r] = answerBar[r]]
    BY <1>2, <1>3, <2>1
  <2>4. answerBar' = answerBar
    BY <2>3 DEF answerBar
  <2>5. effectBar' = [effectBar EXCEPT ![r] = "failed"]
    BY <1>3, <2>1 DEF EffectOf
  <2>6. API!Fail(r)
    BY <2>1, <2>2, <2>4, <2>5 DEF API!Fail
  <2> QED BY <2>6 DEF API!Next
<1>11. CASE Respond(r) \/ Abort(r) \/ (Panic(r) /\ pc[r] = "respond")
  <2>1. /\ pc[r] = "respond" /\ pc'[r] \in Answered /\ pc[r] \notin Answered
        /\ stmt' = stmt /\ UNCHANGED <<op, target, rows>>
    BY <1>1, <1>11 DEF Respond, Abort, Panic, TypeOK, Answered
  <2>2. effectBar' = effectBar
    <3>1. effectBar' = [effectBar EXCEPT ![r] = effectBar[r]]
      BY <1>2, <1>3, <2>1
    <3> QED BY <3>1 DEF effectBar
  <2>3. op[r] # "none" /\ answerBar[r] = "none"
    BY <1>1, <1>2, <2>1 DEF Untouched
  <2>4. ans \in {"success", "refusal", "unknown"}
    BY <2>1 DEF Meaning
  <2>5. ans = "success" => effectBar[r] = "applied"
    <3>1. ans = "success" => status'[r] \in 200..299
      BY <2>1 DEF Meaning
    <3> QED BY <1>1, <1>2, <2>1, <3>1 DEF Truthful, EffectOf
  <2>6. ans = "refusal" => effectBar[r] \in {"none", "missed"}
    <3>1. ans = "refusal" => status'[r] \in 400..499
      BY <2>1 DEF Meaning
    <3> QED BY <1>1, <1>2, <2>1, <3>1 DEF Truthful, EffectOf
  <2> HIDE DEF ans
  <2>7. API!Reply(r, ans)
    BY <1>3, <2>1, <2>2, <2>3, <2>5, <2>6 DEF API!Reply
  <2> QED BY <2>4, <2>7 DEF API!Next
<1>12. CASE Panic(r) /\ pc[r] # "respond"
  <2>1. /\ pc[r] \in Answered /\ pc'[r] \in Answered
        /\ stmt' = stmt /\ UNCHANGED <<op, target, rows>>
        /\ status'[r] = IF status[r] = 0 THEN 500 ELSE status[r]
    BY <1>1, <1>12 DEF Panic, TypeOK, Answered
  <2>2. Meaning(status'[r]) = Meaning(status[r])
    BY <2>1 DEF Meaning
  <2> QED BY <1>2, <1>4, <2>1, <2>2
<1> QED BY <1>5, <1>6, <1>7, <1>8, <1>9, <1>10, <1>11, <1>12 DEF Step, Serve, Disturb

\* The service implements its promise: for any number of concurrent requests,
\* a request takes effect once and atomically, and no definite answer is false.
THEOREM ImplementsWidgetAPI == Spec => ImplementsAPI
<1>1. RequestsInv /\ RequestsInv' /\ [Next]_vars => [API!Next]_(API!vars)
  <2> SUFFICES ASSUME RequestsInv, RequestsInv', [Next]_vars
               PROVE  API!Next \/ UNCHANGED API!vars
    OBVIOUS
  <2>1. ASSUME NEW r \in Requests, Step(r) PROVE API!Next \/ UNCHANGED API!vars
    BY <2>1, StepRefines
  <2>2. CASE UNCHANGED vars
    BY <2>2 DEF vars, API!vars, effectBar, answerBar
  <2>3. CASE Terminated
    BY <2>2, <2>3 DEF Terminated
  <2> QED BY <2>1, <2>2, <2>3 DEF Next, Step
<1> QED BY <1>1, InitRefines, RequestsInvariant, PTL DEF Spec, ImplementsAPI, API!Spec
=============================================================================
