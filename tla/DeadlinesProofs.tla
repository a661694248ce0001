-------------------------- MODULE DeadlinesProofs --------------------------
(***************************************************************************)
(* Proofs about Deadlines for all timer values that validate lets through  *)
(* and any number of requests and connections.                             *)
(***************************************************************************)
EXTENDS Deadlines, TLAPS

\* The timers are ordered natural numbers.
LEMMA Timers ==
    /\ ReadTimeout \in Nat /\ WriteTimeout \in Nat /\ RequestTimeout \in Nat
    /\ StatementTimeout \in Nat /\ readinessCheckTimeout \in Nat
    /\ RequestTimeout < WriteTimeout /\ StatementTimeout <= RequestTimeout
BY DeadlinesAssumption

\* A request's context ends by the request deadline, a probe's by its own.
LEMMA LimitFacts ==
    ASSUME NEW r \in Requests
    PROVE  /\ Limit(r) \in Nat /\ Limit(r) <= RequestTimeout
           /\ op[r] = "ready" => Limit(r) <= readinessCheckTimeout
           /\ op[r] # "ready" => Limit(r) = RequestTimeout
BY Timers DEF Limit

LEMMA InitInv == Init => DeadlinesInv
<1> SUFFICES ASSUME Init PROVE DeadlinesInv
  OBVIOUS
<1>1. TypeOK
  BY DEF Init, TypeOK
<1>2. ASSUME NEW r \in Requests PROVE Timed(r)
  BY Timers, LimitFacts DEF Init, Timed, NotStarted
<1>3. TimeoutOnlyAfterWait
  BY DEF Init, TimeoutOnlyAfterWait
<1> QED BY <1>1, <1>2, <1>3 DEF DeadlinesInv

\* A step of r leaves the other requests alone.
LEMMA OthersUnchanged ==
    ASSUME TypeOK, NEW r \in Requests, Step(r), NEW q \in Requests, q # r
    PROVE  /\ pc'[q] = pc[q] /\ op'[q] = op[q] /\ age'[q] = age[q] /\ read'[q] = read[q]
           /\ started'[q] = started[q] /\ slot'[q] = slot[q] /\ status'[q] = status[q]
BY DEF Step, Arrive, ReadBody, BodyFails, Acquire, GiveUp, Reply, StatementLimit, Interrupt,
       Closed, Answer, TypeOK

\* The step of a request keeps the types and what is known of its times.
LEMMA StepTimed ==
    ASSUME TypeOK, NEW r \in Requests, Timed(r), Step(r)
    PROVE  TypeOK' /\ Timed(r)'
<1> USE Timers, LimitFacts DEF TypeOK, Operations, NotStarted
<1>1. ASSUME NEW o \in Operations, Arrive(r, o) PROVE TypeOK' /\ Timed(r)'
  <2>1. age[r] = 0 /\ read[r] = 0 /\ started[r] = NotStarted /\ status[r] = 0 /\ slot[r] # "held"
    BY <1>1 DEF Timed, Arrive
  <2>2. Limit(r)' \in Nat
    BY DEF Limit
  <2> QED BY <1>1, <2>1, <2>2 DEF Arrive, Timed
<1>2. ASSUME UNCHANGED op PROVE Limit(r)' = Limit(r)
  BY <1>2 DEF Limit
<1>3. CASE ReadBody(r)
  BY <1>2, <1>3 DEF ReadBody, Timed
<1>4. CASE BodyFails(r)
  BY <1>2, <1>4 DEF BodyFails, Answer, Timed
<1>5. CASE Acquire(r)
  BY <1>2, <1>5 DEF Acquire, Timed
<1>6. CASE GiveUp(r)
  BY <1>2, <1>6 DEF GiveUp, Answer, Failure, Timed
<1>7. CASE Reply(r)
  BY <1>2, <1>7 DEF Reply, Answer, Timed
<1>8. CASE StatementLimit(r)
  BY <1>2, <1>8 DEF StatementLimit, Answer, Failure, Timed
<1>9. CASE Interrupt(r)
  BY <1>2, <1>9 DEF Interrupt, Answer, Failure, Timed
<1>10. CASE Closed(r)
  BY <1>2, <1>10 DEF Closed, Timed
<1> QED BY <1>1, <1>3, <1>4, <1>5, <1>6, <1>7, <1>8, <1>9, <1>10 DEF Step

\* A request that is answered with 504 either never started a query or started
\* it too late for the statement limit to come first.
LEMMA StepTimeout ==
    ASSUME TypeOK, NEW r \in Requests, Timed(r), Step(r),
           status[r] = 504 /\ started[r] # NotStarted => started[r] + StatementTimeout >= RequestTimeout
    PROVE  status'[r] = 504 /\ started'[r] # NotStarted => started'[r] + StatementTimeout >= RequestTimeout
<1> USE Timers, LimitFacts DEF TypeOK, NotStarted
<1>1. CASE \E o \in Operations : Arrive(r, o)
  BY <1>1 DEF Arrive
<1>2. CASE ReadBody(r) \/ BodyFails(r) \/ Acquire(r) \/ GiveUp(r) \/ Reply(r) \/ StatementLimit(r) \/ Closed(r)
  BY <1>2 DEF ReadBody, BodyFails, Acquire, GiveUp, Reply, StatementLimit, Closed, Answer, Failure, Timed
<1>3. CASE Interrupt(r)
  <2>1. /\ age[r] >= Limit(r) /\ age[r] - started[r] <= StatementTimeout
        /\ started' = started /\ started[r] \in Nat /\ age[r] \in Nat
        /\ status'[r] = 504 => op[r] # "ready"
    BY <1>3 DEF Interrupt, Answer, Failure, Timed
  <2> QED BY <2>1
<1> QED BY <1>1, <1>2, <1>3 DEF Step

\* Time passes only while no timer is due.
LEMMA TickTimed ==
    ASSUME TypeOK, Tick, NEW r \in Requests, Timed(r)
    PROVE  Timed(r)'
<1> USE Timers, LimitFacts DEF TypeOK, NotStarted
<1>1. /\ Limit(r)' = Limit(r)
      /\ pc' = pc /\ op' = op /\ read' = read /\ started' = started /\ slot' = slot /\ status' = status
  BY DEF Tick, Limit
<1>2. age'[r] = IF r \in Waiting THEN age[r] + 1 ELSE age[r]
  BY DEF Tick
<1>3. CASE r \in Waiting
  <2>1. /\ pc[r] = "body" => age[r] < ReadTimeout
        /\ pc[r] = "acquire" => age[r] < Limit(r)
        /\ pc[r] = "query" => age[r] < Limit(r) /\ age[r] - started[r] < StatementTimeout
    BY DEF Tick, Due, StatementDue, Timed
  <2> QED BY <1>1, <1>2, <1>3, <2>1 DEF Timed, Waiting
<1>4. CASE r \notin Waiting
  BY <1>1, <1>2, <1>4 DEF Timed, Waiting
<1> QED BY <1>3, <1>4

LEMMA NextInv == DeadlinesInv /\ [Next]_vars => DeadlinesInv'
<1> SUFFICES ASSUME DeadlinesInv, [Next]_vars PROVE DeadlinesInv'
  OBVIOUS
<1>1. ASSUME NEW r \in Requests, Step(r) PROVE DeadlinesInv'
  <2>1. TypeOK /\ Timed(r) /\ TimeoutOnlyAfterWait
    BY DEF DeadlinesInv
  <2>2. TypeOK' /\ Timed(r)'
    BY <1>1, <2>1, StepTimed
  <2>3. ASSUME NEW q \in Requests, q # r PROVE Timed(q)'
    <3>1. Timed(q)
      BY DEF DeadlinesInv
    <3>2. /\ pc'[q] = pc[q] /\ op'[q] = op[q] /\ age'[q] = age[q] /\ read'[q] = read[q]
          /\ started'[q] = started[q] /\ slot'[q] = slot[q] /\ status'[q] = status[q]
      BY <1>1, <2>1, <2>3, OthersUnchanged
    <3>3. Limit(q)' = Limit(q)
      BY <3>2 DEF Limit
    <3> QED BY <3>1, <3>2, <3>3 DEF Timed
  <2>4. TimeoutOnlyAfterWait'
    BY <1>1, <2>1, StepTimeout, OthersUnchanged DEF TimeoutOnlyAfterWait
  <2> QED BY <2>2, <2>3, <2>4 DEF DeadlinesInv
<1>2. CASE Tick
  <2>1. TypeOK'
    BY <1>2 DEF DeadlinesInv, Tick, TypeOK
  <2>2. TimeoutOnlyAfterWait'
    BY <1>2 DEF DeadlinesInv, Tick, TimeoutOnlyAfterWait
  <2> QED BY <1>2, <2>1, <2>2, TickTimed DEF DeadlinesInv
<1>3. CASE UNCHANGED vars
  BY <1>3 DEF vars, DeadlinesInv, TypeOK, Timed, Limit, TimeoutOnlyAfterWait
<1>4. CASE Terminated
  BY <1>3, <1>4 DEF Terminated
<1> QED BY <1>1, <1>2, <1>3, <1>4 DEF Next

\* Types, what is known of each request's times, and the waits behind each 504.
THEOREM DeadlinesInvariant == Spec => []DeadlinesInv
<1> QED BY InitInv, NextInv, PTL DEF Spec

\* Type correctness: every variable stays within the values the code gives it.
THEOREM DeadlinesTypes == Spec => []TypeOK
<1>1. DeadlinesInv => TypeOK
  BY DEF DeadlinesInv
<1> QED BY <1>1, DeadlinesInvariant, PTL

\* For all timer values, no handler outlasts its deadline except by reading a
\* body, which the read timeout ends, and no probe its readiness timeout.
THEOREM HandlersAreBounded == Spec => []HandlerBounded
<1>1. DeadlinesInv => HandlerBounded
  BY Timers, LimitFacts DEF DeadlinesInv, TypeOK, Timed, HandlerBounded, Operations
<1> QED BY <1>1, DeadlinesInvariant, PTL

\* For all timer values validate accepts, an answer is written before the write
\* timeout unless the body alone took that long.
THEOREM AnswersReachClients == Spec => []AnswerReachesClient
<1>1. DeadlinesInv => AnswerReachesClient
  BY Timers, LimitFacts DEF DeadlinesInv, TypeOK, Timed, AnswerReachesClient
<1> QED BY <1>1, DeadlinesInvariant, PTL

\* For all timer values, a query is answered as a request timeout only if it
\* got its connection with no more than the statement limit left.
THEOREM TimeoutsNeedAWait == Spec => []TimeoutOnlyAfterWait
<1>1. DeadlinesInv => TimeoutOnlyAfterWait
  BY DEF DeadlinesInv
<1> QED BY <1>1, DeadlinesInvariant, PTL

\* For all timer values, a running query is within the statement limit and its
\* request within its own.
THEOREM QueriesAreBounded == Spec => []QueryBounded
<1>1. DeadlinesInv => QueryBounded
  BY DEF DeadlinesInv, Timed, QueryBounded
<1> QED BY <1>1, DeadlinesInvariant, PTL
=============================================================================
