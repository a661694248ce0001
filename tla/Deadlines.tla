----------------------------- MODULE Deadlines -----------------------------
(***************************************************************************)
(* The timers of a request against each other: the server's read and write *)
(* timeouts, the request deadline, the readiness check's own and the       *)
(* statement limit PostgreSQL enforces, while requests share the pool.     *)
(* Time is discrete and starts, for each request, when its headers have    *)
(* been read.  Go code between two waits takes no time; two timers due in  *)
(* the same tick fire in either order.                                     *)
(***************************************************************************)
EXTENDS Integers, FiniteSets

CONSTANTS
    Requests,
    MaxConns,               \* DB_MAX_CONNS
    ReadTimeout,            \* HTTP_READ_TIMEOUT
    WriteTimeout,           \* HTTP_WRITE_TIMEOUT
    RequestTimeout,         \* HTTP_REQUEST_TIMEOUT
    StatementTimeout,       \* DB_STATEMENT_TIMEOUT
    readinessCheckTimeout

\* What Config shows of every configuration the process serves with.
ASSUME DeadlinesAssumption ==
    /\ MaxConns \in Nat \ {0} /\ IsFiniteSet(Requests)
    /\ ReadTimeout \in Nat \ {0} /\ WriteTimeout \in Nat
    /\ RequestTimeout \in Nat \ {0} /\ RequestTimeout < WriteTimeout
    /\ StatementTimeout \in Nat \ {0} /\ StatementTimeout <= RequestTimeout
    /\ readinessCheckTimeout \in Nat \ {0}

VARIABLES
    pc,         \* what the request waits for
    op,         \* its operation
    age,        \* ticks since its headers were read, frozen when it is answered
    read,       \* its age when its body had been read
    started,    \* its age when its query started, or NotStarted
    slot,       \* the pool slot it uses
    status      \* its answer

vars == <<pc, op, age, read, started, slot, status>>

NotStarted == -1
Operations == {"create", "get", "ready"}

\* Mutant: every handler makes do with the request's deadline.
RequestTimeoutOnly(r) == RequestTimeout

\* Mutant: the deadline starts to run when the body has been read.
LimitAfterBody(r) == read[r] + RequestTimeout

\* The age at which the context of the handler's query ends: readiness puts a
\* shorter deadline inside requestTimeout's.
Limit(r) ==
    IF op[r] = "ready" /\ readinessCheckTimeout < RequestTimeout
    THEN readinessCheckTimeout ELSE RequestTimeout

\* readiness answers every error with 503.
Failure(r, code) == IF op[r] = "ready" THEN 503 ELSE code

-----------------------------------------------------------------------------
(* The handler.                                                            *)

\* Only create has a body to read.
Arrive(r, o) ==
    /\ pc[r] = "idle"
    /\ pc' = [pc EXCEPT ![r] = IF o = "create" THEN "body" ELSE "acquire"]
    /\ op' = [op EXCEPT ![r] = o]
    /\ UNCHANGED <<age, read, started, slot, status>>

\* Decode returns a valid request.  Reading does not look at the context.
ReadBody(r) ==
    /\ pc[r] = "body"
    /\ pc' = [pc EXCEPT ![r] = "acquire"]
    /\ read' = [read EXCEPT ![r] = age[r]]
    /\ UNCHANGED <<op, age, started, slot, status>>

Answer(r, code) ==
    /\ pc' = [pc EXCEPT ![r] = "done"]
    /\ status' = [status EXCEPT ![r] = code]

\* The body is malformed, or the connection's read deadline passes: Decode's
\* error is none of those create knows.  The read deadline counts from before
\* the headers, so that it may pass at any age up to ReadTimeout.
BodyFails(r) ==
    /\ pc[r] = "body"
    /\ Answer(r, 400)
    /\ read' = [read EXCEPT ![r] = age[r]]
    /\ UNCHANGED <<op, age, started, slot>>

InUse == {r \in Requests : slot[r] # "none"}

\* A connection becomes free, or has been opened.
Acquire(r) ==
    /\ pc[r] = "acquire" /\ age[r] <= Limit(r)
    /\ Cardinality(InUse) < MaxConns
    /\ pc' = [pc EXCEPT ![r] = "query"]
    /\ started' = [started EXCEPT ![r] = age[r]]
    /\ slot' = [slot EXCEPT ![r] = "held"]
    /\ UNCHANGED <<op, age, read, status>>

\* The context ends while the request waits for a connection.
GiveUp(r) ==
    /\ pc[r] = "acquire" /\ age[r] >= Limit(r)
    /\ Answer(r, Failure(r, 504))
    /\ UNCHANGED <<op, age, read, started, slot>>

\* The statement succeeds.
Reply(r) ==
    /\ pc[r] = "query"
    /\ Answer(r, IF op[r] = "create" THEN 201 ELSE 200)
    /\ slot' = [slot EXCEPT ![r] = "none"]
    /\ UNCHANGED <<op, age, read, started>>

\* Mutant: the pool is opened without statement_timeout.
Unlimited(r) == FALSE

\* Whether PostgreSQL ends the statement for its own limit.
StatementDue(r) == age[r] - started[r] >= StatementTimeout

\* The handler reports the statement limit as a fault of the server.
StatementLimit(r) ==
    /\ pc[r] = "query" /\ StatementDue(r)
    /\ Answer(r, Failure(r, 500))
    /\ slot' = [slot EXCEPT ![r] = "none"]
    /\ UNCHANGED <<op, age, read, started>>

\* The context ends first: the connection is given up and closed.
Interrupt(r) ==
    /\ pc[r] = "query" /\ age[r] >= Limit(r)
    /\ Answer(r, Failure(r, 504))
    /\ slot' = [slot EXCEPT ![r] = "closing"]
    /\ UNCHANGED <<op, age, read, started>>

\* The pool has closed a connection that was given up.
Closed(r) ==
    /\ slot[r] = "closing"
    /\ slot' = [slot EXCEPT ![r] = "none"]
    /\ UNCHANGED <<pc, op, age, read, started, status>>

-----------------------------------------------------------------------------
(* Time.                                                                   *)

Waiting == {r \in Requests : pc[r] \in {"body", "acquire", "query"}}

\* A timer of r fires before more time passes.
Due(r) ==
    \/ pc[r] = "body" /\ age[r] >= ReadTimeout
    \/ pc[r] = "acquire" /\ age[r] >= Limit(r)
    \/ pc[r] = "query" /\ (age[r] >= Limit(r) \/ StatementDue(r))

Tick ==
    /\ Waiting # {} /\ \A r \in Requests : ~Due(r)
    /\ age' = [r \in Requests |-> IF r \in Waiting THEN age[r] + 1 ELSE age[r]]
    /\ UNCHANGED <<pc, op, read, started, slot, status>>

Init ==
    /\ pc = [r \in Requests |-> "idle"]
    /\ op = [r \in Requests |-> "none"]
    /\ age = [r \in Requests |-> 0]
    /\ read = [r \in Requests |-> 0]
    /\ started = [r \in Requests |-> NotStarted]
    /\ slot = [r \in Requests |-> "none"]
    /\ status = [r \in Requests |-> 0]

Step(r) ==
    \/ \E o \in Operations : Arrive(r, o)
    \/ ReadBody(r) \/ BodyFails(r) \/ Acquire(r) \/ GiveUp(r)
    \/ Reply(r) \/ StatementLimit(r) \/ Interrupt(r) \/ Closed(r)

Terminated ==
    /\ \A r \in Requests : pc[r] = "done" /\ slot[r] = "none"
    /\ UNCHANGED vars

Next == (\E r \in Requests : Step(r)) \/ Tick \/ Terminated

Spec == Init /\ [][Next]_vars

-----------------------------------------------------------------------------
(* Properties.                                                             *)

TypeOK ==
    /\ pc \in [Requests -> {"idle", "body", "acquire", "query", "done"}]
    /\ op \in [Requests -> Operations \cup {"none"}]
    /\ age \in [Requests -> Nat]
    /\ read \in [Requests -> Nat]
    /\ started \in [Requests -> Nat \cup {NotStarted}]
    /\ slot \in [Requests -> {"none", "held", "closing"}]
    /\ status \in [Requests -> {0, 200, 201, 400, 500, 503, 504}]

\* No wait outlasts its deadline: a handler has answered by the request
\* deadline, or at once when its body came later than that, and a probe by the
\* readiness check's own limit.
HandlerBounded ==
    \A r \in Requests :
        /\ op[r] = "ready" => age[r] <= readinessCheckTimeout
        /\ age[r] <= RequestTimeout \/ pc[r] = "body" \/ age[r] = read[r]
        /\ age[r] <= RequestTimeout \/ age[r] <= ReadTimeout

\* A 504, or any other answer, is written before the write timeout would drop
\* it, unless the client alone used that time up sending its body.
AnswerReachesClient ==
    \A r \in Requests : status[r] # 0 /\ age[r] >= WriteTimeout => read[r] >= WriteTimeout

\* A query is answered as a request timeout only if it got its connection with
\* no more than the statement limit left of the deadline.
TimeoutOnlyAfterWait ==
    \A r \in Requests :
        status[r] = 504 /\ started[r] # NotStarted => started[r] + StatementTimeout >= RequestTimeout

\* A query has run no longer than the statement limit, and not past what its
\* request's deadline, or the readiness check's, allows, however late it got its
\* connection.  How long an interrupted query's connection takes to be closed is
\* another matter, and not bounded here.
QueryBounded ==
    \A r \in Requests :
        pc[r] = "query" => age[r] - started[r] <= StatementTimeout /\ age[r] <= Limit(r)

-----------------------------------------------------------------------------
(* The inductive invariant behind the proofs.                              *)

Timed(r) ==
    /\ pc[r] = "idle" => op[r] = "none" /\ age[r] = 0 /\ status[r] = 0
    /\ pc[r] # "idle" => op[r] \in Operations
    /\ pc[r] \in {"idle", "body"} => read[r] = 0
    /\ pc[r] = "body" => op[r] = "create" /\ age[r] <= ReadTimeout
    /\ pc[r] # "body" => age[r] <= Limit(r) \/ age[r] = read[r]
    /\ op[r] # "create" => read[r] = 0
    /\ read[r] <= age[r] /\ read[r] <= ReadTimeout
    /\ pc[r] \in {"idle", "body", "acquire"} => started[r] = NotStarted
    /\ pc[r] = "query" =>
           /\ started[r] \in Nat /\ started[r] <= age[r] /\ age[r] <= Limit(r)
           /\ age[r] - started[r] <= StatementTimeout
    /\ pc[r] # "done" => status[r] = 0
    /\ slot[r] = "held" => pc[r] = "query"

DeadlinesInv ==
    /\ TypeOK
    /\ \A r \in Requests : Timed(r)
    /\ TimeoutOnlyAfterWait
=============================================================================
