------------------------------ MODULE Requests ------------------------------
(***************************************************************************)
(* The life of concurrent HTTP requests through the middleware chain, one  *)
(* handler, the pgx pool and PostgreSQL, from arrival to the log record    *)
(* and the bytes on the wire.                                              *)
(*                                                                         *)
(* Three clocks race in every request: the deadline requestTimeout puts on *)
(* the handler's context, the client, who may disconnect, and the          *)
(* database, which may apply a statement after the handler gave up on it.  *)
(***************************************************************************)
EXTENDS Naturals, FiniteSets

CONSTANTS
    Requests,   \* request identities; a created widget is named by its request
    Widgets,    \* widgets that exist at the start
    Operations, \* the operations requests ask for
    MaxConns,   \* DB_MAX_CONNS
    Faults      \* what a handler may do besides returning: "panic", "abort"

ASSUME RequestsAssumption ==
    /\ MaxConns \in Nat \ {0}
    /\ Operations \subseteq {"create", "get", "list", "delete", "ready"}
    /\ Faults \subseteq {"panic", "abort"}
    /\ Requests \cap Widgets = {}
    /\ IsFiniteSet(Requests)
    /\ IsFiniteSet(Widgets)

VARIABLES
    pc,         \* where the request is
    op,         \* the operation it asks for
    target,     \* the widget it names
    ctx,        \* the handler's context: its first cause of death wins
    gone,       \* the client disconnected: the server's own context is canceled
    slot,       \* the pool slot the request uses
    stmt,       \* its statement, on the database's side
    outcome,    \* what the service returned to the handler
    status,     \* the status written to the response writer, 0 for none
    aborted,    \* the handler panicked with http.ErrAbortHandler
    logged,     \* the status in the request's log record, 0 for no record yet
    wire,       \* the status the client received, 0 for none
    rows        \* the rows of the widgets table

vars == <<pc, op, target, ctx, gone, slot, stmt, outcome, status, aborted, logged, wire, rows>>

Outcomes == {"none", "ok", "not_found", "deadline", "canceled", "internal"}
    \cup {"bad_request", "too_large", "media_type", "unprocessable", "draining"}
Statuses == {0, 200, 201, 204, 400, 404, 413, 415, 422, 500, 503, 504}
clientClosedRequestStatus == 499
NoTarget == "none"

-----------------------------------------------------------------------------
(* Mapping outcomes to responses.                                          *)

\* What each handler answers without asking the database: decoding and domain
\* validation in create, pathID and id < 1 in get and delete, pagination in
\* list, checkAcceptingTraffic in readiness.
Refusals(o) ==
    CASE o = "create" -> {"bad_request", "too_large", "media_type", "unprocessable"}
      [] o \in {"get", "delete"} -> {"not_found"}
      [] o = "list" -> {"bad_request"}
      [] o = "ready" -> {"draining"}

Success(o) == CASE o = "create" -> 201 [] o = "delete" -> 204 [] OTHER -> 200

\* A deadline is answered; for a canceled context nothing is written.
WriteContextError(res) == IF res = "deadline" THEN 504 ELSE 0

\* The request's own end, or a fault.
failRequest(res) ==
    IF res \in {"deadline", "canceled"} THEN WriteContextError(res) ELSE 500

\* readiness answers 503 whatever its check's error was.
readiness(res) == IF res = "ok" THEN 200 ELSE 503

\* The status a handler writes; 0 when it returns without writing.
Answer(o, res) ==
    IF o = "ready" THEN readiness(res)
    ELSE IF res = "ok" THEN Success(o)
    ELSE CASE res = "not_found" -> 404
           [] res = "bad_request" -> 400
           [] res = "too_large" -> 413
           [] res = "media_type" -> 415
           [] res = "unprocessable" -> 422
           [] OTHER -> failRequest(res)

\* Mutant: the log record reports what net/http would send by default.
RecordsDefault(st, disconnected) == IF st # 0 THEN st ELSE 200

\* Mutant: the disconnect is looked at before the written status.
RecordsDisconnectFirst(st, disconnected) ==
    IF disconnected THEN clientClosedRequestStatus ELSE IF st # 0 THEN st ELSE 200

\* recordedStatus: the middleware's own context only ends with the client.
recordedStatus(st, disconnected) ==
    IF st # 0 THEN st ELSE IF disconnected THEN clientClosedRequestStatus ELSE 200

-----------------------------------------------------------------------------
(* Arrival.                                                                *)

Targets(o) == IF o \in {"get", "delete"} THEN Widgets ELSE {NoTarget}

\* The request reaches its handler and passes validation; it now needs a
\* connection of the pool.
Arrive(r, o, t) ==
    /\ pc[r] = "idle"
    /\ pc' = [pc EXCEPT ![r] = "acquire"]
    /\ op' = [op EXCEPT ![r] = o]
    /\ target' = [target EXCEPT ![r] = t]
    /\ UNCHANGED <<ctx, gone, slot, stmt, outcome, status, aborted, logged, wire, rows>>

\* The handler or the service refuses the request before any query.
Refuse(r, o, res) ==
    /\ pc[r] = "idle"
    /\ pc' = [pc EXCEPT ![r] = "respond"]
    /\ op' = [op EXCEPT ![r] = o]
    /\ outcome' = [outcome EXCEPT ![r] = res]
    /\ UNCHANGED <<target, ctx, gone, slot, stmt, status, aborted, logged, wire, rows>>

-----------------------------------------------------------------------------
(* The environment of a request in flight.                                 *)

\* Mutant: the router is built without requestTimeout.
NoDeadline(r) == FALSE /\ UNCHANGED vars

\* requestTimeout's deadline passes.  After the query nothing reads it.
Deadline(r) ==
    /\ pc[r] \in {"acquire", "query"} /\ ctx[r] = "live"
    /\ ctx' = [ctx EXCEPT ![r] = "deadline"]
    /\ UNCHANGED <<pc, op, target, gone, slot, stmt, outcome, status, aborted, logged, wire, rows>>

\* net/http notices that the client hung up and cancels the request's context;
\* the handler's context keeps its deadline as the cause if that came first.
Disconnect(r) ==
    /\ pc[r] \notin {"idle", "done"} /\ ~gone[r]
    /\ gone' = [gone EXCEPT ![r] = TRUE]
    /\ ctx' = [ctx EXCEPT ![r] = IF @ = "live" THEN "canceled" ELSE @]
    /\ UNCHANGED <<pc, op, target, slot, stmt, outcome, status, aborted, logged, wire, rows>>

-----------------------------------------------------------------------------
(* The pool.                                                               *)

InUse == {r \in Requests : slot[r] # "none"}

\* pgxpool: a connection is free, or may be opened within DB_MAX_CONNS, and the
\* statement is sent on it.
Acquire(r) ==
    /\ pc[r] = "acquire" /\ ctx[r] = "live"
    /\ Cardinality(InUse) < MaxConns
    /\ pc' = [pc EXCEPT ![r] = "query"]
    /\ slot' = [slot EXCEPT ![r] = "held"]
    /\ stmt' = [stmt EXCEPT ![r] = "running"]
    /\ UNCHANGED <<op, target, ctx, gone, outcome, status, aborted, logged, wire, rows>>

\* The request ends while it waits for a connection.
GiveUp(r) ==
    /\ pc[r] = "acquire" /\ ctx[r] # "live"
    /\ pc' = [pc EXCEPT ![r] = "respond"]
    /\ outcome' = [outcome EXCEPT ![r] = ctx[r]]
    /\ UNCHANGED <<op, target, ctx, gone, slot, stmt, status, aborted, logged, wire, rows>>

\* The pool cannot open a connection: the database is down.
ConnectFails(r) ==
    /\ pc[r] = "acquire"
    /\ pc' = [pc EXCEPT ![r] = "respond"]
    /\ outcome' = [outcome EXCEPT ![r] = "internal"]
    /\ UNCHANGED <<op, target, ctx, gone, slot, stmt, status, aborted, logged, wire, rows>>

\* The pool finishes closing a broken connection and frees its slot.
Destroy(r) ==
    /\ slot[r] = "destroying"
    /\ slot' = [slot EXCEPT ![r] = "none"]
    /\ UNCHANGED <<pc, op, target, ctx, gone, stmt, outcome, status, aborted, logged, wire, rows>>

-----------------------------------------------------------------------------
(* PostgreSQL.  A statement runs whether or not its request still waits:   *)
(* the cancel request pgx sends for an interrupted query may come too late.*)

Hits(r) == op[r] \in {"get", "delete"} => target[r] \in rows

\* The statement commits: INSERT ... RETURNING, SELECT, or DELETE.
Execute(r) ==
    /\ stmt[r] = "running"
    /\ stmt' = [stmt EXCEPT ![r] = IF Hits(r) THEN "applied" ELSE "missed"]
    /\ rows' = CASE op[r] = "create" -> rows \cup {r}
                 [] op[r] = "delete" -> rows \ {target[r]}
                 [] OTHER -> rows
    /\ UNCHANGED <<pc, op, target, ctx, gone, slot, outcome, status, aborted, logged, wire>>

\* statement_timeout, a canceled statement or a server error: no effect.
StatementFails(r) ==
    /\ stmt[r] = "running"
    /\ stmt' = [stmt EXCEPT ![r] = "aborted"]
    /\ UNCHANGED <<pc, op, target, ctx, gone, slot, outcome, status, aborted, logged, wire, rows>>

-----------------------------------------------------------------------------
(* The repository's call returns.                                          *)

\* Mutant: Delete does not look at the number of deleted rows.
MissIsSuccess(s) == CASE s \in {"applied", "missed"} -> "ok" [] OTHER -> "internal"

\* Mutant: the repository drops the statement's error.
ErrorIsSuccess(s) == IF s = "missed" THEN "not_found" ELSE "ok"

\* No row, or no deleted row, is ErrNotFound; any other error is wrapped.
RepositoryResult(s) ==
    CASE s = "applied" -> "ok" [] s = "missed" -> "not_found" [] OTHER -> "internal"

\* Mutant: the rows of a list are not closed, so their connection stays out.
RowsLeak(r) ==
    /\ pc[r] = "query" /\ stmt[r] \in {"applied", "missed", "aborted"}
    /\ pc' = [pc EXCEPT ![r] = "respond"]
    /\ outcome' = [outcome EXCEPT ![r] = RepositoryResult(stmt[r])]
    /\ slot' = [slot EXCEPT ![r] = IF op[r] = "list" THEN @ ELSE "none"]
    /\ UNCHANGED <<op, target, ctx, gone, stmt, status, aborted, logged, wire, rows>>

\* The reply is read before the context ends, or just before pgx notices that
\* it did.  The connection returns to the pool.
Reply(r) ==
    /\ pc[r] = "query" /\ stmt[r] \in {"applied", "missed", "aborted"}
    /\ pc' = [pc EXCEPT ![r] = "respond"]
    /\ outcome' = [outcome EXCEPT ![r] = RepositoryResult(stmt[r])]
    /\ slot' = [slot EXCEPT ![r] = "none"]
    /\ UNCHANGED <<op, target, ctx, gone, stmt, status, aborted, logged, wire, rows>>

\* The context ends first: pgx breaks the connection, which the pool then
\* closes in the background, and returns the context's error.
Interrupt(r) ==
    /\ pc[r] = "query" /\ ctx[r] # "live"
    /\ pc' = [pc EXCEPT ![r] = "respond"]
    /\ outcome' = [outcome EXCEPT ![r] = ctx[r]]
    /\ slot' = [slot EXCEPT ![r] = "destroying"]
    /\ UNCHANGED <<op, target, ctx, gone, stmt, status, aborted, logged, wire, rows>>

\* The connection breaks under the query.
ConnectionLost(r) ==
    /\ pc[r] = "query"
    /\ pc' = [pc EXCEPT ![r] = "respond"]
    /\ outcome' = [outcome EXCEPT ![r] = "internal"]
    /\ slot' = [slot EXCEPT ![r] = "destroying"]
    /\ UNCHANGED <<op, target, ctx, gone, stmt, status, aborted, logged, wire, rows>>

-----------------------------------------------------------------------------
(* The response.                                                           *)

\* The handler writes its answer, or nothing, and returns.
Respond(r) ==
    /\ pc[r] = "respond"
    /\ pc' = [pc EXCEPT ![r] = "return"]
    /\ status' = [status EXCEPT ![r] = Answer(op[r], outcome[r])]
    /\ UNCHANGED <<op, target, ctx, gone, slot, stmt, outcome, aborted, logged, wire, rows>>

\* Mutant: recoverPanic answers 500 over a response that was already written.
PanicOverwrites(r) ==
    /\ "panic" \in Faults
    /\ pc[r] \in {"respond", "return"}
    /\ pc' = [pc EXCEPT ![r] = "unwound"]
    /\ status' = [status EXCEPT ![r] = 500]
    /\ UNCHANGED <<op, target, ctx, gone, slot, stmt, outcome, aborted, logged, wire, rows>>

\* The handler panics before or after it wrote; recoverPanic answers 500 only
\* if no status was written.
Panic(r) ==
    /\ "panic" \in Faults
    /\ pc[r] \in {"respond", "return"}
    /\ pc' = [pc EXCEPT ![r] = "unwound"]
    /\ status' = [status EXCEPT ![r] = IF @ = 0 THEN 500 ELSE @]
    /\ UNCHANGED <<op, target, ctx, gone, slot, stmt, outcome, aborted, logged, wire, rows>>

\* The handler panics with http.ErrAbortHandler; recoverPanic lets it pass, so
\* that net/http drops the connection.
Abort(r) ==
    /\ "abort" \in Faults
    /\ pc[r] = "respond"
    /\ pc' = [pc EXCEPT ![r] = "unwound"]
    /\ aborted' = [aborted EXCEPT ![r] = TRUE]
    /\ UNCHANGED <<op, target, ctx, gone, slot, stmt, outcome, status, logged, wire, rows>>

\* logRequest's deferred record, on return and on panic alike.
Log(r) ==
    /\ pc[r] \in {"return", "unwound"}
    /\ pc' = [pc EXCEPT ![r] = "flush"]
    /\ logged' = [logged EXCEPT ![r] = recordedStatus(status[r], gone[r])]
    /\ UNCHANGED <<op, target, ctx, gone, slot, stmt, outcome, status, aborted, wire, rows>>

\* net/http sends the buffered response, 200 if the handler wrote none.  There is
\* no time here, so neither is the write timeout, which may drop an answer that was
\* written too late: Deadlines bounds when that happens.
Flush(r) ==
    /\ pc[r] = "flush"
    /\ pc' = [pc EXCEPT ![r] = "done"]
    /\ wire' = [wire EXCEPT ![r] = IF gone[r] \/ aborted[r] THEN 0
                                   ELSE IF status[r] = 0 THEN 200 ELSE status[r]]
    /\ UNCHANGED <<op, target, ctx, gone, slot, stmt, outcome, status, aborted, logged, rows>>

-----------------------------------------------------------------------------
Init ==
    /\ pc = [r \in Requests |-> "idle"]
    /\ op = [r \in Requests |-> "none"]
    /\ target = [r \in Requests |-> NoTarget]
    /\ ctx = [r \in Requests |-> "live"]
    /\ gone = [r \in Requests |-> FALSE]
    /\ slot = [r \in Requests |-> "none"]
    /\ stmt = [r \in Requests |-> "none"]
    /\ outcome = [r \in Requests |-> "none"]
    /\ status = [r \in Requests |-> 0]
    /\ aborted = [r \in Requests |-> FALSE]
    /\ logged = [r \in Requests |-> 0]
    /\ wire = [r \in Requests |-> 0]
    /\ rows = Widgets

Begin(r) ==
    \E o \in Operations :
        \/ \E t \in Targets(o) : Arrive(r, o, t)
        \/ \E res \in Refusals(o) : Refuse(r, o, res)

\* What the process does on its own.
Serve(r) ==
    \/ Deadline(r) \/ GiveUp(r) \/ Interrupt(r) \/ Reply(r)
    \/ Respond(r) \/ Log(r) \/ Flush(r)

\* What the client, the database and faulty code may do.
Disturb(r) ==
    \/ Disconnect(r) \/ ConnectFails(r) \/ ConnectionLost(r)
    \/ Execute(r) \/ StatementFails(r) \/ Panic(r) \/ Abort(r)

\* Every request has been served and the pool is at rest.
Terminated ==
    /\ \A r \in Requests : pc[r] = "done" /\ slot[r] = "none" /\ stmt[r] # "running"
    /\ UNCHANGED vars

Next ==
    \/ \E r \in Requests : Begin(r) \/ Acquire(r) \/ Destroy(r) \/ Serve(r) \/ Disturb(r)
    \/ Terminated

Spec == Init /\ [][Next]_vars

\* Timers fire, runnable goroutines run and the pool closes broken connections.
\* Nothing is assumed of the client or of the database.
Fairness == \A r \in Requests : WF_vars(Serve(r)) /\ WF_vars(Destroy(r))

FairSpec == Spec /\ Fairness

-----------------------------------------------------------------------------
(* Properties.                                                             *)

TypeOK ==
    /\ pc \in [Requests -> {"idle", "acquire", "query", "respond", "return", "unwound", "flush", "done"}]
    /\ op \in [Requests -> Operations \cup {"none"}]
    /\ target \in [Requests -> Widgets \cup {NoTarget}]
    /\ ctx \in [Requests -> {"live", "deadline", "canceled"}]
    /\ gone \in [Requests -> BOOLEAN]
    /\ slot \in [Requests -> {"none", "held", "destroying"}]
    /\ stmt \in [Requests -> {"none", "running", "applied", "missed", "aborted"}]
    /\ outcome \in [Requests -> Outcomes]
    /\ status \in [Requests -> Statuses]
    /\ aborted \in [Requests -> BOOLEAN]
    /\ logged \in [Requests -> Statuses \cup {clientClosedRequestStatus}]
    /\ wire \in [Requests -> Statuses]
    /\ rows \subseteq Requests \cup Widgets

\* A client is told the truth about its request: 2xx only for a statement that
\* took effect, and a 4xx only for one that changed nothing and never will,
\* however the deadline, the disconnect and the late commit interleave.
AnswersAreTrue ==
    \A r \in Requests :
        /\ status[r] \in 200..299 => stmt[r] = "applied"
        /\ status[r] \in 400..499 => stmt[r] \in {"none", "missed"}

\* Of two concurrent deletes of one widget at most one answers 204.
OneDeleteWins ==
    \A q, r \in Requests :
        op[q] = "delete" /\ op[r] = "delete" /\ status[q] = 204 /\ status[r] = 204
        /\ target[q] = target[r] => q = r

\* The log never records a response the server did not write: a logged status
\* other than 499 is the one the handler or recoverPanic wrote, so net/http's
\* implicit 200 is never relied upon.  An aborted handler is excepted.
NoPhantomResponse ==
    \A r \in Requests :
        ~aborted[r] /\ logged[r] \notin {0, clientClosedRequestStatus} => logged[r] = status[r]

\* 499 is logged only for a client that hung up before anything was written,
\* and every client that stays receives exactly the status that was logged.
LogMatchesWire ==
    \A r \in Requests :
        /\ logged[r] = clientClosedRequestStatus => gone[r] /\ status[r] = 0 /\ wire[r] = 0
        /\ pc[r] = "done" /\ ~gone[r] /\ ~aborted[r] => wire[r] # 0 /\ wire[r] = logged[r]

\* What recordedStatus's comment asks of every request: no log record of a
\* response the server never sent ("Logging that as 200 would record a response
\* the server never sent").
NothingUnsentIsLogged ==
    \A r \in Requests :
        logged[r] \notin {0, clientClosedRequestStatus} => logged[r] = status[r]

\* A status, once written, is never replaced.
OneStatus == [][\A r \in Requests : status[r] # 0 => status'[r] = status[r]]_vars

\* Every request ends, even if the database never answers and the pool is
\* exhausted: the deadline covers the wait for a connection too.
EveryRequestEnds == \A r \in Requests : (pc[r] # "idle") ~> (pc[r] = "done")

\* Every connection taken is given back.
SlotsReturn == \A r \in Requests : (slot[r] # "none") ~> (slot[r] = "none")

-----------------------------------------------------------------------------
(* Why every request ends: what it may still do runs out.                  *)

\* The number of steps a request may still take, at most, at each place.
Ahead(place) ==
    CASE place = "idle" -> 9
      [] place = "acquire" -> 8
      [] place = "query" -> 5
      [] place = "respond" -> 4
      [] place = "return" -> 3
      [] place = "unwound" -> 2
      [] place = "flush" -> 1
      [] OTHER -> 0

\* Its deadline, its disconnect, its connection and its statement add one each.
Remaining(r) ==
    Ahead(pc[r])
    + (IF ctx[r] = "live" THEN 1 ELSE 0) + (IF gone[r] THEN 0 ELSE 1)
    + (IF slot[r] = "none" THEN 0 ELSE 1) + (IF stmt[r] = "running" THEN 1 ELSE 0)

\* No request has more than eleven steps before it, those of its client, its
\* connection and its statement included.
BoundedLife == \A r \in Requests : Remaining(r) \in 0..11

\* Nothing is retried, no wait is begun again and no request sets another back:
\* every step of the system brings one request nearer its end.
RunsDown ==
    [][\E r \in Requests :
           /\ Remaining(r)' < Remaining(r)
           /\ \A q \in Requests \ {r} : Remaining(q)' = Remaining(q)]_vars

-----------------------------------------------------------------------------
(* The inductive invariant behind the proofs, request by request.          *)

Answered == {"return", "unwound", "flush", "done"}

\* What has not happened yet at each place.
Untouched(r) ==
    /\ pc[r] \in {"idle", "acquire"} => stmt[r] = "none" /\ slot[r] = "none"
    /\ pc[r] \notin Answered => status[r] = 0
    /\ pc[r] \notin {"unwound", "flush", "done"} => ~aborted[r]
    /\ pc[r] \notin {"flush", "done"} => logged[r] = 0
    /\ pc[r] # "done" => wire[r] = 0
    /\ pc[r] \in {"idle", "acquire", "query"} => outcome[r] = "none"
    /\ op[r] = "none" <=> pc[r] = "idle"

\* What the service's result says about the statement and the context.
Truthful(r) ==
    /\ slot[r] = "held" <=> pc[r] = "query"
    /\ stmt[r] = "none" \/ pc[r] \notin {"idle", "acquire"}
    /\ pc[r] = "query" => stmt[r] # "none"
    /\ ctx[r] = "canceled" => gone[r]
    /\ outcome[r] = "canceled" => gone[r]
    /\ outcome[r] = "ok" => stmt[r] = "applied"
    /\ outcome[r] = "not_found" => stmt[r] \in {"none", "missed"}
    /\ outcome[r] \in {"bad_request", "too_large", "media_type", "unprocessable", "draining"}
           => stmt[r] = "none"
    /\ status[r] \in 200..299 => stmt[r] = "applied"
    /\ status[r] = 204 => op[r] = "delete"
    /\ status[r] \in 400..499 => stmt[r] \in {"none", "missed"}
    /\ pc[r] = "respond" => outcome[r] # "none"

\* What the log record and the wire say about the status.
Faithful(r) ==
    /\ pc[r] \in Answered /\ status[r] = 0 /\ ~aborted[r] => gone[r]
    /\ aborted[r] => status[r] = 0
    /\ pc[r] \in {"flush", "done"} =>
        \/ status[r] # 0 /\ logged[r] = status[r]
        \/ status[r] = 0 /\ logged[r] = clientClosedRequestStatus /\ gone[r]
        \/ status[r] = 0 /\ logged[r] = 200 /\ aborted[r]
    /\ pc[r] = "done" => wire[r] = IF gone[r] \/ aborted[r] THEN 0 ELSE status[r]

\* A widget that a delete hit is gone for good, and was hit once.
DeletedOnce ==
    /\ \A r \in Requests :
           op[r] = "delete" /\ (pc[r] = "acquire" \/ stmt[r] # "none") => target[r] \in Widgets
    /\ \A r \in Requests : op[r] = "delete" /\ stmt[r] = "applied" => target[r] \notin rows
    /\ \A q, r \in Requests :
           op[q] = "delete" /\ op[r] = "delete" /\ stmt[q] = "applied" /\ stmt[r] = "applied"
           /\ target[q] = target[r] => q = r

RequestsInv ==
    /\ TypeOK
    /\ \A r \in Requests : Untouched(r) /\ Truthful(r) /\ Faithful(r)
    /\ DeletedOnce
=============================================================================
