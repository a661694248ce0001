-------------------------------- MODULE Edge --------------------------------
(***************************************************************************)
(* One request at the edge of the process: the middleware chain NewRouter  *)
(* installs, on the way in and on the way out, what it puts on the         *)
(* response's header and what the request's log records say.  Requests     *)
(* share nothing here, so one is enough.                                   *)
(*                                                                         *)
(* A request ID is a sequence of bytes.  A response keeps the header as it *)
(* was when its status was written: a later change is not sent.            *)
(***************************************************************************)
EXTENDS Naturals, Sequences

CONSTANTS
    Bytes,                  \* what a header value may hold
    ClientIDs,              \* values of X-Request-ID clients send, <<>> for none
    Generated,              \* IDs the process generates
    Unreserved,             \* the bytes an ID may hold
    maximumRequestIDLength,
    Methods,                \* methods clients use or ask for
    Origins,                \* origins of browsers
    CORSOptions             \* sets of allowed origins a deployment configures

ASSUME EdgeAssumption ==
    /\ maximumRequestIDLength \in Nat \ {0}
    /\ Unreserved \subseteq Bytes /\ ClientIDs \subseteq Seq(Bytes) /\ <<>> \in ClientIDs
    /\ Generated \subseteq Seq(Unreserved)
    /\ \A g \in Generated : Len(g) \in 1..maximumRequestIDLength
    /\ "none" \notin Origins

VARIABLES
    request,    \* what the client sent
    allowed,    \* the deployment's allowed origins; none for no CORS
    layer,      \* which middleware, or the handler, has control
    way,        \* in, out, or unwinding a panic
    id,         \* the ID requestID resolved, <<>> before
    header,     \* the response writer's header
    sent,       \* the response written, with its header
    records     \* the log records the request produced

vars == <<request, allowed, layer, way, id, header, sent, records>>

requestIDHeader == "X-Request-ID"

\* The headers the chain sets: X-Request-ID, the four of securityHeaders, and
\* Access-Control-Allow-Origin, -Expose-Headers, -Allow-Methods and -Allow-Headers.
Empty == [id |-> <<>>, security |-> FALSE, allowOrigin |-> FALSE, expose |-> {},
          allowMethods |-> {}, allowHeaders |-> {}]
Nothing == [status |-> 0, header |-> Empty]

CORS == IF allowed = {} THEN <<>> ELSE <<"cors">>

\* Mutant: the completion record is written outside requestID.
LogsOutermost == <<"logRequest", "requestID", "securityHeaders", "recoverPanic">> \o CORS

\* The chain, outermost first.  clientIP and requestTimeout, which change
\* neither the header nor the ID, are left out.
Chain == <<"requestID", "securityHeaders", "logRequest", "recoverPanic">> \o CORS

Handler == Len(Chain) + 1
At(m) == layer \in 1..Len(Chain) /\ Chain[layer] = m

-----------------------------------------------------------------------------
(* The log.                                                                *)

\* The request ID in the context that layer n was called with.
GetReqID(n) == IF \E j \in 1..(n - 1) : j <= Len(Chain) /\ Chain[j] = "requestID" THEN id ELSE <<>>

\* A slog handler either annotates records with the context's request ID or
\* does not.
Plain == [annotates |-> FALSE]
NewLogHandler == [annotates |-> TRUE]

\* Mutant: the inner handler's derivation is returned as it is.
ReturnsInner(h) == Plain

\* WithAttrs and WithGroup rewrap the derived inner handler.
Derived(h) == IF h.annotates THEN NewLogHandler ELSE Plain

\* Loggers the components use, or may derive with slog's With.
Loggers == {NewLogHandler, Derived(NewLogHandler)}

Record(logger, what) ==
    [what |-> what, requestID |-> IF logger.annotates THEN GetReqID(layer) ELSE <<>>]

Log(logger, what) == records' = Append(records, Record(logger, what))

-----------------------------------------------------------------------------
(* Responses.                                                              *)

\* The first WriteHeader decides the status and sends the header as it is.
WriteHeader(status) ==
    sent' = IF sent = Nothing THEN [status |-> status, header |-> header] ELSE sent

Inward == layer' = layer + 1 /\ UNCHANGED way
Outward == layer' = layer - 1 /\ UNCHANGED way

-----------------------------------------------------------------------------
(* Middleware on the way in.                                               *)

acceptableRequestID(value) ==
    IF Len(value) <= maximumRequestIDLength /\ \A i \in 1..Len(value) : value[i] \in Unreserved
    THEN value ELSE <<>>

\* What the ID may be: the client's, or a generated one.
Resolved ==
    LET own == acceptableRequestID(request.id)
    IN IF own = <<>> THEN Generated ELSE {own}

\* Mutant: chi's RequestID, which only fills the context.
ContextOnly ==
    /\ way = "in" /\ At("requestID")
    /\ id' \in Resolved
    /\ Inward
    /\ UNCHANGED <<request, allowed, header, sent, records>>

requestID ==
    /\ way = "in" /\ At("requestID")
    /\ id' \in Resolved
    /\ header' = [header EXCEPT !.id = id']
    /\ Inward
    /\ UNCHANGED <<request, allowed, sent, records>>

securityHeaders ==
    /\ way = "in" /\ At("securityHeaders")
    /\ header' = [header EXCEPT !.security = TRUE]
    /\ Inward
    /\ UNCHANGED <<request, allowed, id, sent, records>>

\* logRequest and recoverPanic act when the handler is done.
Pass ==
    /\ way = "in" /\ (At("logRequest") \/ At("recoverPanic"))
    /\ Inward
    /\ UNCHANGED <<request, allowed, id, header, sent, records>>

OriginAllowed == request.origin # "none" /\ ("*" \in allowed \/ request.origin \in allowed)

\* Mutant: no header is published to browsers.
ExposesNothing == {}

\* The headers a browser's script may read, and those it may send.
ExposedHeaders == {requestIDHeader}
AllowedHeaders == {"Accept", "Authorization", "Content-Type", requestIDHeader}

\* Mutant: the list is left to go-chi/cors, whose default is for simple requests.
DefaultMethods == {"GET", "POST", "HEAD"}

\* The methods a browser may use from another origin.  HEAD is not among them.
AllowedMethods == {"GET", "POST", "PUT", "PATCH", "DELETE", "OPTIONS"}
MethodAllowed == request.method \in AllowedMethods

\* The methods of the routes.
RouteMethods == {"GET", "POST", "DELETE"}

\* go-chi/cors lets an actual request through, allowed or not, but only what is
\* allowed gets its headers.
CORSActual ==
    /\ way = "in" /\ At("cors") /\ ~request.preflight
    /\ header' = IF OriginAllowed /\ MethodAllowed
                 THEN [header EXCEPT !.allowOrigin = TRUE, !.expose = ExposedHeaders]
                 ELSE header
    /\ Inward
    /\ UNCHANGED <<request, allowed, id, sent, records>>

\* It answers a preflight itself, 200 whether or not it grants what is asked.
CORSPreflight ==
    /\ way = "in" /\ At("cors") /\ request.preflight
    /\ header' = IF OriginAllowed /\ MethodAllowed /\ request.asks \subseteq AllowedHeaders
                 THEN [header EXCEPT !.allowOrigin = TRUE, !.allowMethods = {request.method},
                                     !.allowHeaders = request.asks]
                 ELSE header
    /\ sent' = [status |-> 200, header |-> header']
    /\ way' = "out" /\ layer' = layer - 1
    /\ UNCHANGED <<request, allowed, id, records>>

-----------------------------------------------------------------------------
(* The handler: a route's, NotFound or MethodNotAllowed.                   *)

Running == layer = Handler /\ way = "in"

\* An answer that is no failure of the server, readiness's 503 included.
Answer ==
    /\ Running
    /\ \E status \in {200, 400, 404, 405, 503} : WriteHeader(status)
    /\ way' = "out"
    /\ UNCHANGED <<request, allowed, layer, id, header, records>>

\* failRequest: the request's own end, or a fault.  A client that is gone gets
\* no answer.
failRequest ==
    /\ Running
    /\ \E logger \in Loggers :
           \/ Log(logger, "did not complete") /\ WriteHeader(504)
           \/ Log(logger, "did not complete") /\ UNCHANGED sent
           \/ Log(logger, "failed") /\ WriteHeader(500)
    /\ way' = "out"
    /\ UNCHANGED <<request, allowed, layer, id, header>>

\* writeJSON: the payload does not encode, or the body cannot be written.
writeJSONFails ==
    /\ Running
    /\ \E status \in {200, 500} : WriteHeader(status)
    /\ \E logger \in Loggers : Log(logger, "response failed")
    /\ way' = "out"
    /\ UNCHANGED <<request, allowed, layer, id, header>>

\* The handler panics, before or after it wrote; "aborting" is a panic with
\* http.ErrAbortHandler.
Panic ==
    /\ layer = Handler /\ way \in {"in", "out"}
    /\ way' \in {"panicking", "aborting"}
    /\ UNCHANGED <<request, allowed, layer, id, header, sent, records>>

-----------------------------------------------------------------------------
(* Middleware on the way out.                                              *)

\* Mutant: the answer to a panic is not logged.
RecoversSilently ==
    /\ way = "panicking" /\ At("recoverPanic")
    /\ WriteHeader(500)
    /\ way' = "out" /\ layer' = layer - 1
    /\ UNCHANGED <<request, allowed, id, header, records>>

\* A panic is logged and answered, unless a status was written.
recoverPanic ==
    /\ way = "panicking" /\ At("recoverPanic")
    /\ Log(NewLogHandler, "panicked")
    /\ WriteHeader(500)
    /\ way' = "out" /\ layer' = layer - 1
    /\ UNCHANGED <<request, allowed, id, header>>

\* Mutant: the record is not deferred.
LogsReturnsOnly ==
    /\ way # "in" /\ At("logRequest")
    /\ IF way = "out" THEN Log(NewLogHandler, "completed") ELSE UNCHANGED records
    /\ Outward
    /\ UNCHANGED <<request, allowed, id, header, sent>>

\* The deferred completion record.
logRequest ==
    /\ way # "in" /\ At("logRequest")
    /\ Log(NewLogHandler, "completed")
    /\ Outward
    /\ UNCHANGED <<request, allowed, id, header, sent>>

\* The handler and the other middleware just return, or are unwound.
Leave ==
    /\ way # "in"
    /\ \/ layer = Handler \/ At("requestID") \/ At("securityHeaders") \/ At("cors")
       \/ way # "panicking" /\ At("recoverPanic")
    /\ Outward
    /\ UNCHANGED <<request, allowed, id, header, sent, records>>

\* net/http sends a response nobody wrote, and none for an aborted handler.
Finish ==
    /\ layer = 0
    /\ layer' = 0 /\ way' = "done"
    /\ IF way = "out" THEN WriteHeader(200) ELSE UNCHANGED sent
    /\ way # "done"
    /\ UNCHANGED <<request, allowed, id, header, records>>

Done == way = "done" /\ UNCHANGED vars

-----------------------------------------------------------------------------
\* A preflight names the method and the headers of the request it asks for.
Requests ==
    [id : ClientIDs, method : Methods, origin : Origins \cup {"none"}, preflight : {FALSE}, asks : {{}}]
        \cup [id : {<<>>}, method : Methods, origin : Origins, preflight : {TRUE},
              asks : {{}, {requestIDHeader}, {"X-Other"}}]

Init ==
    /\ request \in Requests
    /\ allowed \in CORSOptions
    /\ layer = 1 /\ way = "in"
    /\ id = <<>> /\ header = Empty
    /\ sent = Nothing /\ records = <<>>

Next ==
    \/ requestID \/ securityHeaders \/ Pass \/ CORSActual \/ CORSPreflight
    \/ Answer \/ failRequest \/ writeJSONFails \/ Panic
    \/ recoverPanic \/ logRequest \/ Leave \/ Finish \/ Done

Spec == Init /\ [][Next]_vars

-----------------------------------------------------------------------------
(* Properties.                                                             *)

Acceptable(value) ==
    Len(value) \in 1..maximumRequestIDLength /\ \A i \in 1..Len(value) : value[i] \in Unreserved

Kinds == {"did not complete", "failed", "response failed", "panicked", "completed"}

TypeOK ==
    /\ request \in Requests /\ allowed \in CORSOptions
    /\ layer \in 0..Handler
    /\ way \in {"in", "out", "panicking", "aborting", "done"}
    /\ id = <<>> \/ Acceptable(id)
    /\ sent = Nothing \/ sent.status \in {200, 400, 404, 405, 500, 503, 504}
    /\ \A n \in 1..Len(records) : records[n].what \in Kinds

\* Every response carries an acceptable X-Request-ID and the security headers,
\* whoever writes it: a handler, the 404, the preflight, recoverPanic or
\* net/http; and the ID is the client's own if that is acceptable.
EveryResponseNamed ==
    sent # Nothing =>
        /\ sent.header.security /\ Acceptable(sent.header.id)
        /\ Acceptable(request.id) => sent.header.id = request.id

\* Each record of the request, written by whatever layer through whatever
\* logger, carries the ID its response carries.
RecordsNameTheResponse ==
    \A n \in 1..Len(records) :
        /\ records[n].requestID # <<>>
        /\ sent # Nothing => records[n].requestID = sent.header.id

\* A client that quotes the ID of a failure finds its cause in the log: every
\* 500 and 504 has a record besides its completion.
FailuresExplained ==
    sent.status \in {500, 504} => \E n \in 1..Len(records) : records[n].what # "completed"

\* One completion record for each request, after all others, panics, aborts and
\* preflights included.
CompletedOnce ==
    /\ \A n \in 1..Len(records) : records[n].what = "completed" => n = Len(records)
    /\ way = "done" => records # <<>> /\ records[Len(records)].what = "completed"

\* What a browser needs to find on the response: for a preflight, leave to use the
\* method and to send what is asked; otherwise leave for the script to read it, and
\* its ID.
Readable(h) ==
    IF request.preflight
    THEN request.asks \subseteq {requestIDHeader} =>
             h.allowOrigin /\ request.method \in h.allowMethods /\ h.allowHeaders = request.asks
    ELSE h.allowOrigin /\ requestIDHeader \in h.expose

\* A script of an allowed origin can read the response and its ID, whoever wrote
\* it, the 500 of a panic and the 404 of no route included, and may send an ID of
\* its own, with every method some route has and every method that is listed; a
\* preflight never reaches the handler.  Other methods, HEAD for one, are not
\* promised: their responses are sent without the headers.
BrowserReadsID ==
    OriginAllowed =>
        /\ request.preflight => layer # Handler
        /\ sent # Nothing /\ request.method \in RouteMethods \cup AllowedMethods => Readable(sent.header)

-----------------------------------------------------------------------------
(* The inductive invariant behind the proofs.                              *)

\* requestID, and then securityHeaders, have been passed on the way in.
Named ==
    /\ id = <<>> \/ Acceptable(id)
    /\ layer > 1 \/ way # "in" =>
           Acceptable(id) /\ header.id = id /\ (Acceptable(request.id) => id = request.id)
Secured == layer > 2 \/ way # "in" => header.security

\* The response holds the header's ID; every record does, and the completion
\* record is the last one, written between recoverPanic and securityHeaders.
Consistent ==
    /\ sent # Nothing =>
           way # "in" /\ sent.status # 0 /\ sent.header.id = id /\ sent.header.security
    /\ records \in Seq([what : Kinds, requestID : {id}])
    /\ \A n \in 1..Len(records) : records[n].what = "completed" => n = Len(records) /\ layer <= 2
    /\ records # <<>> => way # "in"
    /\ way # "in" /\ layer <= 2 => records # <<>> /\ records[Len(records)].what = "completed"

EdgeInv ==
    /\ request \in Requests /\ allowed \in CORSOptions
    /\ layer \in 0..Handler /\ (way = "in" => layer # 0) /\ (way = "done" => layer = 0)
    /\ way \in {"in", "out", "panicking", "aborting", "done"}
    /\ way = "panicking" => layer > 3
    /\ DOMAIN header = DOMAIN Empty
    /\ sent.status \in {0, 200, 400, 404, 405, 500, 503, 504}
    /\ Named /\ Secured /\ Consistent /\ FailuresExplained

\* cors has been passed on the way in: its headers are there for every listed
\* method, and it lets no preflight through.
Shown(h) == MethodAllowed => Readable(h)
Shared ==
    OriginAllowed =>
        /\ request.preflight => layer < Handler
        /\ layer > 5 \/ way # "in" => Shown(header)
        /\ sent # Nothing => Shown(sent.header)
=============================================================================
