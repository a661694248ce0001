----------------------------- MODULE EdgeProofs -----------------------------
(***************************************************************************)
(* Proofs about Edge for every ID a client may send, every length limit    *)
(* and every set of allowed origins.                                       *)
(***************************************************************************)
EXTENDS Edge, Integers, TLAPS

\* An entry of a sequence is one of the set the sequence is over.
LEMMA EntryInSet == ASSUME NEW S, NEW s \in Seq(S), NEW n \in 1..Len(s) PROVE s[n] \in S
OBVIOUS

\* Where each middleware is in the chain, with and without CORS.
LEMMA Places ==
    /\ Handler \in Nat /\ Handler > 4
    /\ \A m : At(m) => layer \in 1..(Handler - 1)
    /\ At("requestID") => layer = 1
    /\ At("securityHeaders") => layer = 2
    /\ At("logRequest") => layer = 3
    /\ At("recoverPanic") => layer = 4
    /\ At("cors") => layer = 5
    /\ layer = 1 => At("requestID")
<1>1. CASE allowed = {}
  <2>1. Chain = <<"requestID", "securityHeaders", "logRequest", "recoverPanic">>
    BY <1>1 DEF Chain, CORS
  <2>2. Len(Chain) = 4 /\ Handler = 5
    BY <2>1 DEF Handler
  <2> QED BY <2>1, <2>2 DEF At
<1>2. CASE allowed # {}
  <2>1. CORS = <<"cors">>
    BY <1>2 DEF CORS
  <2>2. Len(Chain) = 5 /\ Handler = 6
    BY <2>1 DEF Chain, Handler
  <2>3. /\ Chain[1] = "requestID" /\ Chain[2] = "securityHeaders" /\ Chain[3] = "logRequest"
        /\ Chain[4] = "recoverPanic" /\ Chain[5] = "cors"
    BY <2>1 DEF Chain
  <2> QED BY <2>2, <2>3 DEF At
<1> QED BY <1>1, <1>2

\* Behind requestID every context holds the ID.
LEMMA ContextNames == ASSUME NEW n \in Nat, n > 1 PROVE GetReqID(n) = id
<1>1. Chain[1] = "requestID" /\ 1 <= Len(Chain)
  BY DEF Chain, CORS
<1> QED BY <1>1 DEF GetReqID

\* requestID's result is acceptable, and the client's own where that is.
LEMMA ResolvedAcceptable ==
    ASSUME request \in Requests, NEW v \in Resolved
    PROVE  Acceptable(v) /\ (Acceptable(request.id) => v = request.id)
<1>1. request.id \in Seq(Bytes)
  BY EdgeAssumption DEF Requests
<1> DEFINE own == acceptableRequestID(request.id)
<1>2. CASE own = <<>>
  <2>1. v \in Generated
    BY <1>2 DEF Resolved
  <2>2. v \in Seq(Unreserved) /\ Len(v) \in 1..maximumRequestIDLength
    BY <2>1, EdgeAssumption
  <2>3. Acceptable(v)
    BY <2>2 DEF Acceptable
  <2>4. ~Acceptable(request.id)
    <3>1. ASSUME Acceptable(request.id) PROVE FALSE
      <4>1. own = request.id /\ Len(request.id) >= 1
        BY <1>1, <3>1, EdgeAssumption DEF Acceptable, acceptableRequestID
      <4> QED BY <1>2, <4>1
    <3> QED BY <3>1
  <2> QED BY <2>3, <2>4
<1>3. CASE own # <<>>
  <2>1. v = own
    BY <1>3 DEF Resolved
  <2>2. own = request.id /\ Len(request.id) <= maximumRequestIDLength
        /\ \A i \in 1..Len(request.id) : request.id[i] \in Unreserved
    BY <1>3 DEF acceptableRequestID
  <2>3. Len(request.id) \in 1..maximumRequestIDLength
    BY <1>1, <1>3, <2>2, EdgeAssumption
  <2> QED BY <2>1, <2>2, <2>3 DEF Acceptable
<1> QED BY <1>2, <1>3

\* A record written behind requestID keeps the log consistent.
LEMMA LogNames ==
    ASSUME NEW logger \in Loggers, NEW what, layer \in Nat, layer > 1, Log(logger, what)
    PROVE  records' = Append(records, [what |-> what, requestID |-> id])
<1>1. logger.annotates
  BY DEF Loggers, Derived, NewLogHandler, Plain
<1>2. GetReqID(layer) = id
  BY ContextNames
<1> QED BY <1>1, <1>2 DEF Log, Record

-----------------------------------------------------------------------------
(* The invariant.                                                          *)

LEMMA InitInv == Init => EdgeInv
<1> SUFFICES ASSUME Init PROVE EdgeInv
  OBVIOUS
<1>1. Handler \in Nat /\ Handler > 4
  BY Places
<1>2. layer = 1 /\ way = "in" /\ records = <<>> /\ sent = Nothing
  BY DEF Init
<1>3. records \in Seq([what : Kinds, requestID : {id}])
  BY <1>2
<1>4. sent.status = 0
  BY <1>2 DEF Nothing
<1>5. Named /\ Secured
  BY <1>2 DEF Init, Named, Secured
<1>6. Consistent /\ FailuresExplained
  BY <1>2, <1>3, <1>4 DEF Consistent, FailuresExplained
<1> QED BY <1>1, <1>2, <1>4, <1>5, <1>6 DEF Init, EdgeInv

\* What a further record does to the log of a request not yet completed.
LEMMA RecordsGrow ==
    ASSUME EdgeInv, layer > 2, UNCHANGED id, NEW what \in Kinds,
           records' = Append(records, [what |-> what, requestID |-> id])
    PROVE  /\ records' \in Seq([what : Kinds, requestID : {id'}]) /\ records' # <<>>
           /\ \A n \in 1..Len(records') : records'[n].what = "completed" => n = Len(records') /\ what = "completed"
           /\ records'[Len(records')].what = what
           /\ \A n \in 1..Len(records) : n \in 1..Len(records') /\ records'[n] = records[n]
           /\ Len(records') \in 1..Len(records')
<1> DEFINE rec == [what |-> what, requestID |-> id]
<1>1. records \in Seq([what : Kinds, requestID : {id}])
  BY DEF EdgeInv, Consistent
<1>2. rec \in [what : Kinds, requestID : {id}]
  OBVIOUS
<1>3. /\ records' \in Seq([what : Kinds, requestID : {id}])
      /\ Len(records') = Len(records) + 1 /\ Len(records) \in Nat
      /\ records'[Len(records) + 1] = rec
      /\ \A n \in 1..Len(records) : records'[n] = records[n]
  BY <1>1, <1>2
<1>4. \A n \in 1..Len(records) : records[n].what # "completed"
  <2>1. layer \in Nat
    BY Places DEF EdgeInv
  <2> QED BY <2>1 DEF EdgeInv, Consistent
<1> QED BY <1>3, <1>4

\* What writing a status does to the response.
LEMMA ResponseWritten ==
    ASSUME EdgeInv, header.id = id, header.security, NEW status \in {200, 400, 404, 405, 500, 503, 504},
           WriteHeader(status)
    PROVE  /\ sent' # Nothing /\ sent'.status # 0
           /\ sent'.status \in {200, 400, 404, 405, 500, 503, 504}
           /\ sent'.header.id = id /\ sent'.header.security
           /\ sent'.status \in {status, sent.status}
<1>1. CASE sent = Nothing
  <2>1. sent' = [status |-> status, header |-> header]
    BY <1>1 DEF WriteHeader
  <2>2. Nothing.status = 0
    BY DEF Nothing
  <2> QED BY <2>1, <2>2
<1>2. CASE sent # Nothing
  BY <1>2 DEF WriteHeader, EdgeInv, Consistent
<1> QED BY <1>1, <1>2

\* A step that only moves control, between layers that ask for the same.
LEMMA Moves ==
    ASSUME EdgeInv, UNCHANGED <<request, allowed, id, sent, records>>,
           header'.id = header.id, header'.security = header.security \/ header'.security,
           DOMAIN header' = DOMAIN header,
           layer' \in 0..Handler, way' \in {"in", "out", "panicking", "aborting", "done"},
           way' = "in" => layer' # 0, way' = "done" => layer' = 0, way' = "panicking" => layer' > 3,
           way' = "in" => way = "in", 
           layer' > 1 \/ way' # "in" => layer > 1 \/ way # "in",
           layer' > 2 \/ way' # "in" => header'.security,
           layer' <= 2 /\ way' # "in" => layer <= 2 /\ way # "in",
           layer <= 2 /\ way # "in" => layer' <= 2
    PROVE  EdgeInv'
<1>1. Handler' = Handler
  BY DEF Handler, Chain, CORS
<1>2. Named'
  BY DEF EdgeInv, Named, Acceptable
<1>3. Secured'
  BY DEF Secured
<1>4. Consistent'
  BY DEF EdgeInv, Consistent, Nothing, Empty
<1>5. FailuresExplained'
  BY DEF EdgeInv, FailuresExplained
<1> QED BY <1>1, <1>2, <1>3, <1>4, <1>5 DEF EdgeInv

LEMMA NextInv == EdgeInv /\ [Next]_vars => EdgeInv'
<1> SUFFICES ASSUME EdgeInv, [Next]_vars PROVE EdgeInv'
  OBVIOUS
<1>1. Handler \in Nat /\ Handler > 4 /\ layer \in 0..Handler /\ layer \in Int
  BY Places DEF EdgeInv
<1>2. Handler' \in Nat /\ (UNCHANGED allowed => Handler' = Handler)
  BY Places, <1>1 DEF Handler, Chain, CORS
<1>0. "id" \in DOMAIN header /\ "security" \in DOMAIN header /\ Empty' = Empty
  BY DEF EdgeInv, Empty
<1> DEFINE statuses == {200, 400, 404, 405, 500, 503, 504}
           kept == UNCHANGED <<request, allowed, id, header>>
\* The handler's own steps and recoverPanic's all end outside "in".
<1>3. ASSUME kept, layer > 2, way # "done", way' = "out", layer' \in {layer, layer - 1}, layer' > 2,
             \/ UNCHANGED sent
             \/ \E status \in statuses : WriteHeader(status),
             \/ UNCHANGED records
             \/ \E what \in Kinds \ {"completed"} : \E logger \in Loggers : Log(logger, what),
             FailuresExplained'
      PROVE  EdgeInv'
  <2>1. header.id = id /\ header.security
    BY <1>1, <1>3 DEF EdgeInv, Named, Secured
  <2>2. /\ sent'.status \in statuses \cup {0}
        /\ sent' # Nothing => sent'.status # 0 /\ sent'.header.id = id /\ sent'.header.security
    <3>1. CASE UNCHANGED sent
      BY <3>1 DEF EdgeInv, Consistent
    <3>2. CASE \E status \in statuses : WriteHeader(status)
      BY <3>2, <2>1, ResponseWritten
    <3> QED BY <1>3, <3>1, <3>2
  <2>3. /\ records' \in Seq([what : Kinds, requestID : {id'}])
        /\ \A n \in 1..Len(records') : records'[n].what # "completed"
    <3>1. CASE UNCHANGED records
      BY <1>1, <1>3, <3>1 DEF EdgeInv, Consistent
    <3>2. CASE \E what \in Kinds \ {"completed"} : \E logger \in Loggers : Log(logger, what)
      <4>1. PICK what \in Kinds \ {"completed"} : \E logger \in Loggers : Log(logger, what)
        BY <3>2
      <4>2. records' = Append(records, [what |-> what, requestID |-> id])
        BY <1>1, <1>3, <4>1, LogNames
      <4> QED BY <1>3, <4>2, RecordsGrow
    <3> QED BY <1>3, <3>1, <3>2
  <2>4. Named' /\ Secured'
    BY <1>1, <1>3 DEF EdgeInv, Named, Secured, Acceptable
  <2>5. Consistent'
    BY <1>1, <1>3, <2>2, <2>3 DEF Consistent, Nothing, Empty
  <2>6. layer' \in 0..Handler'
    BY <1>1, <1>2, <1>3
  <2> QED BY <1>0, <1>3, <2>2, <2>4, <2>5, <2>6 DEF EdgeInv
<1>4. CASE requestID
  <2>1. layer = 1 /\ layer' = 2 /\ way = "in" /\ way' = "in" /\ UNCHANGED <<request, allowed, sent, records>>
    BY <1>4, Places DEF requestID, Inward
  <2>2. id' \in Resolved /\ header' = [header EXCEPT !.id = id']
    BY <1>4 DEF requestID
  <2>3. Acceptable(id') /\ (Acceptable(request.id) => id' = request.id)
    BY <2>2, ResolvedAcceptable DEF EdgeInv
  <2>4. header'.id = id' /\ DOMAIN header' = DOMAIN header
    BY <2>2, <1>0
  <2>5. Named'
    BY <2>1, <2>3, <2>4 DEF Named, Acceptable
  <2>6. records = <<>> /\ sent = Nothing
    BY <2>1 DEF EdgeInv, Consistent
  <2>7. Consistent' /\ Secured'
    BY <2>1, <2>6 DEF Consistent, Secured, Nothing, Empty
  <2> QED BY <1>0, <1>1, <1>2, <2>1, <2>4, <2>5, <2>7 DEF EdgeInv, FailuresExplained
<1>5. CASE securityHeaders
  <2>1. layer = 2 /\ layer' = 3 /\ way = "in" /\ way' = "in" /\ UNCHANGED <<request, allowed, id, sent, records>>
    BY <1>5, Places DEF securityHeaders, Inward
  <2>2. header'.id = header.id /\ header'.security /\ DOMAIN header' = DOMAIN header
    <3>1. header' = [header EXCEPT !.security = TRUE]
      BY <1>5 DEF securityHeaders
    <3> QED BY <3>1, <1>0
  <2> QED BY <1>1, <2>1, <2>2, Moves
<1>6. CASE Pass
  <2>1. layer \in {3, 4} /\ layer' = layer + 1 /\ way = "in" /\ way' = "in"
        /\ UNCHANGED <<request, allowed, id, header, sent, records>>
    BY <1>6, Places DEF Pass, Inward
  <2>2. header.security
    BY <2>1 DEF EdgeInv, Secured
  <2> QED BY <1>1, <2>1, <2>2, Moves
<1>7. CASE CORSActual
  <2>1. layer = 5 /\ layer < Handler /\ layer' = layer + 1 /\ way = "in" /\ way' = "in"
        /\ UNCHANGED <<request, allowed, id, sent, records>>
    BY <1>1, <1>7, Places DEF CORSActual, Inward
  <2>2. header'.id = header.id /\ header'.security = header.security /\ DOMAIN header' = DOMAIN header
    <3>1. \/ header' = [header EXCEPT !.allowOrigin = TRUE, !.expose = ExposedHeaders]
          \/ header' = header
      BY <1>7 DEF CORSActual
    <3> QED BY <3>1, <1>0
  <2>3. header.security
    BY <2>1 DEF EdgeInv, Secured
  <2> QED BY <1>1, <2>1, <2>2, <2>3, Moves
<1>8. CASE CORSPreflight
  <2>1. layer = 5 /\ layer' = layer - 1 /\ way = "in" /\ way' = "out"
        /\ UNCHANGED <<request, allowed, id, records>> /\ sent' = [status |-> 200, header |-> header']
    BY <1>8, Places DEF CORSPreflight
  <2>2. header'.id = header.id /\ header'.security = header.security /\ DOMAIN header' = DOMAIN header
    <3>1. \/ header' = [header EXCEPT !.allowOrigin = TRUE, !.allowMethods = {request.method},
                                      !.allowHeaders = request.asks]
          \/ header' = header
      BY <1>8 DEF CORSPreflight
    <3> QED BY <3>1, <1>0
  <2>3. header.security /\ header.id = id
    BY <2>1 DEF EdgeInv, Secured, Named
  <2>4. Named' /\ Secured'
    BY <2>1, <2>2, <2>3 DEF EdgeInv, Named, Secured, Acceptable
  <2>5. Consistent'
    <3>1. sent'.status # 0 /\ sent'.header.id = id /\ sent'.header.security
      <4>1. sent'.status = 200 /\ sent'.header = header'
        BY <2>1
      <4>2. 200 # 0
        OBVIOUS
      <4> QED BY <2>2, <2>3, <4>1, <4>2, Zenon
    <3>2. records = <<>> /\ records \in Seq([what : Kinds, requestID : {id}])
      BY <2>1 DEF EdgeInv, Consistent
    <3> QED BY <2>1, <3>1, <3>2 DEF Consistent
  <2>6. FailuresExplained'
    BY <2>1 DEF FailuresExplained
  <2> QED BY <1>0, <1>1, <1>2, <2>1, <2>2, <2>4, <2>5, <2>6 DEF EdgeInv
<1>9. CASE Answer
  <2>1. layer = Handler /\ way = "in" /\ way' = "out" /\ layer' = layer /\ kept /\ UNCHANGED records
    BY <1>9 DEF Answer, Running
  <2>2. PICK status \in {200, 400, 404, 405, 503} : WriteHeader(status)
    BY <1>9 DEF Answer
  <2>3. sent'.status \in {status, sent.status}
    BY <2>2 DEF WriteHeader
  <2>4. FailuresExplained'
    BY <2>1, <2>2, <2>3 DEF EdgeInv, FailuresExplained
  <2> QED BY <1>1, <1>3, <2>1, <2>2, <2>4
<1>10. ASSUME NEW what \in Kinds \ {"completed"}, NEW logger \in Loggers, Log(logger, what), layer > 2, UNCHANGED id
       PROVE  FailuresExplained'
  <2>1. records' = Append(records, [what |-> what, requestID |-> id])
    BY <1>1, <1>10, LogNames
  <2>2. Len(records') \in 1..Len(records') /\ records'[Len(records')].what = what
    BY <1>10, <2>1, RecordsGrow
  <2> QED BY <1>10, <2>2 DEF FailuresExplained
<1>11. CASE failRequest
  <2>1. layer = Handler /\ way = "in" /\ way' = "out" /\ layer' = layer /\ kept
    BY <1>11 DEF failRequest, Running
  <2>2. PICK what \in Kinds \ {"completed"}, logger \in Loggers : Log(logger, what)
    BY <1>11 DEF failRequest, Kinds
  <2>3. UNCHANGED sent \/ WriteHeader(504) \/ WriteHeader(500)
    BY <1>11 DEF failRequest
  <2> QED BY <1>1, <1>3, <1>10, <2>1, <2>2, <2>3
<1>12. CASE writeJSONFails
  <2>1. layer = Handler /\ way = "in" /\ way' = "out" /\ layer' = layer /\ kept
    BY <1>12 DEF writeJSONFails, Running
  <2>2. PICK logger \in Loggers : Log(logger, "response failed")
    BY <1>12 DEF writeJSONFails
  <2>3. PICK status \in {200, 500} : WriteHeader(status)
    BY <1>12 DEF writeJSONFails
  <2>4. "response failed" \in Kinds \ {"completed"}
    BY DEF Kinds
  <2>5. layer > 2 /\ layer' > 2 /\ UNCHANGED id /\ way # "done"
    BY <1>1, <2>1
  <2>6. FailuresExplained'
    BY <1>10, <2>2, <2>4, <2>5
  <2>7. \E what \in Kinds \ {"completed"} : \E l \in Loggers : Log(l, what)
    BY <2>2, <2>4
  <2>8. \E st \in statuses : WriteHeader(st)
    BY <2>3
  <2> QED BY <1>3, <2>1, <2>5, <2>6, <2>7, <2>8
<1>13. CASE Panic
  <2>1. layer = Handler /\ layer' = layer /\ way' \in {"panicking", "aborting"}
        /\ UNCHANGED <<request, allowed, id, header, sent, records>>
    BY <1>13 DEF Panic
  <2>2. header.security
    BY <1>1, <2>1 DEF EdgeInv, Secured
  <2> QED BY <1>1, <2>1, <2>2, Moves
<1>14. CASE recoverPanic
  <2>1. layer = 4 /\ way = "panicking" /\ way' = "out" /\ layer' = 3 /\ kept
    BY <1>14, Places DEF recoverPanic
  <2>2. NewLogHandler \in Loggers /\ "panicked" \in Kinds \ {"completed"}
    BY DEF Loggers, Kinds
  <2>3. Log(NewLogHandler, "panicked") /\ WriteHeader(500)
    BY <1>14 DEF recoverPanic
  <2> QED BY <1>1, <1>3, <1>10, <2>1, <2>2, <2>3
<1>15. CASE logRequest
  <2>1. layer = 3 /\ layer' = 2 /\ way # "in" /\ way' = way /\ kept /\ UNCHANGED sent
        /\ Log(NewLogHandler, "completed")
    BY <1>15, Places DEF logRequest, Outward
  <2>2. NewLogHandler \in Loggers /\ "completed" \in Kinds
    BY DEF Loggers, Kinds
  <2>3. records' = Append(records, [what |-> "completed", requestID |-> id])
    BY <2>1, <2>2, LogNames
  <2>9. layer > 2 /\ UNCHANGED id
    BY <2>1
  <2>4. /\ records' \in Seq([what : Kinds, requestID : {id'}]) /\ records' # <<>>
        /\ \A n \in 1..Len(records') : records'[n].what = "completed" => n = Len(records')
        /\ records'[Len(records')].what = "completed"
        /\ \A n \in 1..Len(records) : n \in 1..Len(records') /\ records'[n] = records[n]
    BY <2>2, <2>3, <2>9, RecordsGrow
  <2>5. way # "panicking" /\ way # "done"
    BY <2>1 DEF EdgeInv
  <2>6. Named' /\ Secured'
    BY <2>1 DEF EdgeInv, Named, Secured, Acceptable
  <2>7. Consistent'
    BY <2>1, <2>4 DEF EdgeInv, Consistent, Nothing, Empty
  <2>8. FailuresExplained'
    BY <2>1, <2>4 DEF EdgeInv, FailuresExplained
  <2> QED BY <1>0, <1>1, <1>2, <2>1, <2>5, <2>6, <2>7, <2>8 DEF EdgeInv
<1>16. CASE Leave
  <2>1. /\ layer \in {1, 2, 4, 5, Handler} /\ layer' = layer - 1 /\ way # "in" /\ way' = way
        /\ UNCHANGED <<request, allowed, id, header, sent, records>>
        /\ way = "panicking" => layer # 4
    BY <1>16, Places DEF Leave, Outward
  <2>2. way # "done" /\ (way = "panicking" => layer > 4) /\ header.security
    BY <1>1, <2>1 DEF EdgeInv, Secured
  <2>3. layer' \in 0..Handler /\ (way = "panicking" => layer' > 3)
    BY <1>1, <2>1, <2>2
  <2>4. layer' <= 2 => layer <= 2
    BY <1>1, <2>1
  <2>5. layer <= 2 => layer' <= 2
    BY <1>1, <2>1
  <2>6. way \in {"in", "out", "panicking", "aborting", "done"}
    BY DEF EdgeInv
  <2> QED BY <1>1, <2>1, <2>2, <2>3, <2>4, <2>5, <2>6, Moves
<1>17. CASE Finish
  <2>1. layer = 0 /\ layer' = 0 /\ way # "in" /\ way' = "done" /\ kept /\ UNCHANGED records
    BY <1>17 DEF Finish, EdgeInv
  <2>2. header.id = id /\ header.security
    BY <2>1 DEF EdgeInv, Named, Secured
  <2>3. /\ sent'.status \in statuses \cup {0}
        /\ sent' # Nothing => sent'.status # 0 /\ sent'.header.id = id /\ sent'.header.security
        /\ sent'.status \in {200, sent.status}
    <3>1. CASE UNCHANGED sent
      BY <3>1 DEF EdgeInv, Consistent
    <3>2. CASE WriteHeader(200)
      BY <2>2, <3>2, ResponseWritten
    <3> QED BY <1>17, <3>1, <3>2 DEF Finish
  <2>4. Named' /\ Secured'
    BY <2>1 DEF EdgeInv, Named, Secured, Acceptable
  <2>5. Consistent'
    BY <2>1, <2>3 DEF EdgeInv, Consistent, Nothing, Empty
  <2>6. FailuresExplained'
    BY <2>1, <2>3 DEF EdgeInv, FailuresExplained
  <2> QED BY <1>0, <1>1, <1>2, <2>1, <2>3, <2>4, <2>5, <2>6 DEF EdgeInv
<1>18. CASE UNCHANGED vars
  <2>1. UNCHANGED <<request, allowed, layer, way, id, header, sent, records>>
    BY <1>18 DEF vars
  <2>2. way = "panicking" => layer > 3
    BY DEF EdgeInv
  <2>3. layer > 2 \/ way # "in" => header.security
    BY DEF EdgeInv, Secured
  <2> QED BY <1>1, <2>1, <2>2, <2>3, Moves DEF EdgeInv
<1>19. CASE Done
  BY <1>18, <1>19 DEF Done
<1> QED
  BY <1>4, <1>5, <1>6, <1>7, <1>8, <1>9, <1>11, <1>12, <1>13, <1>14, <1>15, <1>16, <1>17, <1>18, <1>19 DEF Next

-----------------------------------------------------------------------------
\* What is known at each layer on the way in and on the way out.
THEOREM EdgeInvariant == Spec => []EdgeInv
<1> QED BY InitInv, NextInv, PTL DEF Spec

\* The state is well typed.
THEOREM EdgeTypes == Spec => []TypeOK
<1>1. EdgeInv => TypeOK
  <2> SUFFICES ASSUME EdgeInv PROVE TypeOK
    OBVIOUS
  <2>1. id = <<>> \/ Acceptable(id)
    BY DEF EdgeInv, Named
  <2>2. sent = Nothing \/ sent.status \in {200, 400, 404, 405, 500, 503, 504}
    BY DEF EdgeInv, Consistent
  <2>3. \A n \in 1..Len(records) : records[n].what \in Kinds
    <3>1. records \in Seq([what : Kinds, requestID : {id}])
      BY DEF EdgeInv, Consistent
    <3>2. \A n \in 1..Len(records) : records[n] \in [what : Kinds, requestID : {id}]
      BY <3>1, EntryInSet
    <3> QED BY <3>2
  <2> QED BY <2>1, <2>2, <2>3 DEF EdgeInv, TypeOK
<1> QED BY <1>1, EdgeInvariant, PTL

\* Whatever the client sent, every response carries an acceptable ID and the
\* security headers, and the client's own ID where that is acceptable.
THEOREM ResponsesNamed == Spec => []EveryResponseNamed
<1>1. EdgeInv => EveryResponseNamed
  BY DEF EdgeInv, Consistent, Named, EveryResponseNamed
<1> QED BY <1>1, EdgeInvariant, PTL

\* Every record of a request carries the ID of its response.
THEOREM RecordsNamed == Spec => []RecordsNameTheResponse
<1>1. EdgeInv => RecordsNameTheResponse
  <2> SUFFICES ASSUME EdgeInv, NEW n \in 1..Len(records)
               PROVE  records[n].requestID # <<>> /\ (sent # Nothing => records[n].requestID = sent.header.id)
    BY DEF RecordsNameTheResponse
  <2>1. records[n].requestID = id
    <3>1. records \in Seq([what : Kinds, requestID : {id}])
      BY DEF EdgeInv, Consistent
    <3>2. records[n] \in [what : Kinds, requestID : {id}]
      BY <3>1, EntryInSet
    <3> QED BY <3>2
  <2>2. records # <<>>
    OBVIOUS
  <2>3. Acceptable(id)
    BY <2>2 DEF EdgeInv, Consistent, Named
  <2>4. id # <<>>
    BY <2>3 DEF Acceptable
  <2> QED BY <2>1, <2>4 DEF EdgeInv, Consistent
<1> QED BY <1>1, EdgeInvariant, PTL

\* Every 500 and 504 is explained by a record of its request.
THEOREM EveryFailureExplained == Spec => []FailuresExplained
<1>1. EdgeInv => FailuresExplained
  BY DEF EdgeInv
<1> QED BY <1>1, EdgeInvariant, PTL

\* One completion record, the last one, however the handler ends.
THEOREM OneCompletion == Spec => []CompletedOnce
<1>1. EdgeInv => CompletedOnce
  BY DEF EdgeInv, Consistent, CompletedOnce
<1> QED BY <1>1, EdgeInvariant, PTL

-----------------------------------------------------------------------------
(* What a browser may read.                                                *)

\* An allowed origin means that there is a cors layer, the last before the
\* handler.
LEMMA Sharing == OriginAllowed => Handler = 6
BY DEF OriginAllowed, Handler, Chain, CORS

LEMMA InitShared == Init => Shared
<1> SUFFICES ASSUME Init, OriginAllowed
             PROVE  /\ ~request.preflight \/ layer < Handler
                    /\ ~(layer > 5 \/ way # "in") /\ sent = Nothing
  BY DEF Init, Shared
<1> QED BY Sharing DEF Init

LEMMA NextShared == EdgeInv /\ Shared /\ [Next]_vars => Shared'
<1>1. ASSUME [Next]_vars PROVE UNCHANGED <<request, allowed>>
  BY <1>1 DEF Next, vars, requestID, securityHeaders, Pass, CORSActual, CORSPreflight, Answer,
     failRequest, writeJSONFails, Panic, recoverPanic, logRequest, Leave, Finish, Done
<1> SUFFICES ASSUME EdgeInv, Shared, [Next]_vars, OriginAllowed
             PROVE  /\ request.preflight => layer' < Handler
                    /\ layer' > 5 \/ way' # "in" => Shown(header')
                    /\ sent' # Nothing => Shown(sent'.header)
  BY <1>1 DEF Shared, OriginAllowed, Shown, MethodAllowed, Readable, Handler, Chain, CORS
<1>2. Handler = 6 /\ layer \in 0..6
  BY Sharing DEF EdgeInv
<1>3. /\ request.preflight => layer < 6
      /\ layer > 5 \/ way # "in" => Shown(header)
      /\ sent # Nothing => Shown(sent.header)
  BY <1>2 DEF Shared
<1>4. /\ {"id", "security", "allowOrigin", "expose", "allowMethods", "allowHeaders"} = DOMAIN header
      /\ sent # Nothing => way # "in"
  BY DEF EdgeInv, Empty, Consistent
\* Behind cors the header is final: what is written is that header.
<1>5. ASSUME layer > 5 \/ way # "in", UNCHANGED header, layer' \in {layer, layer - 1},
             UNCHANGED sent \/ \E status : WriteHeader(status)
      PROVE  /\ request.preflight => layer' < Handler
             /\ layer' > 5 \/ way' # "in" => Shown(header')
             /\ sent' # Nothing => Shown(sent'.header)
  <2>1. sent' = sent \/ sent'.header = header
    BY <1>5 DEF WriteHeader
  <2> QED BY <1>2, <1>3, <1>5, <2>1
\* Before cors nothing is promised yet.
<1>6. ASSUME layer < 5, way' = "in", layer' = layer + 1, UNCHANGED sent, way = "in"
      PROVE  /\ request.preflight => layer' < Handler
             /\ layer' > 5 \/ way' # "in" => Shown(header')
             /\ sent' # Nothing => Shown(sent'.header)
  BY <1>2, <1>3, <1>6
<1>7. CASE requestID \/ securityHeaders \/ Pass
  <2>1. layer < 5 /\ layer' = layer + 1 /\ way = "in" /\ way' = "in" /\ UNCHANGED sent
    BY <1>7, Places DEF requestID, securityHeaders, Pass, Inward
  <2> QED BY <1>6, <2>1
<1>8. CASE CORSActual
  <2>1. layer = 5 /\ ~request.preflight /\ way = "in" /\ UNCHANGED sent
    BY <1>8, Places DEF CORSActual
  <2>2. ASSUME MethodAllowed PROVE header'.allowOrigin /\ requestIDHeader \in header'.expose
    <3>1. header' = [header EXCEPT !.allowOrigin = TRUE, !.expose = ExposedHeaders]
      BY <1>8, <2>2 DEF CORSActual
    <3> QED BY <1>4, <3>1 DEF ExposedHeaders
  <2>3. Shown(header')
    BY <1>1, <2>1, <2>2 DEF Shown, Readable
  <2> QED BY <1>4, <2>1, <2>3
<1>9. CASE CORSPreflight
  <2>1. layer = 5 /\ request.preflight /\ layer' = 4 /\ sent' = [status |-> 200, header |-> header']
    BY <1>9, Places DEF CORSPreflight
  <2>2. Shown(header')
    <3> SUFFICES ASSUME MethodAllowed, request.asks \subseteq {requestIDHeader}
                 PROVE  /\ header'.allowOrigin /\ request.method \in header'.allowMethods
                        /\ header'.allowHeaders = request.asks
      BY <2>1 DEF Shown, Readable
    <3>1. request.asks \subseteq AllowedHeaders
      BY DEF AllowedHeaders
    <3>2. header' = [header EXCEPT !.allowOrigin = TRUE, !.allowMethods = {request.method},
                                   !.allowHeaders = request.asks]
      BY <1>9, <3>1 DEF CORSPreflight
    <3> QED BY <1>4, <3>2
  <2> QED BY <1>2, <2>1, <2>2
<1>10. CASE Answer \/ failRequest \/ writeJSONFails
  <2>1. Running /\ UNCHANGED <<header, layer>>
    BY <1>10 DEF Answer, failRequest, writeJSONFails
  <2>3. layer > 5 /\ layer' = layer
    BY <1>2, <2>1 DEF Running
  <2>2. UNCHANGED sent \/ \E status : WriteHeader(status)
    BY <1>10 DEF Answer, failRequest, writeJSONFails
  <2> QED BY <1>5, <2>1, <2>2, <2>3
<1>11. CASE Panic
  BY <1>2, <1>5, <1>11 DEF Panic
<1>12. CASE recoverPanic \/ logRequest \/ Leave
  <2>1. way # "in" /\ UNCHANGED header /\ layer' = layer - 1
    BY <1>12 DEF recoverPanic, logRequest, Leave, Outward
  <2>2. UNCHANGED sent \/ \E status : WriteHeader(status)
    BY <1>12 DEF recoverPanic, logRequest, Leave
  <2> QED BY <1>5, <2>1, <2>2
<1>13. CASE Finish
  <2>1. way # "in" /\ UNCHANGED header /\ layer' = layer
    BY <1>13 DEF Finish, EdgeInv
  <2>2. UNCHANGED sent \/ \E status : WriteHeader(status)
    BY <1>13 DEF Finish
  <2> QED BY <1>5, <2>1, <2>2
<1>14. CASE UNCHANGED vars
  BY <1>2, <1>3, <1>14 DEF vars
<1> QED
  BY <1>7, <1>8, <1>9, <1>10, <1>11, <1>12, <1>13, <1>14 DEF Next, Done

\* A script of an allowed origin can read the response to every method that a
\* route has or the list names, and its ID, whatever wrote it; and no preflight
\* reaches the handler.
THEOREM BrowsersReadTheID == Spec => []BrowserReadsID
<1>1. Shared => BrowserReadsID
  <2> SUFFICES ASSUME Shared, OriginAllowed
               PROVE  /\ request.preflight => layer # Handler
                      /\ sent # Nothing /\ request.method \in RouteMethods \cup AllowedMethods =>
                             Readable(sent.header)
    BY DEF BrowserReadsID
  <2>1. Handler = 6
    BY Sharing
  <2>2. request.preflight => layer # Handler
    BY <2>1 DEF Shared
  <2>3. request.method \in RouteMethods \cup AllowedMethods => MethodAllowed
    BY DEF RouteMethods, AllowedMethods, MethodAllowed
  <2> QED BY <2>2, <2>3 DEF Shared, Shown
<1>2. Spec => []Shared
  BY InitShared, NextShared, EdgeInvariant, PTL DEF Spec
<1> QED BY <1>1, <1>2, PTL
=============================================================================
