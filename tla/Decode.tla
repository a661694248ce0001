------------------------------- MODULE Decode -------------------------------
(***************************************************************************)
(* POST /v1/widgets from the bytes of its body to the row: JSONDecoder's   *)
(* two passes over a size-limited stream, the generated type's rules, the  *)
(* service's and the table's.                                              *)
(*                                                                         *)
(* A body is a sequence of symbols of one unit of length each: "open" and  *)
(* "close" for the braces of the object, "blank" for white space, "name"   *)
(* for the name member, "other" for a member the type does not have,       *)
(* "null" for that literal and "junk" for whatever JSON does not allow in  *)
(* its place.  A name is a sequence of characters: "a" for letters, "sp"   *)
(* for the space, "ws" for every other white space of Unicode and "nul"    *)
(* for U+0000.                                                             *)
(***************************************************************************)
EXTENDS Naturals, Sequences, FiniteSetsExt

CONSTANTS
    Inputs,             \* requests: records of mediaType, body and name
    MaxRequestBytes,    \* HTTP_MAX_REQUEST_BYTES
    maximumNameLength

Symbols == {"blank", "open", "close", "name", "other", "null", "junk"}
Characters == {"a", "sp", "ws", "nul"}

ASSUME DecodeAssumption ==
    /\ MaxRequestBytes \in Nat \ {0} /\ maximumNameLength \in Nat \ {0}
    /\ \A i \in Inputs :
           /\ i.mediaType \in {"json", "+json", "other", "malformed"}
           /\ i.body \in Seq(Symbols) /\ i.name \in Seq(Characters)

VARIABLES
    input,      \* the request
    phase,      \* where create is
    pos,        \* symbols consumed by the JSON decoder
    name,       \* request.Name, then the service's trimmed name
    result      \* what create answers

vars == <<input, phase, pos, name, result>>

body == input.body

-----------------------------------------------------------------------------
(* The stream.                                                             *)

\* Mutant: the body is not wrapped in a MaxBytesReader.
NoLimit == pos < Len(body)

\* Mutant: a body of exactly the limit is not seen to end.
EndBelowLimit == pos = Len(body) /\ pos < MaxRequestBytes

\* Mutant: the limit itself is too much.
LimitInclusive == pos = MaxRequestBytes /\ Len(body) >= MaxRequestBytes

\* MaxBytesReader hands out the limit's bytes, then an error if there are more.
HasMore == pos < Len(body) /\ pos < MaxRequestBytes
AtEnd == pos = Len(body) /\ pos <= MaxRequestBytes
OverLimit == pos = MaxRequestBytes /\ Len(body) > MaxRequestBytes
NextSymbol == body[pos + 1]

Finish(res) == phase' = "done" /\ result' = res /\ UNCHANGED <<input, pos, name>>

Consume(p) == pos' = pos + 1 /\ phase' = p /\ UNCHANGED <<input, name, result>>

isJSONContentType(mediaType) == mediaType \in {"json", "+json"}

Begin ==
    /\ phase = "start"
    /\ IF isJSONContentType(input.mediaType)
       THEN phase' = "first" /\ UNCHANGED <<input, pos, name, result>>
       ELSE Finish("media_type")

-----------------------------------------------------------------------------
(* The first Decode: into the request type, unknown fields refused.        *)

\* Up to the beginning of the first value.
First ==
    /\ phase = "first" /\ HasMore
    /\ CASE NextSymbol = "blank" -> Consume("first")
         [] NextSymbol = "open" -> Consume("object")
         [] NextSymbol = "null" -> Consume("literal")
         [] OTHER -> Finish("bad_request")

\* The object has a member that the destination does not know.
Unknown == \E i \in 1..pos : body[i] = "other"

\* Inside the object.  It ends with its brace; only then is it stored into the
\* destination, which finds unknown fields.
Object ==
    /\ phase = "object" /\ HasMore
    /\ CASE NextSymbol \in {"blank", "name", "other"} -> Consume("object")
         [] NextSymbol = "close" /\ ~Unknown ->
                /\ pos' = pos + 1 /\ phase' = "rest"
                /\ name' = IF \E i \in 1..pos : body[i] = "name" THEN input.name ELSE <<>>
                /\ UNCHANGED <<input, result>>
         [] OTHER -> Finish("bad_request")

\* A literal ends where anything else begins, or with the body; null leaves the
\* destination as it is.
Literal ==
    /\ phase = "literal" /\ (HasMore \/ AtEnd)
    /\ phase' = "rest"
    /\ UNCHANGED <<input, pos, name, result>>

\* The limit is met inside the first value: create finds a MaxBytesError.
TooLarge ==
    /\ phase \in {"first", "object", "literal"} /\ OverLimit
    /\ Finish("too_large")

\* The body ends inside the first value, or before it.
Truncated ==
    /\ phase \in {"first", "object"} /\ AtEnd
    /\ Finish("bad_request")

\* A read fails, because the read timeout passes or the client goes away;
\* create answers it as it answers a malformed body.
ReadFails ==
    /\ phase \in {"first", "object", "literal", "rest"}
    /\ Finish("read_failed")

-----------------------------------------------------------------------------
(* The second Decode: any error but EOF, and no error at all, is refused.  *)

\* Mutant: the limit's error passes for the end of the body.
EndsAtLimit == AtEnd \/ OverLimit

OnlyEOF == AtEnd

Rest ==
    /\ phase = "rest"
    /\ IF OnlyEOF THEN phase' = "validate" /\ UNCHANGED <<input, pos, name, result>>
       ELSE IF HasMore /\ NextSymbol = "blank" THEN Consume("rest")
       ELSE Finish("bad_request")

-----------------------------------------------------------------------------
(* The rules of a name.                                                    *)

\* s without the characters of blanks at its two ends.
Trim(s, blanks) ==
    LET kept == {i \in DOMAIN s : s[i] \notin blanks}
    IN  IF kept = {} THEN <<>> ELSE SubSeq(s, Min(kept), Max(kept))

\* Mutant: the service takes the name as it comes.
Untrimmed(s) == s

TrimSpace(s) == Trim(s, {"sp", "ws"})
btrim(s) == Trim(s, {"sp"})

\* The generated type: required, and max=120 in runes.
ValidateStruct ==
    /\ phase = "validate"
    /\ IF name = <<>> \/ Len(name) > maximumNameLength
       THEN Finish("unprocessable")
       ELSE phase' = "service" /\ UNCHANGED <<input, pos, name, result>>

\* Service.Create.
Create ==
    /\ phase = "service"
    /\ IF TrimSpace(name) = <<>> \/ Len(TrimSpace(name)) > maximumNameLength
       THEN Finish("unprocessable")
       ELSE name' = TrimSpace(name) /\ phase' = "insert" /\ UNCHANGED <<input, pos, result>>

\* The constraints of the widgets table.
Checks(s) == Len(btrim(s)) > 0 /\ Len(s) <= maximumNameLength

\* PostgreSQL's text cannot hold U+0000.
Storable(s) == \A i \in DOMAIN s : s[i] # "nul"

Insert ==
    /\ phase = "insert"
    /\ Finish(IF Checks(name) /\ Storable(name) THEN "created" ELSE "internal")

Terminated == phase = "done" /\ UNCHANGED vars

-----------------------------------------------------------------------------
Init ==
    /\ input \in Inputs
    /\ phase = "start" /\ pos = 0 /\ name = <<>> /\ result = "none"

Next ==
    \/ Begin \/ First \/ Object \/ Literal \/ TooLarge \/ Truncated \/ ReadFails
    \/ Rest \/ ValidateStruct \/ Create \/ Insert \/ Terminated

Spec == Init /\ [][Next]_vars

-----------------------------------------------------------------------------
(* Properties.                                                             *)

TypeOK ==
    /\ phase \in {"start", "first", "object", "literal", "rest", "validate", "service", "insert", "done"}
    /\ pos \in 0..MaxRequestBytes /\ pos <= Len(body)
    /\ Len(name) <= Len(input.name)
    /\ result \in {"none", "created", "bad_request", "read_failed", "too_large",
                   "media_type", "unprocessable", "internal"}

\* What a request must be to be stored: one object with a name and no other
\* member, and white space around it.
StrictObject ==
    \E i, j \in DOMAIN body :
        /\ i < j /\ body[i] = "open" /\ body[j] = "close"
        /\ \E k \in i..j : body[k] = "name"
        /\ \A k \in DOMAIN body :
               /\ k < i \/ k > j => body[k] = "blank"
               /\ i < k /\ k < j => body[k] \in {"blank", "name"}

\* What reaches the table is one strict JSON object within the size limit:
\* neither pass of the decoder lets a second value, an unknown member, a cut or
\* an oversized body through.
OnlyStrictObjectsStored ==
    result \in {"created", "internal"} =>
        StrictObject /\ Len(body) <= MaxRequestBytes /\ input.mediaType \in {"json", "+json"}

\* Nothing else is refused as unprocessable than a complete body, and as too
\* large than a body beyond the limit.
RefusalsAreTrue ==
    /\ result = "too_large" => Len(body) > MaxRequestBytes
    /\ result = "unprocessable" => Len(body) <= MaxRequestBytes /\ pos = Len(body)
    /\ result = "media_type" => pos = 0

\* The three layers that judge a name agree: what the generated type and the
\* service accept, the table's constraints accept, so that a client's name is a
\* fault of the server only if it holds a U+0000.
LayersAgree == result = "internal" => \E i \in DOMAIN name : name[i] = "nul"

\* Nothing that deserves to be stored is refused: one strict object up to and
\* including the limit, whose name has a character to keep, is stored.
GoodRequestsStored ==
    phase = "done" /\ StrictObject /\ Len(body) <= MaxRequestBytes
    /\ input.mediaType \in {"json", "+json"} /\ Len(input.name) <= maximumNameLength
    /\ (\E i \in DOMAIN input.name : input.name[i] \notin {"sp", "ws"})
    /\ (\A i \in DOMAIN input.name : input.name[i] # "nul")
        => result \in {"created", "read_failed"}

-----------------------------------------------------------------------------
(* The inductive invariant behind the proofs: what the symbols read so far *)
(* say about the body.                                                     *)

\* Of what has been read, i is the first symbol that is not white space.
FirstAt(i, symbol) == i \in 1..pos /\ body[i] = symbol /\ \A k \in 1..(i - 1) : body[k] = "blank"

\* One object from i to j, strict, and white space around it; and what the
\* destination holds then.
ObjectRead(i, j) ==
    /\ FirstAt(i, "open") /\ j \in (i + 1)..pos /\ body[j] = "close"
    /\ \A k \in (i + 1)..(j - 1) : body[k] \in {"blank", "name"}
    /\ \A k \in (j + 1)..pos : body[k] = "blank"
    /\ name = IF \E k \in i..j : body[k] = "name" THEN input.name ELSE <<>>

\* The literal null and white space around it, which leave the destination as
\* it is.
NullRead(i) ==
    FirstAt(i, "null") /\ (\A k \in (i + 1)..pos : body[k] = "blank") /\ name = <<>>

ValueRead == (\E i, j \in 1..pos : ObjectRead(i, j)) \/ (\E i \in 1..pos : NullRead(i))

Whole == pos = Len(body) /\ pos <= MaxRequestBytes

\* What is known of the body while it is read, and of the name behind it.
Progress ==
    /\ phase \in {"start", "first", "object", "literal"} => name = <<>>
    /\ phase = "start" => pos = 0
    /\ phase = "first" => \A k \in 1..pos : body[k] = "blank"
    /\ phase = "object" =>
           \E i \in 1..pos : FirstAt(i, "open") /\ \A k \in (i + 1)..pos : body[k] \in {"blank", "name", "other"}
    /\ phase = "literal" => FirstAt(pos, "null")
    /\ phase = "rest" => ValueRead
    /\ phase = "validate" => ValueRead /\ Whole
    /\ phase \in {"service", "insert"} => StrictObject /\ Whole
    /\ phase = "service" => name = input.name
    /\ phase = "insert" =>
           name = TrimSpace(input.name) /\ name # <<>> /\ Len(name) <= maximumNameLength
    /\ phase \notin {"start", "done"} => isJSONContentType(input.mediaType)

\* A name that the service and the table take.
GoodName ==
    /\ Len(input.name) <= maximumNameLength
    /\ \E i \in DOMAIN input.name : input.name[i] \notin {"sp", "ws"}

\* What each answer says about the request.
Verdict ==
    /\ result = "media_type" => pos = 0 /\ ~isJSONContentType(input.mediaType)
    /\ result = "too_large" => Len(body) > MaxRequestBytes
    /\ result = "bad_request" => ~(StrictObject /\ Len(body) <= MaxRequestBytes)
    /\ result = "unprocessable" => Whole /\ ~(StrictObject /\ GoodName)
    /\ result \in {"created", "internal"} =>
           StrictObject /\ Whole /\ isJSONContentType(input.mediaType) /\ name = TrimSpace(input.name)
    /\ result = "internal" => \E i \in DOMAIN name : name[i] = "nul"

DecodeInv ==
    /\ input \in Inputs
    /\ TypeOK
    /\ phase = "done" <=> result # "none"
    /\ Progress /\ Verdict
=============================================================================
