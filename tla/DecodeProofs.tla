---------------------------- MODULE DecodeProofs ----------------------------
(***************************************************************************)
(* Proofs about Decode for bodies and names of any length, any limit and   *)
(* any maximum length of a name.  First what trimming leaves of a name,    *)
(* then what each refusal of the decoder says about the body, then the     *)
(* inductive invariant.                                                    *)
(***************************************************************************)
EXTENDS Decode, FiniteSetTheorems, TLAPS

-----------------------------------------------------------------------------
(* Trimming.                                                               *)

\* A nonempty set of natural numbers has a least element.
LEMMA LeastNat ==
    ASSUME NEW T, T \subseteq Nat, T # {}
    PROVE  \E x \in T : \A y \in T : x <= y
<1> DEFINE R == OpToRel(<, Nat)
<1>1. IsWellFoundedOn(R, Nat)
  BY NatLessThanWellFounded
<1>2. PICK x \in T : \A y \in T : ~(<<y, x>> \in R)
  <2> HIDE DEF R
  <2> QED BY <1>1, WFMin
<1>3. \A y \in T : ~(y < x)
  BY <1>2 DEF OpToRel
<1> QED BY <1>3

\* A nonempty set of positions has a first and a last one.
LEMMA Ends ==
    ASSUME NEW n \in Nat, NEW T, T \subseteq 1..n, T # {}
    PROVE  /\ Min(T) \in T /\ Max(T) \in T
           /\ \A i \in T : Min(T) <= i /\ i <= Max(T)
<1>0. \A y \in T : y \in 1..n
  OBVIOUS
<1>1. \E x \in T : \A y \in T : x <= y
  <2>1. T \subseteq Nat
    OBVIOUS
  <2> QED BY <2>1, LeastNat
<1>2. \E x \in T : \A y \in T : x >= y
  <2> DEFINE U == {n - i : i \in T}
  <2>1. U \subseteq Nat /\ U # {}
    <3>1. \A i \in 1..n : n - i \in Nat
      OBVIOUS
    <3> QED BY <1>0, <3>1
  <2>2. PICK u \in U : \A v \in U : u <= v
    <3> HIDE DEF U
    <3> QED BY <2>1, LeastNat
  <2>3. PICK x \in T : u = n - x
    BY <2>2
  <2>4. \A y \in T : u <= n - y
    BY <2>2
  <2>5. x \in 1..n /\ \A y \in T : n - x <= n - y
    BY <1>0, <2>3, <2>4
  <2>6. \A y \in 1..n : n - x <= n - y => x >= y
    BY <2>5
  <2> QED BY <1>0, <2>5, <2>6
<1> QED BY <1>1, <1>2 DEF Min, Max

\* Trimming keeps characters of s only, nothing if all are blanks, and else a
\* text that neither begins with one nor is longer than s.
LEMMA TrimKeeps ==
    ASSUME NEW S, NEW s \in Seq(S), NEW blanks, \E i \in DOMAIN s : s[i] \notin blanks
    PROVE  /\ Trim(s, blanks) \in Seq(S)
           /\ Len(Trim(s, blanks)) \in 1..Len(s)
           /\ Trim(s, blanks)[1] \notin blanks
           /\ \A i \in DOMAIN Trim(s, blanks) : \E k \in DOMAIN s : Trim(s, blanks)[i] = s[k]
<1> DEFINE kept == {i \in DOMAIN s : s[i] \notin blanks}
           a == Min(kept)
           b == Max(kept)
<1>1. kept # {} /\ kept \subseteq 1..Len(s) /\ Len(s) \in Nat
  OBVIOUS
<1>2. a \in kept /\ b \in kept /\ a <= b
  <2> HIDE DEF kept
  <2> QED BY <1>1, Ends
<1>3. Trim(s, blanks) = SubSeq(s, a, b)
  BY <1>1 DEF Trim
<1>4. a \in 1..Len(s) /\ b \in 1..Len(s) /\ s[a] \notin blanks
  BY <1>1, <1>2
<1> HIDE DEF a, b, kept
<1>5. /\ SubSeq(s, a, b) \in Seq(S) /\ Len(SubSeq(s, a, b)) = b - a + 1
      /\ \A i \in 1..(b - a + 1) : SubSeq(s, a, b)[i] = s[a + i - 1]
  BY <1>2, <1>4
<1>6. \A i \in 1..(b - a + 1) : a + i - 1 \in DOMAIN s
  BY <1>2, <1>4
<1>7. SubSeq(s, a, b)[1] = s[a]
  BY <1>2, <1>4, <1>5
<1>8. DOMAIN SubSeq(s, a, b) = 1..(b - a + 1)
  BY <1>5
<1> QED BY <1>2, <1>3, <1>4, <1>5, <1>6, <1>7, <1>8

LEMMA TrimEmpties ==
    ASSUME NEW s, NEW blanks, ~ \E i \in DOMAIN s : s[i] \notin blanks
    PROVE  Trim(s, blanks) = <<>>
BY DEF Trim

\* What the service makes of a name that it accepts satisfies the constraints of
\* the table: trimming the spaces again leaves something.
LEMMA TrimmedNameChecks ==
    ASSUME NEW s \in Seq(Characters), TrimSpace(s) # <<>>, Len(TrimSpace(s)) <= maximumNameLength
    PROVE  Checks(TrimSpace(s))
<1> DEFINE t == TrimSpace(s)
<1>1. \E i \in DOMAIN s : s[i] \notin {"sp", "ws"}
  BY TrimEmpties DEF TrimSpace
<1>2. t \in Seq(Characters) /\ Len(t) \in 1..Len(s) /\ t[1] \notin {"sp", "ws"}
  BY <1>1, TrimKeeps DEF TrimSpace
<1>3. 1 \in DOMAIN t /\ t[1] \notin {"sp"}
  BY <1>2
<1>4. Len(btrim(t)) \in 1..Len(t)
  <2> HIDE DEF t
  <2> QED BY <1>2, <1>3, TrimKeeps DEF btrim
<1> QED BY <1>2, <1>4 DEF Checks

-----------------------------------------------------------------------------
(* What the symbols read so far say about the body.                        *)

LEMMA Sizes ==
    ASSUME DecodeInv
    PROVE  /\ body \in Seq(Symbols) /\ input.name \in Seq(Characters)
           /\ MaxRequestBytes \in Nat /\ Len(body) \in Nat /\ DOMAIN body = 1..Len(body)
           /\ pos \in Nat /\ pos <= Len(body) /\ pos <= MaxRequestBytes
<1>1. body \in Seq(Symbols) /\ input.name \in Seq(Characters) /\ MaxRequestBytes \in Nat
  BY DecodeAssumption DEF DecodeInv, body
<1>2. pos \in 0..MaxRequestBytes /\ pos <= Len(body)
  BY DEF DecodeInv, TypeOK
<1> QED BY <1>1, <1>2

\* A strict object begins with the first symbol that is not white space.
LEMMA FirstIsBrace ==
    ASSUME DecodeInv, NEW i \in 1..pos, NEW symbol, symbol # "blank", FirstAt(i, symbol), StrictObject
    PROVE  /\ symbol = "open"
           /\ \E j \in DOMAIN body :
                  /\ i < j /\ body[j] = "close"
                  /\ \E k \in i..j : body[k] = "name"
                  /\ \A k \in DOMAIN body :
                         /\ k > j => body[k] = "blank"
                         /\ i < k /\ k < j => body[k] \in {"blank", "name"}
<1>1. PICK m, j \in DOMAIN body :
        /\ m < j /\ body[m] = "open" /\ body[j] = "close"
        /\ \E k \in m..j : body[k] = "name"
        /\ \A k \in DOMAIN body :
               /\ k < m \/ k > j => body[k] = "blank"
               /\ m < k /\ k < j => body[k] \in {"blank", "name"}
  BY DEF StrictObject
<1>2. i \in DOMAIN body /\ body[i] = symbol /\ \A k \in 1..(i - 1) : body[k] = "blank"
  BY Sizes DEF FirstAt
<1>3. ~(m < i) /\ ~(i < m)
  <2>1. ASSUME m < i PROVE FALSE
    BY <1>1, <1>2, <2>1, Sizes
  <2>2. ASSUME i < m PROVE FALSE
    BY <1>1, <1>2, <2>2
  <2> QED BY <2>1, <2>2
<1>4. m = i
  BY <1>1, <1>3, Sizes
<1> QED BY <1>1, <1>2, <1>4

\* Before the value: a body without one, or that goes on with anything but a
\* brace, is no object.
LEMMA NoObjectBegins ==
    ASSUME DecodeInv, phase = "first", AtEnd \/ (HasMore /\ NextSymbol \notin {"blank", "open"})
    PROVE  ~StrictObject
<1> SUFFICES ASSUME StrictObject PROVE FALSE
  OBVIOUS
<1>1. PICK i, j \in DOMAIN body :
        i < j /\ body[i] = "open" /\ (\A k \in DOMAIN body : k < i => body[k] = "blank")
  BY DEF StrictObject
<1>2. \A k \in 1..pos : body[k] = "blank"
  BY DEF DecodeInv, Progress
<1>3. i > pos
  BY <1>1, <1>2, Sizes
<1>4. CASE AtEnd
  BY <1>1, <1>3, <1>4, Sizes DEF AtEnd
<1>5. CASE HasMore /\ NextSymbol \notin {"blank", "open"}
  <2>1. pos + 1 \in DOMAIN body /\ body[pos + 1] \notin {"blank", "open"}
    BY <1>5, Sizes DEF HasMore, NextSymbol
  <2>2. pos + 1 = i \/ pos + 1 < i
    BY <1>1, <1>3, Sizes
  <2> QED BY <1>1, <2>1, <2>2
<1> QED BY <1>4, <1>5

\* Inside the object: a body that ends, that goes on with what an object does
\* not hold, or whose object had an unknown member, is no strict object.
LEMMA NoObjectEnds ==
    ASSUME DecodeInv, phase = "object",
           \/ AtEnd
           \/ /\ HasMore /\ NextSymbol \notin {"blank", "name", "other"}
              /\ ~(NextSymbol = "close" /\ ~Unknown)
    PROVE  ~StrictObject
<1> SUFFICES ASSUME StrictObject PROVE FALSE
  OBVIOUS
<1>1. PICK i \in 1..pos : FirstAt(i, "open") /\ \A k \in (i + 1)..pos : body[k] \in {"blank", "name", "other"}
  BY DEF DecodeInv, Progress
<1>2. PICK j \in DOMAIN body :
        /\ i < j /\ body[j] = "close"
        /\ \A k \in DOMAIN body :
               /\ k > j => body[k] = "blank"
               /\ i < k /\ k < j => body[k] \in {"blank", "name"}
  BY <1>1, FirstIsBrace
<1>3. j > pos
  BY <1>1, <1>2, Sizes
<1>4. CASE AtEnd
  BY <1>2, <1>3, <1>4, Sizes DEF AtEnd
<1>5. CASE /\ HasMore /\ NextSymbol \notin {"blank", "name", "other"}
           /\ ~(NextSymbol = "close" /\ ~Unknown)
  <2>1. pos + 1 \in DOMAIN body /\ body[pos + 1] \notin {"blank", "name", "other"}
    BY <1>5, Sizes DEF HasMore, NextSymbol
  <2>2. pos + 1 = j \/ pos + 1 < j
    BY <1>2, <1>3, Sizes
  <2>3. pos + 1 = j
    BY <1>1, <1>2, <2>1, <2>2, Sizes
  <2>4. PICK k \in 1..pos : body[k] = "other"
    BY <1>2, <1>5, <2>3 DEF NextSymbol, Unknown
  <2>5. k < i \/ k = i \/ (i < k /\ k < j)
    BY <1>1, <2>3, Sizes
  <2>6. k \in DOMAIN body /\ k # i
    BY <1>1, <2>4, Sizes DEF FirstAt
  <2>7. k < i => body[k] = "blank"
    BY <1>1, <2>4 DEF FirstAt
  <2> QED BY <1>2, <2>4, <2>5, <2>6, <2>7
<1> QED BY <1>4, <1>5

\* Behind the value: a literal null is no object, and an object that anything
\* but white space follows is not strict.
LEMMA NothingMayFollow ==
    ASSUME DecodeInv, phase = "rest", HasMore, NextSymbol # "blank"
    PROVE  ~StrictObject
<1> SUFFICES ASSUME StrictObject PROVE FALSE
  OBVIOUS
<1>1. ValueRead
  BY DEF DecodeInv, Progress
<1>2. pos + 1 \in DOMAIN body /\ body[pos + 1] # "blank"
  BY Sizes DEF HasMore, NextSymbol
<1>3. ASSUME NEW i \in 1..pos, NEW j \in 1..pos, ObjectRead(i, j) PROVE FALSE
  <2>1. /\ FirstAt(i, "open") /\ j \in (i + 1)..pos /\ body[j] = "close"
        /\ \A k \in (i + 1)..(j - 1) : body[k] \in {"blank", "name"}
    BY <1>3 DEF ObjectRead
  <2>2. PICK e \in DOMAIN body :
          /\ i < e /\ body[e] = "close"
          /\ \A k \in DOMAIN body :
                 /\ k > e => body[k] = "blank"
                 /\ i < k /\ k < e => body[k] \in {"blank", "name"}
    BY <2>1, FirstIsBrace
  <2>3. ~(e > pos)
    <3>1. ASSUME e > pos PROVE FALSE
      <4>1. j \in DOMAIN body /\ i < j /\ j < e
        BY <2>1, <3>1, Sizes
      <4> QED BY <2>1, <2>2, <4>1
    <3> QED BY <3>1
  <2>4. pos + 1 > e
    BY <2>2, <2>3, Sizes
  <2> QED BY <1>2, <2>2, <2>4
<1>4. ASSUME NEW i \in 1..pos, NullRead(i) PROVE FALSE
  <2>1. FirstAt(i, "null")
    BY <1>4 DEF NullRead
  <2> QED BY <2>1, FirstIsBrace
<1> QED BY <1>1, <1>3, <1>4 DEF ValueRead

\* At the end of a complete body: the destination holds the name of a strict
\* object, and is empty otherwise.
LEMMA NameOfStrictObject ==
    ASSUME DecodeInv, ValueRead, Whole
    PROVE  /\ StrictObject => name = input.name
           /\ name # <<>> => StrictObject /\ name = input.name
<1>1. ASSUME NEW i \in 1..pos, NEW j \in 1..pos, ObjectRead(i, j)
      PROVE  /\ StrictObject => name = input.name
             /\ name # <<>> => StrictObject /\ name = input.name
  <2>1. /\ FirstAt(i, "open") /\ j \in (i + 1)..pos /\ body[j] = "close"
        /\ \A k \in (i + 1)..(j - 1) : body[k] \in {"blank", "name"}
        /\ \A k \in (j + 1)..pos : body[k] = "blank"
        /\ name = IF \E k \in i..j : body[k] = "name" THEN input.name ELSE <<>>
    BY <1>1 DEF ObjectRead
  <2>2. i \in DOMAIN body /\ j \in DOMAIN body /\ i < j /\ pos = Len(body)
    BY <2>1, Sizes DEF Whole
  <2>3. ASSUME \E k \in i..j : body[k] = "name" PROVE StrictObject
    <3>1. body[i] = "open" /\ \A k \in DOMAIN body :
             /\ k < i \/ k > j => body[k] = "blank"
             /\ i < k /\ k < j => body[k] \in {"blank", "name"}
      BY <2>1, <2>2, Sizes DEF FirstAt
    <3> QED BY <2>1, <2>2, <2>3, <3>1 DEF StrictObject
  <2>4. ASSUME StrictObject PROVE \E k \in i..j : body[k] = "name"
    <3>1. PICK e \in DOMAIN body :
            /\ i < e /\ body[e] = "close"
            /\ \E k \in i..e : body[k] = "name"
            /\ \A k \in DOMAIN body : k > e => body[k] = "blank"
      BY <2>1, <2>4, FirstIsBrace
    <3>2. PICK k \in i..e : body[k] = "name"
      BY <3>1
    <3>3. ~(j < k)
      <4>1. ASSUME j < k PROVE FALSE
        <5>1. k \in (j + 1)..pos
          BY <2>2, <3>1, <4>1, Sizes
        <5> QED BY <2>1, <3>2, <5>1
      <4> QED BY <4>1
    <3>4. k \in i..j
      BY <2>2, <3>1, <3>3, Sizes
    <3> QED BY <3>2, <3>4
  <2> QED BY <2>1, <2>3, <2>4
<1>2. ASSUME NEW i \in 1..pos, NullRead(i)
      PROVE  /\ StrictObject => name = input.name
             /\ name # <<>> => StrictObject /\ name = input.name
  <2>1. FirstAt(i, "null") /\ name = <<>>
    BY <1>2 DEF NullRead
  <2> QED BY <2>1, FirstIsBrace
<1> QED BY <1>1, <1>2 DEF ValueRead

-----------------------------------------------------------------------------
(* The invariant.                                                          *)

LEMMA InitInv == Init => DecodeInv
<1> SUFFICES ASSUME Init PROVE DecodeInv
  OBVIOUS
<1>1. input \in Inputs /\ phase = "start" /\ pos = 0 /\ name = <<>> /\ result = "none"
  BY DEF Init
<1>2. body \in Seq(Symbols) /\ input.name \in Seq(Characters) /\ MaxRequestBytes \in Nat
  BY <1>1, DecodeAssumption DEF body
<1>3. TypeOK
  BY <1>1, <1>2 DEF TypeOK
<1> QED BY <1>1, <1>3 DEF DecodeInv, Progress, Verdict

\* A step that answers nothing is judged by what it has read.
LEMMA ReadOn ==
    ASSUME DecodeInv, phase # "done", phase' # "done", UNCHANGED <<input, result>>,
           TypeOK', Progress'
    PROVE  DecodeInv'
<1>1. result' = "none"
  BY DEF DecodeInv
<1> QED BY <1>1 DEF DecodeInv, Verdict

\* A step that answers is judged by its verdict.
LEMMA Answered ==
    ASSUME DecodeInv, NEW res, Finish(res),
           res \in {"created", "bad_request", "read_failed", "too_large", "media_type",
                    "unprocessable", "internal"},
           Verdict'
    PROVE  DecodeInv'
<1>1. phase' = "done" /\ result' = res /\ UNCHANGED <<input, pos, name>> /\ body' = body
  BY DEF Finish, body
<1>2. TypeOK'
  BY <1>1 DEF DecodeInv, TypeOK
<1>3. Progress'
  BY <1>1 DEF Progress
<1> QED BY <1>1, <1>2, <1>3 DEF DecodeInv

\* The verdicts, where nothing but the answer changes.
LEMMA Judged ==
    ASSUME UNCHANGED <<input, pos, name>>, NEW res, result' = res,
           res = "media_type" => pos = 0 /\ ~isJSONContentType(input.mediaType),
           res = "too_large" => Len(body) > MaxRequestBytes,
           res = "bad_request" => ~(StrictObject /\ Len(body) <= MaxRequestBytes),
           res = "unprocessable" => Whole /\ ~(StrictObject /\ GoodName),
           res \in {"created", "internal"} =>
               StrictObject /\ Whole /\ isJSONContentType(input.mediaType) /\ name = TrimSpace(input.name),
           res = "internal" => \E i \in DOMAIN name : name[i] = "nul"
    PROVE  Verdict'
<1>1. body' = body
  BY DEF body
<1>2. (StrictObject' <=> StrictObject) /\ (GoodName' <=> GoodName) /\ (Whole' <=> Whole)
  BY <1>1 DEF StrictObject, GoodName, Whole
<1>3. TrimSpace(input.name)' = TrimSpace(input.name)
  BY DEF TrimSpace, Trim
<1> QED BY <1>1, <1>2, <1>3 DEF Verdict

\* One more symbol leaves the sizes in order.
LEMMA Consumed ==
    ASSUME DecodeInv, HasMore, UNCHANGED <<input, result>>, pos' = pos + 1,
           Len(name') <= Len(input.name),
           phase' \in {"start", "first", "object", "literal", "rest"}
    PROVE  TypeOK' /\ body' = body
<1>1. body' = body
  BY DEF body
<1>2. pos' \in 0..MaxRequestBytes /\ pos' <= Len(body)
  BY Sizes DEF HasMore
<1> QED BY <1>1, <1>2 DEF DecodeInv, TypeOK

\* The decoder reads white space, then the beginning of a value.
LEMMA FirstStep == ASSUME DecodeInv, First PROVE DecodeInv'
<1>1. phase = "first" /\ HasMore /\ name = <<>> /\ isJSONContentType(input.mediaType)
      /\ \A k \in 1..pos : body[k] = "blank"
  BY DEF First, DecodeInv, Progress
<1>2. Len(name) <= Len(input.name) /\ phase # "done"
  BY <1>1 DEF DecodeInv, TypeOK
<1>3. CASE NextSymbol = "blank" /\ Consume("first")
  <2>1. TypeOK' /\ body' = body /\ pos' = pos + 1 /\ phase' = "first" /\ UNCHANGED <<input, name, result>>
    BY <1>1, <1>2, <1>3, Consumed DEF Consume
  <2>2. \A k \in 1..pos' : body'[k] = "blank"
    BY <1>1, <1>3, <2>1, Sizes DEF NextSymbol
  <2>3. Progress'
    BY <1>1, <2>1, <2>2 DEF Progress
  <2> QED BY <1>2, <2>1, <2>3, ReadOn
<1>4. CASE NextSymbol = "open" /\ Consume("object")
  <2>1. TypeOK' /\ body' = body /\ pos' = pos + 1 /\ phase' = "object" /\ UNCHANGED <<input, name, result>>
    BY <1>1, <1>2, <1>4, Consumed DEF Consume
  <2>2. PICK n \in Nat : n = pos + 1
    BY Sizes
  <2>3. n \in 1..pos' /\ FirstAt(n, "open")' /\ \A k \in (n + 1)..pos' : FALSE
    BY <1>1, <1>4, <2>1, <2>2, Sizes DEF NextSymbol, FirstAt
  <2>4. Progress'
    BY <1>1, <2>1, <2>3 DEF Progress
  <2> QED BY <1>2, <2>1, <2>4, ReadOn
<1>5. CASE NextSymbol = "null" /\ Consume("literal")
  <2>1. TypeOK' /\ body' = body /\ pos' = pos + 1 /\ phase' = "literal" /\ UNCHANGED <<input, name, result>>
    BY <1>1, <1>2, <1>5, Consumed DEF Consume
  <2>2. FirstAt(pos, "null")'
    BY <1>1, <1>5, <2>1, Sizes DEF NextSymbol, FirstAt
  <2>3. Progress'
    BY <1>1, <2>1, <2>2 DEF Progress
  <2> QED BY <1>2, <2>1, <2>3, ReadOn
<1>6. CASE NextSymbol \notin {"blank", "open", "null"} /\ Finish("bad_request")
  <2>1. ~StrictObject
    BY <1>1, <1>6, NoObjectBegins
  <2>2. Verdict'
    BY <1>6, <2>1, Judged DEF Finish
  <2> QED BY <1>6, <2>2, Answered
<1> QED BY <1>3, <1>4, <1>5, <1>6 DEF First

\* The decoder reads the members of the object, and stores it at its end.
LEMMA ObjectStep == ASSUME DecodeInv, Object PROVE DecodeInv'
<1>1. phase = "object" /\ HasMore /\ name = <<>> /\ isJSONContentType(input.mediaType)
  BY DEF Object, DecodeInv, Progress
<1>2. PICK i \in 1..pos : FirstAt(i, "open") /\ \A k \in (i + 1)..pos : body[k] \in {"blank", "name", "other"}
  BY <1>1 DEF DecodeInv, Progress
<1>3. Len(name) <= Len(input.name) /\ phase # "done"
  BY <1>1 DEF DecodeInv, TypeOK
<1>4. CASE NextSymbol \in {"blank", "name", "other"} /\ Consume("object")
  <2>1. TypeOK' /\ body' = body /\ pos' = pos + 1 /\ phase' = "object" /\ UNCHANGED <<input, name, result>>
    BY <1>1, <1>3, <1>4, Consumed DEF Consume
  <2>2. i \in 1..pos' /\ FirstAt(i, "open")'
    BY <1>2, <2>1, Sizes DEF FirstAt
  <2>3. \A k \in (i + 1)..pos' : body'[k] \in {"blank", "name", "other"}
    BY <1>2, <1>4, <2>1, Sizes DEF NextSymbol
  <2>4. Progress'
    BY <1>1, <2>1, <2>2, <2>3 DEF Progress
  <2> QED BY <1>3, <2>1, <2>4, ReadOn
<1>5. CASE /\ NextSymbol = "close" /\ ~Unknown
           /\ pos' = pos + 1 /\ phase' = "rest" /\ UNCHANGED <<input, result>>
           /\ name' = IF \E k \in 1..pos : body[k] = "name" THEN input.name ELSE <<>>
  <2>1. Len(name') <= Len(input.name)
    BY <1>1, <1>3, <1>5, Sizes
  <2>2. TypeOK' /\ body' = body
    BY <1>1, <1>5, <2>1, Consumed
  <2>3. PICK j \in Nat : j = pos + 1
    BY Sizes
  <2>4. /\ i \in 1..pos' /\ j \in 1..pos' /\ j \in (i + 1)..pos' /\ pos' = j
        /\ FirstAt(i, "open")' /\ body'[j] = "close"
    BY <1>2, <1>5, <2>2, <2>3, Sizes DEF FirstAt, NextSymbol
  <2>5. \A k \in (i + 1)..(j - 1) : body'[k] \in {"blank", "name"}
    BY <1>2, <1>5, <2>2, <2>3, Sizes DEF Unknown
  <2>6. (\E k \in 1..pos : body[k] = "name") <=> (\E k \in i..j : body'[k] = "name")
    <3>1. ASSUME NEW k \in 1..pos, body[k] = "name" PROVE k \in i..j
      <4>1. ~(k < i)
        BY <1>2, <3>1, Sizes DEF FirstAt
      <4> QED BY <2>3, <4>1, Sizes
    <3>2. ASSUME NEW k \in i..j, body'[k] = "name" PROVE k \in 1..pos /\ body[k] = "name"
      <4>1. k # j
        BY <2>4, <3>2
      <4> QED BY <2>2, <2>3, <3>2, <4>1, Sizes
    <3> QED BY <2>2, <3>1, <3>2
  <2>7. ObjectRead(i, j)'
    BY <1>5, <2>2, <2>4, <2>5, <2>6 DEF ObjectRead
  <2>8. ValueRead'
    BY <2>4, <2>7 DEF ValueRead
  <2>9. Progress'
    BY <1>1, <1>5, <2>8 DEF Progress
  <2> QED BY <1>3, <1>5, <2>2, <2>9, ReadOn
<1>6. CASE /\ NextSymbol \notin {"blank", "name", "other"} /\ ~(NextSymbol = "close" /\ ~Unknown)
           /\ Finish("bad_request")
  <2>1. ~StrictObject
    BY <1>1, <1>6, NoObjectEnds
  <2>2. Verdict'
    BY <1>6, <2>1, Judged DEF Finish
  <2> QED BY <1>6, <2>2, Answered
<1> QED BY <1>4, <1>5, <1>6 DEF Object

\* The second pass: white space up to the end, and nothing else.
LEMMA RestStep == ASSUME DecodeInv, Rest PROVE DecodeInv'
<1>1. phase = "rest" /\ ValueRead /\ isJSONContentType(input.mediaType)
  BY DEF Rest, DecodeInv, Progress
<1>2. CASE OnlyEOF /\ phase' = "validate" /\ UNCHANGED <<input, pos, name, result>>
  <2>1. Whole /\ body' = body
    BY <1>2, Sizes DEF OnlyEOF, AtEnd, Whole, body
  <2>2. ValueRead' /\ Whole'
    BY <1>1, <1>2, <2>1 DEF ValueRead, ObjectRead, NullRead, FirstAt, Whole
  <2>3. TypeOK'
    BY <1>2, <2>1 DEF DecodeInv, TypeOK
  <2>4. Progress'
    BY <1>1, <1>2, <2>2 DEF Progress
  <2> QED BY <1>1, <1>2, <2>3, <2>4, ReadOn
<1>3. CASE HasMore /\ NextSymbol = "blank" /\ Consume("rest")
  <2>1. Len(name) <= Len(input.name)
    BY DEF DecodeInv, TypeOK
  <2>2. TypeOK' /\ body' = body /\ pos' = pos + 1 /\ phase' = "rest" /\ UNCHANGED <<input, name, result>>
    BY <1>3, <2>1, Consumed DEF Consume
  <2>3. ASSUME NEW i \in 1..pos, NEW symbol \in Symbols, FirstAt(i, symbol)
        PROVE  i \in 1..pos' /\ FirstAt(i, symbol)'
    BY <2>2, <2>3, Sizes DEF FirstAt
  <2>4. ASSUME NEW n \in 1..pos, \A k \in (n + 1)..pos : body[k] = "blank"
        PROVE  \A k \in (n + 1)..pos' : body'[k] = "blank"
    BY <1>3, <2>2, <2>4, Sizes DEF NextSymbol
  <2>5. ASSUME NEW i \in 1..pos, NEW j \in 1..pos, ObjectRead(i, j) PROVE ValueRead'
    <3>1. FirstAt(i, "open")' /\ i \in 1..pos' /\ j \in 1..pos'
      BY <2>2, <2>3, <2>5, Sizes DEF ObjectRead, Symbols
    <3>2. \A k \in (j + 1)..pos' : body'[k] = "blank"
      BY <2>4, <2>5 DEF ObjectRead
    <3>3. j \in (i + 1)..pos'
      BY <2>2, <2>5, Sizes DEF ObjectRead
    <3>4. ObjectRead(i, j)'
      BY <2>2, <2>5, <3>1, <3>2, <3>3 DEF ObjectRead
    <3> QED BY <3>1, <3>4 DEF ValueRead
  <2>6. ASSUME NEW i \in 1..pos, NullRead(i) PROVE ValueRead'
    <3>1. FirstAt(i, "null")' /\ i \in 1..pos'
      BY <2>3, <2>6 DEF NullRead, Symbols
    <3>2. NullRead(i)'
      BY <2>2, <2>4, <2>6, <3>1 DEF NullRead
    <3> QED BY <3>1, <3>2 DEF ValueRead
  <2>7. Progress'
    BY <1>1, <2>2, <2>5, <2>6 DEF Progress, ValueRead
  <2> QED BY <1>1, <2>2, <2>7, ReadOn
<1>4. CASE ~OnlyEOF /\ ~(HasMore /\ NextSymbol = "blank") /\ Finish("bad_request")
  <2>1. CASE HasMore
    BY <1>1, <1>4, <2>1, NothingMayFollow, Judged, Answered DEF Finish
  <2>2. CASE ~HasMore
    <3>1. Len(body) > MaxRequestBytes
      BY <1>4, <2>2, Sizes DEF OnlyEOF, AtEnd, HasMore
    <3>2. ~(Len(body) <= MaxRequestBytes)
      BY <3>1, Sizes
    <3>3. Verdict'
      BY <1>4, <3>2, Judged DEF Finish
    <3> QED BY <1>4, <3>3, Answered
  <2> QED BY <2>1, <2>2
<1> QED BY <1>2, <1>3, <1>4 DEF Rest

\* Reading ends inside the first value: at the limit, or with the body.
LEMMA ReadingEnds ==
    ASSUME DecodeInv, TooLarge \/ Truncated \/ ReadFails
    PROVE  DecodeInv'
<1>1. CASE TooLarge
  <2>1. Finish("too_large") /\ Len(body) > MaxRequestBytes
    BY <1>1 DEF TooLarge, OverLimit
  <2>2. Verdict'
    BY <2>1, Judged DEF Finish
  <2> QED BY <2>1, <2>2, Answered
<1>2. CASE Truncated
  <2>1. Finish("bad_request") /\ ~StrictObject
    BY <1>2, NoObjectBegins, NoObjectEnds DEF Truncated
  <2>2. Verdict'
    BY <2>1, Judged DEF Finish
  <2> QED BY <2>1, <2>2, Answered
<1>3. CASE ReadFails
  <2>1. Finish("read_failed")
    BY <1>3 DEF ReadFails
  <2>2. Verdict'
    BY <2>1, Judged DEF Finish
  <2> QED BY <2>1, <2>2, Answered
<1> QED BY <1>1, <1>2, <1>3

\* The media type is looked at before anything is read.
LEMMA BeginStep == ASSUME DecodeInv, Begin PROVE DecodeInv'
<1>1. phase = "start" /\ pos = 0 /\ name = <<>>
  BY DEF Begin, DecodeInv, Progress
<1>2. CASE /\ isJSONContentType(input.mediaType) /\ phase' = "first"
           /\ UNCHANGED <<input, pos, name, result>>
  <2>1. TypeOK'
    BY <1>2 DEF DecodeInv, TypeOK, body
  <2>2. \A k \in 1..pos' : FALSE
    BY <1>1, <1>2
  <2>3. Progress'
    BY <1>1, <1>2, <2>2 DEF Progress
  <2> QED BY <1>1, <1>2, <2>1, <2>3, ReadOn
<1>3. CASE ~isJSONContentType(input.mediaType) /\ Finish("media_type")
  <2>1. Verdict'
    BY <1>1, <1>3, Judged DEF Finish
  <2> QED BY <1>3, <2>1, Answered
<1> QED BY <1>2, <1>3 DEF Begin

LEMMA LiteralStep == ASSUME DecodeInv, Literal PROVE DecodeInv'
<1>1. /\ phase = "literal" /\ phase' = "rest" /\ UNCHANGED <<input, pos, name, result>>
      /\ name = <<>> /\ FirstAt(pos, "null") /\ isJSONContentType(input.mediaType)
  BY DEF Literal, DecodeInv, Progress
<1>2. body' = body
  BY <1>1 DEF body
<1>3. TypeOK'
  BY <1>1, <1>2 DEF DecodeInv, TypeOK
<1>4. PICK i \in 1..pos : i = pos
  BY <1>1, Sizes DEF FirstAt
<1>5. NullRead(i)' /\ i \in 1..pos'
  BY <1>1, <1>2, <1>4, Sizes DEF NullRead, FirstAt
<1>6. Progress'
  BY <1>1, <1>5 DEF Progress, ValueRead
<1> QED BY <1>1, <1>3, <1>6, ReadOn

\* The generated type's rules refuse no good name of a strict object.
LEMMA ValidateStep == ASSUME DecodeInv, ValidateStruct PROVE DecodeInv'
<1>1. phase = "validate" /\ ValueRead /\ Whole /\ isJSONContentType(input.mediaType)
  BY DEF ValidateStruct, DecodeInv, Progress
<1>2. CASE (name = <<>> \/ Len(name) > maximumNameLength) /\ Finish("unprocessable")
  <2>1. ~(StrictObject /\ GoodName)
    <3> SUFFICES ASSUME StrictObject, GoodName PROVE FALSE
      OBVIOUS
    <3>1. name = input.name
      BY <1>1, NameOfStrictObject
    <3>2. name # <<>> /\ Len(name) <= maximumNameLength
      BY <3>1 DEF GoodName
    <3>3. Len(name) \in Nat /\ maximumNameLength \in Nat
      BY <3>1, Sizes, DecodeAssumption
    <3> QED BY <1>2, <3>2, <3>3
  <2>2. Verdict'
    BY <1>1, <1>2, <2>1, Judged DEF Finish
  <2> QED BY <1>2, <2>2, Answered
<1>3. CASE name # <<>> /\ phase' = "service" /\ UNCHANGED <<input, pos, name, result>>
  <2>1. StrictObject /\ name = input.name
    BY <1>1, <1>3, NameOfStrictObject
  <2>2. body' = body
    BY <1>3 DEF body
  <2>3. StrictObject' /\ Whole' /\ TypeOK'
    BY <1>1, <1>3, <2>1, <2>2 DEF StrictObject, Whole, DecodeInv, TypeOK
  <2>4. Progress'
    BY <1>1, <1>3, <2>1, <2>3 DEF Progress
  <2> QED BY <1>1, <1>3, <2>3, <2>4, ReadOn
<1> QED BY <1>2, <1>3 DEF ValidateStruct

\* The service refuses no good name either, and hands on a trimmed one.
LEMMA CreateStep == ASSUME DecodeInv, Create PROVE DecodeInv'
<1> DEFINE t == TrimSpace(name)
<1>1. /\ phase = "service" /\ StrictObject /\ Whole /\ name = input.name
      /\ isJSONContentType(input.mediaType)
  BY DEF Create, DecodeInv, Progress
<1>2. name \in Seq(Characters) /\ maximumNameLength \in Nat
  BY <1>1, Sizes, DecodeAssumption
<1>3. ASSUME \E i \in DOMAIN name : name[i] \notin {"sp", "ws"}
      PROVE  t # <<>> /\ Len(t) <= Len(name) /\ Len(t) \in Nat
  BY <1>2, <1>3, TrimKeeps DEF TrimSpace
<1>4. CASE (t = <<>> \/ Len(t) > maximumNameLength) /\ Finish("unprocessable")
  <2>1. ~GoodName
    <3> SUFFICES ASSUME GoodName PROVE FALSE
      OBVIOUS
    <3>1. (\E i \in DOMAIN name : name[i] \notin {"sp", "ws"}) /\ Len(name) <= maximumNameLength
      BY <1>1 DEF GoodName
    <3>2. t # <<>> /\ Len(t) <= Len(name) /\ Len(t) \in Nat
      BY <1>3, <3>1
    <3> HIDE DEF t
    <3> QED BY <1>2, <1>4, <3>1, <3>2
  <2>2. Verdict'
    BY <1>1, <1>4, <2>1, Judged DEF Finish
  <2> QED BY <1>4, <2>2, Answered
<1>5. CASE /\ t # <<>> /\ ~(Len(t) > maximumNameLength) /\ name' = t /\ phase' = "insert"
           /\ UNCHANGED <<input, pos, result>>
  <2>1. \E i \in DOMAIN name : name[i] \notin {"sp", "ws"}
    BY <1>5, TrimEmpties DEF TrimSpace
  <2>2. Len(t) <= Len(name) /\ Len(t) \in Nat /\ Len(t) <= maximumNameLength
    BY <1>2, <1>3, <1>5, <2>1
  <2>3. body' = body /\ TrimSpace(input.name)' = t
    BY <1>1, <1>5 DEF body, TrimSpace, Trim
  <2> HIDE DEF t
  <2>4. StrictObject' /\ Whole' /\ TypeOK'
    BY <1>1, <1>5, <2>2, <2>3 DEF StrictObject, Whole, DecodeInv, TypeOK
  <2>5. Progress'
    BY <1>1, <1>5, <2>2, <2>3, <2>4 DEF Progress
  <2> QED BY <1>1, <1>5, <2>4, <2>5, ReadOn
<1> QED BY <1>4, <1>5 DEF Create

\* The table takes what the service hands on, a U+0000 excepted.
LEMMA InsertStep == ASSUME DecodeInv, Insert PROVE DecodeInv'
<1>1. /\ phase = "insert" /\ StrictObject /\ Whole /\ isJSONContentType(input.mediaType)
      /\ name = TrimSpace(input.name) /\ name # <<>> /\ Len(name) <= maximumNameLength
  BY DEF Insert, DecodeInv, Progress
<1>2. Checks(name)
  BY <1>1, Sizes, TrimmedNameChecks
<1> DEFINE res == IF Checks(name) /\ Storable(name) THEN "created" ELSE "internal"
<1>3. Finish(res)
  BY DEF Insert
<1>4. res = "internal" => \E i \in DOMAIN name : name[i] = "nul"
  BY <1>2 DEF Storable
<1>5. res \in {"created", "internal"}
  OBVIOUS
<1> HIDE DEF res
<1>6. Verdict'
  BY <1>1, <1>3, <1>4, <1>5, Judged DEF Finish
<1> QED BY <1>3, <1>5, <1>6, Answered

LEMMA NextInv == DecodeInv /\ [Next]_vars => DecodeInv'
<1> SUFFICES ASSUME DecodeInv, [Next]_vars PROVE DecodeInv'
  OBVIOUS
<1>1. CASE UNCHANGED vars
  <2>1. UNCHANGED <<input, phase, pos, name, result>> /\ body' = body
    BY <1>1 DEF vars, body
  <2>2. TypeOK' /\ StrictObject' = StrictObject /\ Whole' = Whole /\ GoodName' = GoodName
    BY <2>1 DEF DecodeInv, TypeOK, StrictObject, Whole, GoodName
  <2>3. ValueRead' = ValueRead
    BY <2>1 DEF ValueRead, ObjectRead, NullRead, FirstAt
  <2>4. TrimSpace(input.name)' = TrimSpace(input.name)
    BY <2>1 DEF TrimSpace, Trim
  <2>5. Progress'
    BY <2>1, <2>2, <2>3, <2>4 DEF DecodeInv, Progress, FirstAt
  <2>6. Verdict'
    BY <2>1, <2>2, <2>4 DEF DecodeInv, Verdict
  <2> QED BY <2>1, <2>2, <2>5, <2>6 DEF DecodeInv
<1>2. CASE Terminated
  BY <1>1, <1>2 DEF Terminated
<1> QED
  BY <1>1, <1>2, BeginStep, FirstStep, ObjectStep, LiteralStep, ReadingEnds, RestStep,
     ValidateStep, CreateStep, InsertStep DEF Next

-----------------------------------------------------------------------------
\* What is known of the body and the name at each stage, and what each answer
\* says about them.
THEOREM DecodeInvariant == Spec => []DecodeInv
<1> QED BY InitInv, NextInv, PTL DEF Spec

\* The decoder reads neither beyond the body nor beyond the limit.
THEOREM DecodeTypes == Spec => []TypeOK
<1>1. DecodeInv => TypeOK
  BY DEF DecodeInv
<1> QED BY <1>1, DecodeInvariant, PTL

\* Whatever its length, only a body that is one strict JSON object within the
\* limit, white space around it, reaches the table.
THEOREM StrictObjectsStored == Spec => []OnlyStrictObjectsStored
<1>1. DecodeInv => OnlyStrictObjectsStored
  <2> SUFFICES ASSUME DecodeInv, result \in {"created", "internal"}
               PROVE  StrictObject /\ Len(body) <= MaxRequestBytes /\ input.mediaType \in {"json", "+json"}
    BY DEF OnlyStrictObjectsStored
  <2>1. StrictObject /\ Whole /\ isJSONContentType(input.mediaType)
    BY DEF DecodeInv, Verdict
  <2> QED BY <2>1 DEF Whole, isJSONContentType
<1> QED BY <1>1, DecodeInvariant, PTL

\* A 413 means a body beyond the limit, a 422 a complete body within it, and a
\* 415 is answered before anything is read.
THEOREM RefusalsTrue == Spec => []RefusalsAreTrue
<1>1. DecodeInv => RefusalsAreTrue
  BY Sizes DEF DecodeInv, Verdict, Whole, RefusalsAreTrue
<1> QED BY <1>1, DecodeInvariant, PTL

\* For names of every length the generated type and the service let through only
\* what the table's constraints accept.
THEOREM NameRulesAgree == Spec => []LayersAgree
<1>1. DecodeInv => LayersAgree
  BY DEF DecodeInv, Verdict, LayersAgree
<1> QED BY <1>1, DecodeInvariant, PTL

\* No strict object within the limit, whose name the rules accept, is refused.
THEOREM GoodOnesStored == Spec => []GoodRequestsStored
<1>1. DecodeInv => GoodRequestsStored
  <2> SUFFICES ASSUME DecodeInv, phase = "done", StrictObject, Len(body) <= MaxRequestBytes,
                      input.mediaType \in {"json", "+json"}, Len(input.name) <= maximumNameLength,
                      \E i \in DOMAIN input.name : input.name[i] \notin {"sp", "ws"},
                      \A i \in DOMAIN input.name : input.name[i] # "nul"
               PROVE  result \in {"created", "read_failed"}
    BY DEF GoodRequestsStored
  <2>1. result # "none" /\ TypeOK /\ Verdict
    BY DEF DecodeInv
  <2>2. GoodName /\ isJSONContentType(input.mediaType)
    BY DEF GoodName, isJSONContentType
  <2>3. result \notin {"media_type", "bad_request", "unprocessable"}
    BY <2>1, <2>2 DEF Verdict
  <2>4. result # "too_large"
    BY <2>1, Sizes DEF Verdict
  <2>5. result # "internal"
    <3> SUFFICES ASSUME result = "internal" PROVE FALSE
      OBVIOUS
    <3>1. name = TrimSpace(input.name)
      BY <2>1 DEF Verdict
    <3>2. PICK i \in DOMAIN name : name[i] = "nul"
      BY <2>1 DEF Verdict
    <3>3. \E k \in DOMAIN input.name : name[i] = input.name[k]
      BY <3>1, Sizes, TrimKeeps DEF TrimSpace
    <3> QED BY <3>2, <3>3
  <2> QED BY <2>1, <2>3, <2>4, <2>5 DEF TypeOK
<1> QED BY <1>1, DecodeInvariant, PTL
=============================================================================
