------------------------- MODULE WidgetPagingProofs -------------------------
(***************************************************************************)
(* Proofs about WidgetPaging for every set of writers, every set of        *)
(* timestamps and every page size.  First what ORDER BY ... LIMIT returns, *)
(* then the inductive invariant of the walk.                               *)
(***************************************************************************)
EXTENDS WidgetPaging, FiniteSetTheorems, TLAPS

-----------------------------------------------------------------------------
(* The order of the rows.                                                  *)

\* A nonempty set of natural numbers has a least element.
LEMMA LeastNat ==
    ASSUME NEW T, T \subseteq Nat, T # {}
    PROVE  \E x \in T : \A y \in T : x <= y
<1> DEFINE R == OpToRel(<, Nat)
<1>1. IsWellFoundedOn(R, Nat)
  BY NatLessThanWellFounded
<1>2. PICK x \in T : \A y \in T : ~(<<y, x>> \in R)
  <2> HIDE DEF R
  <2> QED BY <1>1, WFMin
<1>3. \A y \in T : ~(y < x)
  BY <1>2 DEF OpToRel
<1> QED BY <1>3

\* The row comparison of ListWidgetsAfter is a strict total order on rows.
LEMMA OlderIsStrictTotalOrder ==
    ASSUME NEW a \in Row, NEW b \in Row, NEW c \in Row
    PROVE  /\ ~Older(a, a)
           /\ Older(a, b) /\ Older(b, c) => Older(a, c)
           /\ a = b \/ Older(a, b) \/ Older(b, a)
           /\ ~(Older(a, b) /\ Older(b, a))
<1> a = [id |-> a.id, createdAt |-> a.createdAt] /\ b = [id |-> b.id, createdAt |-> b.createdAt]
  BY DEF Row
<1> a.id \in Nat /\ b.id \in Nat /\ c.id \in Nat
  BY DEF Row
<1> a.createdAt \in Nat /\ b.createdAt \in Nat /\ c.createdAt \in Nat
  BY DEF Row
<1> QED BY DEF Older

\* Every nonempty set of rows has an oldest one.
LEMMA OldestExists ==
    ASSUME NEW S, S \subseteq Row, S # {}
    PROVE  \E r \in S : \A q \in S : q = r \/ Older(r, q)
<1> DEFINE T == {r.createdAt : r \in S}
<1>1. T \subseteq Nat /\ T # {}
  BY DEF Row
<1>2. PICK t \in T : \A y \in T : t <= y
  <2> HIDE DEF T
  <2> QED BY <1>1, LeastNat
<1> DEFINE J == {r.id : r \in {q \in S : q.createdAt = t}}
<1>3. J \subseteq Nat /\ J # {}
  BY <1>2 DEF Row
<1>4. PICK i \in J : \A y \in J : i <= y
  <2> HIDE DEF J
  <2> QED BY <1>3, LeastNat
<1>5. PICK r \in S : r.createdAt = t /\ r.id = i
  BY <1>4
<1>6. ASSUME NEW q \in S PROVE q = r \/ Older(r, q)
  <2>1. t <= q.createdAt
    BY <1>2
  <2>2. q.createdAt = t => i <= q.id
    BY <1>4
  <2>3. q \in Row /\ r \in Row
    OBVIOUS
  <2>4. q.createdAt \in Nat /\ r.createdAt \in Nat /\ q.id \in Nat /\ r.id \in Nat
    BY <2>3 DEF Row
  <2>5. Older(r, q) \/ (r.createdAt = q.createdAt /\ r.id = q.id)
    BY <2>1, <2>2, <2>4, <1>5 DEF Older
  <2>6. q = [id |-> q.id, createdAt |-> q.createdAt] /\ r = [id |-> r.id, createdAt |-> r.createdAt]
    BY <2>3 DEF Row
  <2> QED BY <2>5, <2>6
<1> QED BY <1>6

-----------------------------------------------------------------------------
(* What ORDER BY created_at DESC, id DESC LIMIT n returns.                 *)

\* The set of rows newer than a row, and its size.
LEMMA NewerIsFinite ==
    ASSUME NEW S, S \subseteq Row, IsFiniteSet(S), NEW r \in S
    PROVE  /\ IsFiniteSet({q \in S : Older(r, q)})
           /\ Cardinality({q \in S : Older(r, q)}) \in Nat
<1> {q \in S : Older(r, q)} \in SUBSET S
  OBVIOUS
<1> QED BY FS_Subset, FS_CardinalityType

\* A newer row has fewer rows above it.
LEMMA NewerHasFewerAbove ==
    ASSUME NEW S, S \subseteq Row, IsFiniteSet(S), NEW r \in S, NEW s \in S, Older(r, s)
    PROVE  Cardinality({q \in S : Older(s, q)}) < Cardinality({q \in S : Older(r, q)})
<1> DEFINE A == {q \in S : Older(s, q)}
           B == {q \in S : Older(r, q)}
<1>1. A \subseteq B
  <2> SUFFICES ASSUME NEW q \in A PROVE q \in B
    OBVIOUS
  <2>1. r \in Row /\ s \in Row /\ q \in Row
    OBVIOUS
  <2> QED BY <2>1, OlderIsStrictTotalOrder
<1>2. s \in B /\ s \notin A
  <2>1. s \in Row
    OBVIOUS
  <2> QED BY <2>1, OlderIsStrictTotalOrder
<1>3. IsFiniteSet(B) /\ Cardinality(A) \in Nat /\ Cardinality(B) \in Nat
  BY NewerIsFinite
<1> HIDE DEF A, B
<1>4. Cardinality(A) <= Cardinality(B) /\ (Cardinality(A) = Cardinality(B) => A = B)
  BY <1>1, <1>3, FS_Subset
<1>5. Cardinality(A) < Cardinality(B)
  BY <1>2, <1>3, <1>4
<1> QED BY <1>5 DEF A, B

\* A result is a finite set of rows and closed upwards: a row newer than a
\* returned one is returned.
LEMMA NewestClosedUpwards ==
    ASSUME NEW S, S \subseteq Row, IsFiniteSet(S), NEW n \in Nat
    PROVE  /\ Newest(n, S) \subseteq S
           /\ IsFiniteSet(Newest(n, S))
           /\ Cardinality(Newest(n, S)) \in Nat
           /\ \A r \in Newest(n, S), s \in S : Older(r, s) => s \in Newest(n, S)
           /\ \A r \in Newest(n, S), s \in S \ Newest(n, S) : Older(s, r)
<1>1. Newest(n, S) \in SUBSET S
  BY DEF Newest
<1>2. IsFiniteSet(Newest(n, S)) /\ Cardinality(Newest(n, S)) \in Nat
  BY <1>1, FS_Subset, FS_CardinalityType
<1>3. ASSUME NEW r \in Newest(n, S), NEW s \in S, Older(r, s)
      PROVE  s \in Newest(n, S)
  <2>1. r \in S /\ Cardinality({q \in S : Older(r, q)}) < n
    BY DEF Newest
  <2>2. Cardinality({q \in S : Older(s, q)}) < Cardinality({q \in S : Older(r, q)})
    BY <2>1, <1>3, NewerHasFewerAbove
  <2>3. /\ Cardinality({q \in S : Older(s, q)}) \in Nat
        /\ Cardinality({q \in S : Older(r, q)}) \in Nat
    BY <2>1, NewerIsFinite
  <2>4. Cardinality({q \in S : Older(s, q)}) < n
    BY <2>1, <2>2, <2>3
  <2> QED BY <2>4 DEF Newest
<1>4. ASSUME NEW r \in Newest(n, S), NEW s \in S \ Newest(n, S)
      PROVE  Older(s, r)
  <2>1. r \in Row /\ s \in Row /\ r # s
    BY <1>1
  <2>2. ~Older(r, s)
    BY <1>3
  <2> QED BY <2>1, <2>2, OlderIsStrictTotalOrder
<1> QED BY <1>1, <1>2, <1>3, <1>4

\* LIMIT n returns at most n rows.
LEMMA NewestAtMost ==
    ASSUME NEW S, S \subseteq Row, IsFiniteSet(S), NEW n \in Nat
    PROVE  Cardinality(Newest(n, S)) <= n
<1> DEFINE F == Newest(n, S)
<1>1. F \subseteq S /\ IsFiniteSet(F) /\ Cardinality(F) \in Nat
  BY NewestClosedUpwards
<1>2. CASE F = {}
  <2>1. Cardinality(F) = 0
    BY <1>2, FS_EmptySet
  <2> QED BY <2>1
<1>3. CASE F # {}
  <2>1. F \subseteq Row
    BY <1>1
  <2>2. PICK r \in F : \A q \in F : q = r \/ Older(r, q)
    <3> HIDE DEF F
    <3> QED BY <1>3, <2>1, OldestExists
  <2> DEFINE B == {q \in S : Older(r, q)}
  <2>3. Cardinality(B) < n
    BY DEF Newest
  <2>4. IsFiniteSet(B) /\ Cardinality(B) \in Nat
    <3>1. r \in S
      BY <1>1
    <3> QED BY <3>1, NewerIsFinite
  <2>5. F \ {r} \in SUBSET B
    BY <1>1, <2>2
  <2> HIDE DEF F, B
  <2>6. Cardinality(F \ {r}) <= Cardinality(B)
    BY <2>4, <2>5, FS_Subset
  <2>7. Cardinality(F \ {r}) = Cardinality(F) - 1
    BY <1>1, <2>2, FS_RemoveElement
  <2>8. Cardinality(F) <= n
    BY <1>1, <2>3, <2>4, <2>6, <2>7
  <2> QED BY <2>8 DEF F
<1> QED BY <1>2, <1>3

\* LIMIT n returns every row when it returns fewer than n.
LEMMA NewestExhausts ==
    ASSUME NEW S, S \subseteq Row, IsFiniteSet(S), NEW n \in Nat,
           Cardinality(Newest(n, S)) < n
    PROVE  Newest(n, S) = S
<1> DEFINE F == Newest(n, S)
           above(r) == Cardinality({q \in S : Older(r, q)})
           C == {above(r) : r \in S \ F}
<1>1. F \subseteq S /\ IsFiniteSet(F) /\ Cardinality(F) \in Nat
  BY NewestClosedUpwards
<1>2. SUFFICES ASSUME S \ F # {} PROVE FALSE
  BY <1>1
<1>3. C \subseteq Nat /\ C # {}
  <2>1. \A r \in S : above(r) \in Nat
    BY NewerIsFinite
  <2> HIDE DEF above
  <2> QED BY <1>2, <2>1
<1>4. PICK c \in C : \A d \in C : c <= d
  <2> HIDE DEF C
  <2> QED BY <1>3, LeastNat
<1>5. PICK r \in S \ F : above(r) = c
  BY <1>4
<1> DEFINE B == {q \in S : Older(r, q)}
<1>6. B \in SUBSET F
  <2> SUFFICES ASSUME NEW q \in S, Older(r, q), q \notin F PROVE FALSE
    OBVIOUS
  <2>1. above(q) < above(r)
    BY NewerHasFewerAbove
  <2>2. above(q) \in C
    OBVIOUS
  <2>3. above(q) \in Nat /\ above(r) \in Nat
    BY NewerIsFinite
  <2> HIDE DEF above, C
  <2> QED BY <1>4, <1>5, <2>1, <2>2, <2>3
<1>7. Cardinality(B) <= Cardinality(F) /\ Cardinality(B) \in Nat
  <2>1. IsFiniteSet(B) /\ Cardinality(B) \in Nat
    BY NewerIsFinite
  <2> HIDE DEF B, F
  <2> QED BY <1>1, <1>6, <2>1, FS_Subset
<1>8. Cardinality(B) < n
  <2> HIDE DEF B
  <2> QED BY <1>1, <1>7
<1>9. r \in F
  BY <1>8 DEF Newest
<1> QED BY <1>5, <1>9

\* LIMIT n returns n rows when there are at least that many.
LEMMA NewestFull ==
    ASSUME NEW S, S \subseteq Row, IsFiniteSet(S), NEW n \in Nat, Cardinality(S) >= n
    PROVE  Cardinality(Newest(n, S)) = n
<1>1. Cardinality(Newest(n, S)) <= n /\ Cardinality(Newest(n, S)) \in Nat
  BY NewestAtMost, NewestClosedUpwards
<1>2. Cardinality(S) \in Nat
  BY FS_CardinalityType
<1>3. CASE Cardinality(Newest(n, S)) < n
  <2>1. Newest(n, S) = S
    BY <1>3, NewestExhausts
  <2> QED BY <1>1, <1>2, <1>3, <2>1
<1> QED BY <1>1, <1>3

-----------------------------------------------------------------------------
(* Service.List and the cursor's text.                                     *)

\* What the service makes of limit+1 rows: a page of at most n rows which is
\* everything when there is no cursor, and otherwise is full and ends with a
\* row that all the rows left out are older than.
LEMMA ServicePage ==
    ASSUME NEW S, S \subseteq Row, IsFiniteSet(S), NEW n \in Nat \ {0},
           NEW results, results = Newest(n + 1, S)
    PROVE  /\ Items(results, n) \subseteq S
           /\ IsFiniteSet(Items(results, n))
           /\ Cardinality(Items(results, n)) <= n
           /\ ~HasMore(results, n) => Items(results, n) = S
           /\ HasMore(results, n) =>
               /\ Cardinality(Items(results, n)) = n
               /\ Last(Items(results, n)) \in Items(results, n)
               /\ \A q \in Items(results, n) :
                      q = Last(Items(results, n)) \/ Older(Last(Items(results, n)), q)
               /\ \A r \in S \ Items(results, n) : Older(r, Last(Items(results, n)))
<1>1. /\ results \subseteq S /\ IsFiniteSet(results) /\ Cardinality(results) \in Nat
      /\ \A r \in results, s \in S \ results : Older(s, r)
  BY NewestClosedUpwards
<1>2. results \subseteq Row
  BY <1>1
<1>3. CASE HasMore(results, n)
  <2> DEFINE I == Newest(n, results)
  <2>1. Items(results, n) = I
    BY <1>3 DEF Items
  <2>2. /\ I \subseteq results /\ IsFiniteSet(I) /\ Cardinality(I) \in Nat
        /\ \A r \in I, s \in results \ I : Older(s, r)
    BY <1>1, <1>2, NewestClosedUpwards
  <2>3. Cardinality(I) = n
    <3>1. Cardinality(results) >= n
      BY <1>1, <1>3 DEF HasMore
    <3> QED BY <1>1, <1>2, <3>1, NewestFull
  <2> HIDE DEF I
  <2>4. I # {}
    BY <2>3, FS_EmptySet
  <2>5. Last(I) \in I /\ \A q \in I : q = Last(I) \/ Older(Last(I), q)
    <3>1. \E r \in I : \A q \in I : q = r \/ Older(r, q)
      BY <1>2, <2>2, <2>4, OldestExists
    <3> QED BY <3>1 DEF Last
  <2>6. \A r \in S \ I : Older(r, Last(I))
    <3> SUFFICES ASSUME NEW r \in S \ I PROVE Older(r, Last(I))
      OBVIOUS
    <3>1. CASE r \in results
      BY <2>2, <2>5, <3>1
    <3>2. CASE r \notin results
      BY <1>1, <2>2, <2>5, <3>2
    <3> QED BY <3>1, <3>2
  <2> QED BY <1>1, <1>3, <2>1, <2>2, <2>3, <2>5, <2>6
<1>4. CASE ~HasMore(results, n)
  <2>1. Items(results, n) = results
    BY <1>4 DEF Items
  <2>2. Cardinality(results) <= n
    BY <1>1, <1>4 DEF HasMore
  <2>3. results = S
    <3>1. n + 1 \in Nat /\ Cardinality(Newest(n + 1, S)) < n + 1
      BY <1>1, <2>2
    <3> QED BY <3>1, NewestExhausts
  <2> QED BY <1>1, <1>4, <2>1, <2>2, <2>3
<1> QED BY <1>3, <1>4

\* The handler's cursor text round-trips: RFC 3339 with nanoseconds loses
\* nothing of a microsecond timestamp.
LEMMA CursorRoundTrip ==
    ASSUME NEW r \in Row
    PROVE  /\ encodeListCursor(r) \in Text
           /\ decodeListCursor(encodeListCursor(r)) = r
<1>1. r.createdAt \in Nat /\ r.id \in Nat /\ r = [id |-> r.id, createdAt |-> r.createdAt]
  BY DEF Row
<1>2. /\ r.createdAt \div MicrosPerSecond \in Nat
      /\ r.createdAt % MicrosPerSecond \in Nat
      /\ (r.createdAt \div MicrosPerSecond) * MicrosPerSecond + (r.createdAt % MicrosPerSecond) = r.createdAt
  BY <1>1, SMT DEF MicrosPerSecond
<1> QED BY <1>1, <1>2 DEF encodeListCursor, decodeListCursor, Text

\* A limit the handler and the service accept is a page size.
LEMMA AcceptedLimit ==
    ASSUME NEW p \in LimitParams, ~Rejected(p)
    PROVE  listLimit(p) \in 1..maximumListLimit
<1>1. listLimit(p) \in Int /\ maximumListLimit \in Nat
  BY PagingAssumption DEF listLimit
<1>2. listLimit(p) >= 1 /\ listLimit(p) <= maximumListLimit
  BY DEF Rejected, ValidPagination
<1> QED BY <1>1, <1>2

-----------------------------------------------------------------------------
(* The invariant is inductive: one lemma per kind of step.                 *)

LEMMA InitInv == Init => PagingInv
<1> SUFFICES ASSUME Init PROVE PagingInv
  OBVIOUS
<1>1. IsFiniteSet({}) /\ Cardinality({}) = 0
  BY FS_EmptySet
<1>2. TypeOK
  BY <1>1, PagingAssumption DEF Init, TypeOK, NoTx, Tx
<1>3. limit \in Nat
  BY PagingAssumption DEF Init
<1>4. FreshIdentities
  BY DEF Init, FreshIdentities, NoTx
<1>5. CursorSplits /\ PagesDescend /\ NoRowSkipped /\ IssuedCursorAccepted
  BY DEF Init, CursorSplits, PagesDescend, NoRowSkipped, IssuedCursorAccepted
<1>6. PageSize
  BY <1>1, <1>3 DEF Init, PageSize
<1> QED BY <1>1, <1>2, <1>4, <1>5, <1>6 DEF PagingInv, Init

\* A page read keeps the invariant.
LEMMA ListInv ==
    ASSUME PagingInv, NEW p \in LimitParams, List(p)
    PROVE  PagingInv'
<1> DEFINE n == listLimit(p)
           key == Decoded(cursor)
           S == {r \in widgets : key # <<>> => Older(r, key[1])}
           results == Newest(n + 1, S)
           I == Items(results, n)
<1>1. /\ status # "done" /\ ~Rejected(p)
      /\ page' = I
      /\ cursor' = NextCursor(results, n)
      /\ status' = (IF HasMore(results, n) THEN "walking" ELSE "done")
      /\ limit' = n
      /\ seen' = seen \cup page
      /\ atStart' = (IF status = "idle" THEN widgets ELSE atStart)
      /\ response' = "page"
      /\ widgets' = widgets /\ tx' = tx /\ nextID' = nextID
  BY DEF List, ListQuery, database
<1>2. TypeOK /\ FreshIdentities /\ CursorSplits /\ PagesDescend
  BY DEF PagingInv
<1>3. n \in 1..maximumListLimit /\ n \in Nat \ {0}
  <2>1. n \in 1..maximumListLimit
    BY <1>1, AcceptedLimit
  <2> HIDE DEF n
  <2> QED BY <2>1, PagingAssumption
<1>4. widgets \subseteq Row /\ IsFiniteSet(widgets)
  BY <1>2 DEF TypeOK
<1>5. S \in SUBSET widgets /\ S \subseteq Row /\ IsFiniteSet(S)
  BY <1>4, FS_Subset
<1> HIDE DEF n, S
<1>6. /\ I \subseteq S /\ IsFiniteSet(I) /\ Cardinality(I) <= n
      /\ ~HasMore(results, n) => I = S
      /\ HasMore(results, n) =>
          /\ Cardinality(I) = n
          /\ Last(I) \in I
          /\ \A q \in I : q = Last(I) \/ Older(Last(I), q)
          /\ \A r \in S \ I : Older(r, Last(I))
  BY <1>3, <1>5, ServicePage
<1> HIDE DEF results, I
<1>7. I \subseteq Row
  BY <1>5, <1>6
<1>8. status \in {"idle", "walking"}
  BY <1>1, <1>2 DEF TypeOK
\* The walk before this page lies above S, and what it must still show is in S.
<1>9. \A r \in S, s \in seen \cup page : Older(r, s)
  <2>1. CASE status = "idle"
    BY <1>2, <2>1 DEF CursorSplits
  <2>2. CASE status = "walking"
    <3> SUFFICES ASSUME NEW r \in S, NEW s \in seen \cup page PROVE Older(r, s)
      OBVIOUS
    <3> DEFINE c == decodeListCursor(cursor[1])
    <3>1. cursor # <<>> /\ c \in Row /\ (s = c \/ Older(c, s))
      BY <1>2, <2>2 DEF CursorSplits
    <3>2. Older(r, c)
      BY <3>1 DEF S, Decoded
    <3>3. r \in Row /\ s \in Row
      BY <1>2, <1>5 DEF TypeOK
    <3> HIDE DEF c
    <3> QED BY <3>1, <3>2, <3>3, OlderIsStrictTotalOrder
  <2> QED BY <1>8, <2>1, <2>2
<1>10. \A r \in atStart' \cap widgets : r \in seen \cup page \/ r \in S
  <2>1. CASE status = "idle"
    <3>1. S = widgets
      BY <1>2, <2>1 DEF S, Decoded, CursorSplits
    <3> QED BY <3>1
  <2>2. CASE status = "walking"
    <3>1. atStart' = atStart
      BY <1>1, <2>2
    <3>2. \A r \in atStart \cap widgets :
             r \in seen \cup page \/ Older(r, decodeListCursor(cursor[1]))
      BY <1>2, <2>2 DEF CursorSplits
    <3>3. key = <<decodeListCursor(cursor[1])>>
      BY <1>2, <2>2 DEF Decoded, CursorSplits
    <3> QED BY <3>1, <3>2, <3>3 DEF S
  <2> QED BY <1>8, <2>1, <2>2
<1>11. HasMore(results, n) =>
         /\ cursor' = <<encodeListCursor(Last(I))>>
         /\ encodeListCursor(Last(I)) \in Text
         /\ decodeListCursor(encodeListCursor(Last(I))) = Last(I)
         /\ Last(I) \in Row
  BY <1>1, <1>6, <1>7, CursorRoundTrip DEF NextCursor, I
<1>12. ~HasMore(results, n) => cursor' = <<>>
  BY <1>1 DEF NextCursor
<1>13. TypeOK'
  <2>1. cursor' # <<>> => cursor' = <<cursor'[1]>> /\ cursor'[1] \in Text
    BY <1>11, <1>12
  <2>2. /\ page' \subseteq Row /\ seen' \subseteq Row /\ atStart' \subseteq Row
        /\ status' \in {"idle", "walking", "done"}
    BY <1>1, <1>2, <1>7 DEF TypeOK
  <2> QED BY <1>1, <1>2, <1>3, <2>1, <2>2 DEF TypeOK
<1>14. FreshIdentities'
  <2>1. atStart' \subseteq widgets \cup atStart
    BY <1>1
  <2> QED BY <1>1, <1>2, <2>1 DEF FreshIdentities
<1>15. CursorSplits'
  <2>1. status' # "idle"
    BY <1>1
  <2>2. CASE HasMore(results, n)
    <3>1. cursor' # <<>> /\ decodeListCursor(cursor'[1]) = Last(I)
      <4>1. cursor' # <<>> /\ cursor'[1] = encodeListCursor(Last(I))
        BY <1>11, <2>2
      <4> QED BY <1>11, <2>2, <4>1
    <3>2. \A s \in seen' \cup page' : s = Last(I) \/ Older(Last(I), s)
      BY <1>1, <1>6, <1>9, <2>2
    <3>3. \A r \in atStart' \cap widgets' : r \in seen' \cup page' \/ Older(r, Last(I))
      BY <1>1, <1>6, <1>10, <2>2
    <3> QED BY <1>11, <2>1, <2>2, <3>1, <3>2, <3>3 DEF CursorSplits
  <2>3. CASE ~HasMore(results, n)
    BY <1>1, <2>1, <2>3 DEF CursorSplits
  <2> QED BY <2>2, <2>3
<1>16. PagesDescend'
  BY <1>1, <1>6, <1>9 DEF PagesDescend
<1>17. NoRowSkipped'
  <2> SUFFICES ASSUME status' = "done" PROVE atStart' \cap widgets' \subseteq seen' \cup page'
    BY DEF NoRowSkipped
  <2>1. I = S
    BY <1>1, <1>6
  <2> QED BY <1>1, <1>10, <2>1
<1>18. PageSize' /\ IssuedCursorAccepted' /\ IsFiniteSet(page')
  BY <1>1, <1>6 DEF PageSize, IssuedCursorAccepted
<1> QED BY <1>13, <1>14, <1>15, <1>16, <1>17, <1>18 DEF PagingInv

\* A 400 is never caused by the cursor, so it keeps the invariant.
LEMMA ListRejectedInv ==
    ASSUME PagingInv, NEW p \in LimitParams, ListRejected(p)
    PROVE  PagingInv'
<1>1. /\ UNCHANGED <<widgets, tx, nextID, status, cursor, page, seen, limit, atStart>>
      /\ status # "done" /\ Rejected(p)
      /\ response' = (IF LimitParses(p) /\ listLimit(p) <= maximumListLimit
                      THEN "cursor_rejected" ELSE "limit_rejected")
  BY DEF ListRejected, database
<1>2. response' # "cursor_rejected"
  <2> SUFFICES ASSUME LimitParses(p), listLimit(p) <= maximumListLimit PROVE FALSE
    BY <1>1
  <2>1. listLimit(p) >= 1
    BY PagingAssumption DEF LimitParses, listLimit
  <2>2. cursor # <<>> => decodeListCursor(cursor[1]) \in Row
    BY <1>1 DEF PagingInv, CursorSplits, TypeOK
  <2>3. CursorDecodes(cursor) /\ ValidPagination(listLimit(p), Decoded(cursor))
    BY <2>1, <2>2 DEF CursorDecodes, ValidPagination, Decoded, decodeListCursor, Row
  <2> QED BY <1>1, <2>3 DEF Rejected
<1>3. TypeOK'
  BY <1>1 DEF PagingInv, TypeOK
<1>4. FreshIdentities' /\ CursorSplits' /\ PagesDescend' /\ NoRowSkipped' /\ PageSize'
  BY <1>1 DEF PagingInv, FreshIdentities, CursorSplits, PagesDescend, NoRowSkipped, PageSize
<1> QED BY <1>1, <1>2, <1>3, <1>4 DEF PagingInv, IssuedCursorAccepted

LEMMA RestartInv ==
    ASSUME PagingInv, Restart
    PROVE  PagingInv'
<1>1. IsFiniteSet({}) /\ Cardinality({}) = 0
  BY FS_EmptySet
<1> USE DEF Restart, database
<1>2. TypeOK'
  BY DEF PagingInv, TypeOK
<1>3. FreshIdentities'
  BY DEF PagingInv, FreshIdentities
<1>4. CursorSplits' /\ PagesDescend' /\ NoRowSkipped' /\ IssuedCursorAccepted'
  BY DEF CursorSplits, PagesDescend, NoRowSkipped, IssuedCursorAccepted
<1>5. PageSize'
  <2>1. limit \in Nat
    BY PagingAssumption DEF PagingInv, TypeOK
  <2> QED BY <1>1, <2>1 DEF PageSize
<1> QED BY <1>1, <1>2, <1>3, <1>4, <1>5 DEF PagingInv

\* Steps of the writers leave the walk alone: what they can disturb is the
\* table, the identities and what NoRowSkipped asks of the table.
LEMMA WriterFrame ==
    ASSUME PagingInv, UNCHANGED walk, TypeOK', FreshIdentities',
           atStart \cap widgets' \subseteq widgets
    PROVE  PagingInv'
<1>1. UNCHANGED <<status, cursor, page, seen, limit, atStart, response>>
  BY DEF walk
<1>2. CursorSplits'
  BY <1>1 DEF PagingInv, CursorSplits
<1>3. NoRowSkipped'
  BY <1>1 DEF PagingInv, NoRowSkipped
<1>4. PagesDescend' /\ PageSize' /\ IssuedCursorAccepted' /\ IsFiniteSet(page')
  BY <1>1 DEF PagingInv, PagesDescend, PageSize, IssuedCursorAccepted
<1> QED BY <1>2, <1>3, <1>4 DEF PagingInv

LEMMA InsertInv ==
    ASSUME PagingInv, NEW w \in Writers,
           (\E t \in Times : BeginInsert(w, t)) \/ AssignIdentity(w) \/ CommitInsert(w) \/ AbortInsert(w)
    PROVE  PagingInv'
<1>1. TypeOK /\ FreshIdentities
  BY DEF PagingInv
<1>2. UNCHANGED walk
  BY DEF BeginInsert, AssignIdentity, CommitInsert, AbortInsert
<1>3. UNCHANGED <<status, cursor, page, seen, limit, atStart, response>>
  BY <1>2 DEF walk
<1>4. ASSUME NEW t \in Times, BeginInsert(w, t) PROVE PagingInv'
  <2>1. t \in Nat /\ t # 0
    BY PagingAssumption
  <2>2. TypeOK'
    BY <1>1, <1>3, <1>4, <2>1 DEF BeginInsert, TypeOK, Tx
  <2>3. FreshIdentities'
    BY <1>1, <1>3, <1>4, <2>1 DEF BeginInsert, FreshIdentities, TypeOK, Tx
  <2> QED BY <1>2, <1>4, <2>2, <2>3, WriterFrame DEF BeginInsert
<1>5. CASE AssignIdentity(w)
  <2>1. TypeOK'
    BY <1>1, <1>3, <1>5 DEF AssignIdentity, TypeOK, Tx
  <2>2. \A r \in widgets' \cup atStart' : r.id \in Nat /\ r.id < nextID
    BY <1>1, <1>3, <1>5 DEF AssignIdentity, FreshIdentities, TypeOK, Row
  <2>3. /\ tx'[w].stage = "numbered" /\ tx'[w].id = nextID
        /\ tx'[w].createdAt = tx[w].createdAt /\ tx[w].stage = "begun"
        /\ \A v \in Writers \ {w} : tx'[v] = tx[v]
        /\ nextID' = nextID + 1 /\ nextID \in Nat \ {0}
    BY <1>1, <1>5 DEF AssignIdentity, TypeOK, Tx
  <2>4. \A v \in Writers \ {w} : tx[v].stage = "numbered" => tx[v].id \in 1..(nextID - 1)
    BY <1>1 DEF FreshIdentities
  <2>5. FreshIdentities'
    <3>1. \A r \in widgets' \cup atStart' : r.id < nextID'
      BY <2>2, <2>3
    <3>2. widgets' = widgets /\ atStart' = atStart
      BY <1>3, <1>5 DEF AssignIdentity
    <3>3. ASSUME NEW v \in Writers
          PROVE  /\ tx'[v].stage # "none" => tx'[v].createdAt # 0
                 /\ tx'[v].stage = "numbered" =>
                     /\ tx'[v].id \in 1..(nextID' - 1)
                     /\ \A r \in widgets' \cup atStart' : r.id # tx'[v].id
                     /\ \A u \in Writers \ {v} : tx'[u].stage = "numbered" => tx'[u].id # tx'[v].id
      <4>1. CASE v = w
        BY <1>1, <2>2, <2>3, <2>4, <4>1 DEF FreshIdentities
      <4>2. CASE v # w
        BY <1>1, <2>2, <2>3, <2>4, <3>2, <4>2 DEF FreshIdentities
      <4> QED BY <4>1, <4>2
    <3> QED BY <3>1, <3>3 DEF FreshIdentities
  <2> QED BY <1>2, <1>5, <2>1, <2>5, WriterFrame DEF AssignIdentity
<1>6. CASE CommitInsert(w)
  <2> DEFINE row == [id |-> tx[w].id, createdAt |-> tx[w].createdAt]
  <2>1. row \in Row /\ tx[w].id \in 1..(nextID - 1) /\ nextID \in Nat
    BY <1>1, <1>6 DEF CommitInsert, FreshIdentities, TypeOK, Row, Tx
  <2>2. /\ widgets' = widgets \cup {row} /\ tx' = [tx EXCEPT ![w] = NoTx]
        /\ nextID' = nextID /\ tx[w].stage = "numbered"
    BY <1>6 DEF CommitInsert
  <2> HIDE DEF row
  <2>3. IsFiniteSet(widgets')
    BY <1>1, <2>2, FS_AddElement DEF TypeOK
  <2>4. TypeOK'
    BY <1>1, <1>3, <2>1, <2>2, <2>3 DEF TypeOK, NoTx, Tx
  <2>5. /\ tx'[w].stage = "none"
        /\ \A v \in Writers \ {w} : tx'[v] = tx[v]
    BY <1>1, <2>2 DEF TypeOK, NoTx
  <2>6. FreshIdentities'
    BY <1>1, <1>3, <2>1, <2>2, <2>5 DEF FreshIdentities, row
  <2>7. row \notin atStart
    BY <1>1, <2>2 DEF FreshIdentities, row
  <2> QED BY <1>2, <2>2, <2>4, <2>6, <2>7, WriterFrame
<1>7. CASE AbortInsert(w)
  <2>1. TypeOK'
    BY <1>1, <1>3, <1>7 DEF AbortInsert, TypeOK, NoTx, Tx
  <2>2. FreshIdentities'
    BY <1>1, <1>3, <1>7 DEF AbortInsert, FreshIdentities, TypeOK, NoTx
  <2> QED BY <1>2, <1>7, <2>1, <2>2, WriterFrame DEF AbortInsert
<1> QED BY <1>4, <1>5, <1>6, <1>7

LEMMA DeleteInv ==
    ASSUME PagingInv, NEW id, DeleteWidget(id)
    PROVE  PagingInv'
<1>1. TypeOK /\ FreshIdentities
  BY DEF PagingInv
<1>2. /\ UNCHANGED walk /\ tx' = tx /\ nextID' = nextID
      /\ UNCHANGED <<status, cursor, page, seen, limit, atStart, response>>
      /\ widgets' \in SUBSET widgets
  BY DEF DeleteWidget, walk
<1>3. IsFiniteSet(widgets')
  BY <1>1, <1>2, FS_Subset DEF TypeOK
<1>4. TypeOK'
  BY <1>1, <1>2, <1>3 DEF TypeOK
<1>5. FreshIdentities'
  BY <1>1, <1>2 DEF FreshIdentities
<1> QED BY <1>2, <1>4, <1>5, WriterFrame

\* Every behaviour keeps the inductive invariant.
THEOREM PagingInvariant == Spec => []PagingInv
<1>1. Init => PagingInv
  BY InitInv
<1>2. PagingInv /\ [Next]_vars => PagingInv'
  <2> SUFFICES ASSUME PagingInv, [Next]_vars PROVE PagingInv'
    OBVIOUS
  <2>1. CASE UNCHANGED vars
    <3> USE <2>1 DEF vars
    <3>1. TypeOK' /\ FreshIdentities'
      BY DEF PagingInv, TypeOK, FreshIdentities
    <3> QED BY <3>1, WriterFrame DEF walk
  <2>2. CASE Next
    BY <2>2, ListInv, ListRejectedInv, RestartInv, InsertInv, DeleteInv DEF Next
  <2> QED BY <2>1, <2>2
<1> QED BY <1>1, <1>2, PTL DEF Spec

\* Type correctness: every variable stays within the values the code gives it.
THEOREM PagingTypes == Spec => []TypeOK
<1>1. PagingInv => TypeOK
  BY DEF PagingInv
<1> QED BY <1>1, PagingInvariant, PTL

\* For every page size, every timestamp and any number of concurrent writers,
\* a walk over GET /v1/widgets hands out no row twice and each page lies below
\* the pages before it (ListWidgetsAfter's strict row comparison).
THEOREM PagesAlwaysDescend == Spec => []PagesDescend
<1>1. PagingInv => PagesDescend
  BY DEF PagingInv
<1> QED BY <1>1, PagingInvariant, PTL

\* A finished walk showed every widget that existed throughout it.
THEOREM WalkSkipsNothing == Spec => []NoRowSkipped
<1>1. PagingInv => NoRowSkipped
  BY DEF PagingInv
<1> QED BY <1>1, PagingInvariant, PTL

\* The service's page never exceeds the requested size and is full whenever it
\* carries a next_cursor.
THEOREM PagesAreSized == Spec => []PageSize
<1>1. PagingInv => PageSize
  BY DEF PagingInv
<1> QED BY <1>1, PagingInvariant, PTL

\* A cursor the service issued is never rejected when it comes back, whatever
\* happened to its row in between.
THEOREM IssuedCursorsComeBack == Spec => []IssuedCursorAccepted
<1>1. PagingInv => IssuedCursorAccepted
  BY DEF PagingInv
<1> QED BY <1>1, PagingInvariant, PTL

\* A page that is not the last moves the client's cursor to a strictly older
\* key: Last(items) is one of the rows the query found below the old one.
LEMMA ListDescends ==
    ASSUME PagingInv, NEW p \in LimitParams, List(p), status = "walking", status' = "walking"
    PROVE  Older(decodeListCursor(cursor'[1]), decodeListCursor(cursor[1]))
<1> DEFINE n == listLimit(p)
           key == Decoded(cursor)
           S == {r \in widgets : key # <<>> => Older(r, key[1])}
           results == Newest(n + 1, S)
           I == Items(results, n)
<1>1. /\ ~Rejected(p) /\ cursor' = NextCursor(results, n)
      /\ status' = (IF HasMore(results, n) THEN "walking" ELSE "done")
  BY DEF List, ListQuery
<1>2. HasMore(results, n)
  BY <1>1
<1>3. n \in Nat \ {0}
  <2>1. n \in 1..maximumListLimit
    BY <1>1, AcceptedLimit
  <2> HIDE DEF n
  <2> QED BY <2>1, PagingAssumption
<1>4. S \in SUBSET widgets /\ S \subseteq Row /\ IsFiniteSet(S)
  <2>1. widgets \subseteq Row /\ IsFiniteSet(widgets)
    BY DEF PagingInv, TypeOK
  <2> QED BY <2>1, FS_Subset
<1>5. \A r \in S : Older(r, decodeListCursor(cursor[1]))
  BY DEF PagingInv, CursorSplits, Decoded
<1> HIDE DEF n, S
<1>6. I \subseteq S /\ Last(I) \in I
  BY <1>2, <1>3, <1>4, ServicePage
<1> HIDE DEF results, I
<1>7. Last(I) \in S /\ Last(I) \in Row
  BY <1>4, <1>6
<1>8. cursor' = <<encodeListCursor(Last(I))>>
  BY <1>1, <1>2 DEF NextCursor, I
<1>9. decodeListCursor(cursor'[1]) = Last(I)
  <2>1. cursor'[1] = encodeListCursor(Last(I))
    BY <1>8
  <2> QED BY <1>7, <2>1, CursorRoundTrip
<1> QED BY <1>5, <1>7, <1>9

\* A walk cannot cycle and cannot stand still: from page to page its key strictly
\* decreases in (created_at, id), for every page size, every timestamp and any
\* number of concurrent writers.
THEOREM WalkMovesOn == Spec => KeyDescends
<1>1. PagingInv /\ [Next]_vars =>
        [\A p \in LimitParams :
             List(p) /\ status = "walking" /\ status' = "walking" =>
                 Older(decodeListCursor(cursor'[1]), decodeListCursor(cursor[1]))]_vars
  BY ListDescends
<1> QED BY <1>1, PagingInvariant, PTL DEF Spec, KeyDescends
=============================================================================
