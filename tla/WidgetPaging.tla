---------------------------- MODULE WidgetPaging ----------------------------
(***************************************************************************)
(* A client walks GET /v1/widgets page by page, following next_cursor,     *)
(* while other clients insert and delete widgets.  The walk crosses every  *)
(* layer: the handler parses limit and cursor, the service validates them, *)
(* asks the repository for one row more than the page holds and turns the  *)
(* extra row into a cursor, the repository runs ListWidgets or             *)
(* ListWidgetsAfter, and the handler encodes the cursor as text.           *)
(*                                                                         *)
(* Time is a number of microseconds, PostgreSQL's precision; 0 stands for  *)
(* Go's zero time.  An optional value (a query parameter, a *ListCursor)   *)
(* is <<>> when absent and <<v>> when present.                             *)
(***************************************************************************)
EXTENDS Integers, FiniteSets

CONSTANTS
    Writers,            \* concurrent POST /v1/widgets requests
    Times,              \* values CURRENT_TIMESTAMP can take, in microseconds
    LimitParams,        \* values of the limit query parameter
    DefaultListLimit,   \* service.go: 20
    maximumListLimit,   \* service.go: 100
    MaxID               \* bound: identities handed out

ASSUME PagingAssumption ==
    /\ Times \subseteq Nat \ {0}
    /\ \A p \in LimitParams : p # <<>> => p[1] \in Int
    /\ DefaultListLimit \in 1..maximumListLimit
    /\ maximumListLimit \in Nat
    /\ MaxID \in Nat

VARIABLES
    widgets,    \* the committed rows
    tx,         \* the INSERT of each writer, not yet committed
    nextID,     \* the identity sequence of widgets.id
    status,     \* the walk: "idle", "walking" or "done"
    cursor,     \* the next_cursor text the client holds, <<>> for none
    page,       \* the rows of the latest page
    seen,       \* the rows of the pages before it
    limit,      \* the page size the service used for the latest page
    atStart,    \* the rows that were committed when the walk began
    response    \* how the latest list request was answered

database == <<widgets, tx, nextID>>
walk == <<status, cursor, page, seen, limit, atStart, response>>
vars == <<widgets, tx, nextID, status, cursor, page, seen, limit, atStart, response>>

MicrosPerSecond == 1000000

Row == [id : Nat \ {0}, createdAt : Nat \ {0}]
Text == [sec : Nat, frac : Nat, id : Nat]
NoTx == [stage |-> "none", id |-> 0, createdAt |-> 0]
Tx == [stage : {"none", "begun", "numbered"}, id : Nat, createdAt : Nat]

-----------------------------------------------------------------------------
(* The queries of db/queries/widget/widgets.sql.                           *)

\* The row comparison (created_at, id) < (cursor_created_at, cursor_id).
Older(a, b) ==
    \/ a.createdAt < b.createdAt
    \/ a.createdAt = b.createdAt /\ a.id < b.id

\* ORDER BY created_at DESC, id DESC LIMIT n: the rows with fewer than n
\* newer ones.
Newest(n, rows) == {r \in rows : Cardinality({q \in rows : Older(r, q)}) < n}

\* Mutant: the comparison admits the cursor's own row (<= for <).
ListQueryInclusive(key, n) ==
    Newest(n, {r \in widgets : key # <<>> => ~Older(key[1], r)})

\* ListWidgets without a cursor, ListWidgetsAfter with one.
ListQuery(key, n) ==
    Newest(n, {r \in widgets : key # <<>> => Older(r, key[1])})

-----------------------------------------------------------------------------
(* The cursor's text: RFC 3339 with the fraction of the second, and the    *)
(* identifier.                                                             *)

\* Mutant: formatted with time.RFC3339, which drops the fraction.
encodeWholeSeconds(c) ==
    [sec |-> c.createdAt \div MicrosPerSecond, frac |-> 0, id |-> c.id]

encodeListCursor(c) ==
    [sec  |-> c.createdAt \div MicrosPerSecond,
     frac |-> c.createdAt % MicrosPerSecond,
     id   |-> c.id]

decodeListCursor(text) ==
    [createdAt |-> text.sec * MicrosPerSecond + text.frac, id |-> text.id]

\* decodeListCursor fails on an identifier below 1.
CursorDecodes(param) == param # <<>> => param[1].id >= 1

Decoded(param) == IF param = <<>> THEN <<>> ELSE <<decodeListCursor(param[1])>>

\* listLimit fails on a limit below the contract's minimum.
LimitParses(param) == param # <<>> => param[1] >= 1

listLimit(param) == IF param = <<>> THEN DefaultListLimit ELSE param[1]

-----------------------------------------------------------------------------
(* Service.List.                                                           *)

\* Mutant: the identifier must be above 1.
IdentifierAboveOne(n, key) ==
    /\ n >= 1 /\ n <= maximumListLimit
    /\ key # <<>> => key[1].id > 1 /\ key[1].createdAt # 0

ValidPagination(n, key) ==
    /\ n >= 1 /\ n <= maximumListLimit
    /\ key # <<>> => key[1].id >= 1 /\ key[1].createdAt # 0

\* len(results) > int(requestedLimit)
HasMore(results, n) == Cardinality(results) > n

Items(results, n) == IF HasMore(results, n) THEN Newest(n, results) ELSE results

\* page.Items[len(page.Items)-1]
Last(items) == CHOOSE r \in items : \A q \in items : q = r \/ Older(r, q)

NextCursor(results, n) ==
    IF HasMore(results, n) THEN <<encodeListCursor(Last(Items(results, n)))>>
                           ELSE <<>>

\* The handler answers 400 invalid_pagination to this request.
Rejected(limitParam) ==
    \/ ~LimitParses(limitParam)
    \/ ~CursorDecodes(cursor)
    \/ ~ValidPagination(listLimit(limitParam), Decoded(cursor))

-----------------------------------------------------------------------------
(* The client's requests.                                                  *)

\* GET /v1/widgets[?cursor=...][&limit=...] answered with a page.  The first
\* request of a walk carries no cursor.
List(limitParam) ==
    /\ status # "done"
    /\ ~Rejected(limitParam)
    /\ LET n == listLimit(limitParam)
           results == ListQuery(Decoded(cursor), n + 1)
       IN  /\ page' = Items(results, n)
           /\ cursor' = NextCursor(results, n)
           /\ status' = IF HasMore(results, n) THEN "walking" ELSE "done"
           /\ limit' = n
    /\ seen' = seen \cup page
    /\ atStart' = IF status = "idle" THEN widgets ELSE atStart
    /\ response' = "page"
    /\ UNCHANGED database

\* The same request answered with 400: the client keeps its cursor.
ListRejected(limitParam) ==
    /\ status # "done"
    /\ Rejected(limitParam)
    /\ response' = IF LimitParses(limitParam) /\ listLimit(limitParam) <= maximumListLimit
                   THEN "cursor_rejected" ELSE "limit_rejected"
    /\ UNCHANGED <<database, status, cursor, page, seen, limit, atStart>>

\* The client forgets the finished walk and may begin another.
Restart ==
    /\ status = "done"
    /\ status' = "idle"
    /\ cursor' = <<>>
    /\ page' = {} /\ seen' = {} /\ atStart' = {}
    /\ response' = "none"
    /\ UNCHANGED <<database, limit>>

-----------------------------------------------------------------------------
(* The writers.  CreateWidget is one statement, but its transaction takes  *)
(* CURRENT_TIMESTAMP when it begins, its identity when the row is formed   *)
(* and becomes visible when it commits: the three orders may differ.       *)

BeginInsert(w, t) ==
    /\ tx[w].stage = "none"
    /\ tx' = [tx EXCEPT ![w] = [stage |-> "begun", id |-> 0, createdAt |-> t]]
    /\ UNCHANGED <<widgets, nextID, walk>>

AssignIdentity(w) ==
    /\ tx[w].stage = "begun"
    /\ nextID <= MaxID
    /\ tx' = [tx EXCEPT ![w] = [stage |-> "numbered", id |-> nextID, createdAt |-> @.createdAt]]
    /\ nextID' = nextID + 1
    /\ UNCHANGED <<widgets, walk>>

CommitInsert(w) ==
    /\ tx[w].stage = "numbered"
    /\ widgets' = widgets \cup {[id |-> tx[w].id, createdAt |-> tx[w].createdAt]}
    /\ tx' = [tx EXCEPT ![w] = NoTx]
    /\ UNCHANGED <<nextID, walk>>

\* A statement timeout or a lost connection: the identity stays a gap.
AbortInsert(w) ==
    /\ tx[w].stage # "none"
    /\ tx' = [tx EXCEPT ![w] = NoTx]
    /\ UNCHANGED <<widgets, nextID, walk>>

\* DELETE FROM widgets WHERE id = $1
DeleteWidget(id) ==
    /\ \E r \in widgets : r.id = id
    /\ widgets' = {r \in widgets : r.id # id}
    /\ UNCHANGED <<tx, nextID, walk>>

-----------------------------------------------------------------------------
Init ==
    /\ widgets = {}
    /\ tx = [w \in Writers |-> NoTx]
    /\ nextID = 1
    /\ status = "idle"
    /\ cursor = <<>>
    /\ page = {} /\ seen = {} /\ atStart = {}
    /\ limit = DefaultListLimit
    /\ response = "none"

Next ==
    \/ \E p \in LimitParams : List(p)
    \/ \E p \in LimitParams : ListRejected(p)
    \/ Restart
    \/ \E w \in Writers, t \in Times : BeginInsert(w, t)
    \/ \E w \in Writers : AssignIdentity(w)
    \/ \E w \in Writers : CommitInsert(w)
    \/ \E w \in Writers : AbortInsert(w)
    \/ \E r \in widgets : DeleteWidget(r.id)

Spec == Init /\ [][Next]_vars

\* A client that keeps following next_cursor with limits the server accepts.
PersistentClient == WF_vars(\E p \in LimitParams : List(p))

FairSpec == Spec /\ PersistentClient

-----------------------------------------------------------------------------
(* Properties.                                                             *)

TypeOK ==
    /\ widgets \subseteq Row
    /\ IsFiniteSet(widgets)
    /\ tx \in [Writers -> Tx]
    /\ nextID \in Nat \ {0}
    /\ status \in {"idle", "walking", "done"}
    /\ cursor # <<>> => cursor = <<cursor[1]>> /\ cursor[1] \in Text
    /\ page \subseteq Row /\ seen \subseteq Row /\ atStart \subseteq Row
    /\ limit \in 1..maximumListLimit
    /\ response \in {"none", "page", "limit_rejected", "cursor_rejected"}

\* Keyset pagination never hands a row out twice in one walk, and each page
\* continues strictly below the pages before it, whatever is inserted or
\* deleted between two requests.
PagesDescend == \A r \in page, s \in seen : Older(r, s)

\* A widget that existed when the walk began and still exists when it ends was
\* on one of its pages: concurrent inserts, deletes (of the cursor's own row
\* too) and page-size changes skip nothing.
NoRowSkipped == status = "done" => (atStart \cap widgets) \subseteq (seen \cup page)

\* A next_cursor is issued only with a full page, and never on an oversized
\* one: the extra row the service fetches is never handed to the client.
PageSize ==
    /\ Cardinality(page) <= limit
    /\ status = "walking" => Cardinality(page) = limit

\* The service's own cursor, sent back, is never the reason for a 400: encoding,
\* decoding and validation agree.
IssuedCursorAccepted == response # "cursor_rejected"

\* A client that follows next_cursor reaches the last page: the key strictly
\* decreases, so a walk cannot cycle.
WalkEnds == (status = "walking") ~> (status = "done")

\* Why it ends, step by step: the next_cursor of a page that is not the last is
\* the key of a strictly older row than the cursor the client sent, whatever was
\* inserted or deleted in between.
KeyDescends ==
    [][\A p \in LimitParams :
           List(p) /\ status = "walking" /\ status' = "walking" =>
               Older(decodeListCursor(cursor'[1]), decodeListCursor(cursor[1]))]_vars

-----------------------------------------------------------------------------
(* The inductive invariant behind the proofs.                              *)

\* Identities are handed out once: no row that is or was in the table shares
\* one with an insert still in progress.
FreshIdentities ==
    /\ \A r \in widgets \cup atStart : r.id < nextID
    /\ \A w \in Writers :
        /\ tx[w].stage # "none" => tx[w].createdAt # 0
        /\ tx[w].stage = "numbered" =>
            /\ tx[w].id \in 1..(nextID - 1)
            /\ \A r \in widgets \cup atStart : r.id # tx[w].id
            /\ \A v \in Writers \ {w} : tx[v].stage = "numbered" => tx[v].id # tx[w].id

\* The cursor the client holds is the key of the oldest row it has seen, and
\* every older row that was there from the start is still ahead of it.
CursorSplits ==
    /\ status = "idle" => cursor = <<>> /\ page = {} /\ seen = {} /\ atStart = {}
    /\ status = "walking" =>
        /\ cursor # <<>>
        /\ decodeListCursor(cursor[1]) \in Row
        /\ \A s \in seen \cup page :
               s = decodeListCursor(cursor[1]) \/ Older(decodeListCursor(cursor[1]), s)
        /\ \A r \in atStart \cap widgets :
               r \in seen \cup page \/ Older(r, decodeListCursor(cursor[1]))

PagingInv ==
    /\ TypeOK
    /\ FreshIdentities
    /\ CursorSplits
    /\ IsFiniteSet(page)
    /\ PagesDescend
    /\ NoRowSkipped
    /\ PageSize
    /\ IssuedCursorAccepted
=============================================================================
