------------------------------ MODULE PageWalk ------------------------------
(***************************************************************************)
(* The page walks of the composite tools                                   *)
(* (src/eset_mcp/composite_tools.py: latest_detections, eset_search;       *)
(* src/eset_mcp/http_client.py: paginate), over a listing that grows while *)
(* it is read.                                                             *)
(*                                                                         *)
(* Both walk a first endpoint and, when it fails with an EsetApiError, may *)
(* start over at a second: /v2/detections then /v1/detections, or the two  *)
(* endpoints of the kind "group".  The walk of the detections stops at a   *)
(* cap of pages, a search when it has enough matches.  The kinds of a      *)
(* search walk side by side and share nothing: one kind is modelled.       *)
(*                                                                         *)
(* ESET is external.  A token stands for the place behind the last row it  *)
(* came with, wherever new rows appear, or, when the tokens are shifting,  *)
(* for a number of rows; a stubborn server always gives one.  A page may   *)
(* be no object, or empty.  Rows do not vanish from a listing, and those   *)
(* of the two endpoints are told apart, as they differ in schema.          *)
(***************************************************************************)
EXTENDS Integers, SequencesExt

CONSTANTS Late,         \* rows that may appear during a call (bound)
          OccurTime,    \* row -> its occurTime, 0 when it has none
          Passes,       \* rows the call is after: severe enough, or a hit
          Tenants,      \* what the two endpoints list at first (bound)
          RowsPerPage,  \* pageSize (1000)
          PageCap,      \* _LATEST_DETECTIONS_PAGE_CAP (50)
          Limits        \* values of limit and limit_per_kind (bound)

Row == DOMAIN OccurTime

ASSUME RowsAssumption ==
  /\ OccurTime \in [Row -> Nat]
  /\ Late \subseteq Row
  /\ \A listed \in Tenants : /\ listed \in [{1, 2} -> Seq(Row)]
                            /\ \A e \in {1, 2} : IsInjective(listed[e])
  /\ RowsPerPage \in Nat
  /\ Limits \subseteq Nat \ {0}  \* "minimum" of both schemas

VARIABLES composite,  \* "latest_detections" or "eset_search"
          most,       \* limit, or limit_per_kind
          fallback,   \* whether there is a second endpoint
          stubborn,   \* ESET: every page comes with a token
          shifting,   \* ESET: the tokens are offsets
          tenant,     \* ESET: the rows each endpoint lists, in its order
          present,    \* history: the rows listed when the call began
          endpoint,   \* 1, then 2
          cursor,     \* the place the next pageToken stands for
          items,      \* rows, or matches, of this endpoint
          kept,       \* matches of the first endpoint when it failed
          pages,      \* pages of this endpoint, counted up to the cap
          shapeless,  \* history: a page of the call was no object
          reply       \* the answer, Walking before it

call == <<composite, most, fallback, stubborn, shifting, present>>
walkVars == <<call, tenant, endpoint, cursor, items, kept, pages, shapeless, reply>>

Walking == [rows |-> <<>>, partial |-> TRUE, from |-> 0]

NoReply == [rows |-> <<>>, partial |-> TRUE, from |-> 1]

(* Where a walk stands before its first request. *)
AtStart ==
  /\ endpoint = 1 /\ cursor = 0 /\ pages = 0
  /\ items = <<>> /\ kept = <<>>
  /\ shapeless = FALSE

WalkInit ==
  /\ composite \in {"latest_detections", "eset_search"}
  /\ most \in Limits
  /\ fallback \in BOOLEAN
  /\ composite = "latest_detections" => fallback
  /\ stubborn \in BOOLEAN /\ shifting \in BOOLEAN
  /\ tenant \in Tenants
  /\ present = [e \in {1, 2} |-> ToSet(tenant[e])]
  /\ AtStart
  /\ reply = Walking

(* No composite is called. *)
NoWalk ==
  /\ composite = "eset_search" /\ most = 0
  /\ fallback = FALSE /\ stubborn = FALSE /\ shifting = FALSE
  /\ tenant = <<<<>>, <<>>>> /\ present = <<{}, {}>>
  /\ AtStart
  /\ reply = NoReply

-----------------------------------------------------------------------------
(* ESET's answer to the next request of the walk. *)
PageEnd ==
  LET length == Len(tenant[endpoint])
  IN  IF cursor + RowsPerPage < length THEN cursor + RowsPerPage ELSE length

PageRows == SubSeq(tenant[endpoint], cursor + 1, PageEnd)

HasToken == stubborn \/ PageEnd < Len(tenant[endpoint])

FirstOf(rows, n) == SubSeq(rows, 1, IF Len(rows) < n THEN Len(rows) ELSE n)

(* The positions of the rows the call is after. *)
PassingAt(rows) == {i \in DOMAIN rows : rows[i] \in Passes}

(* Which of the positions `at` come before position i: those of greater weight, *)
(* and of one weight the earlier ones (a stable sort).                          *)
Ahead(i, at, weight) ==
  {j \in at : weight[j] > weight[i] \/ (weight[j] = weight[i] /\ j < i)}

(* The rows at these positions in that order. *)
Arranged(rows, at, weight) ==
  [n \in 1 .. Cardinality(at) |->
     rows[CHOOSE i \in at : Cardinality(Ahead(i, at, weight)) = n - 1]]

(* The rows that pass, in the order they came. *)
Matching(rows) == Arranged(rows, PassingAt(rows), [i \in DOMAIN rows |-> 0])

(* The rows that pass, newest first; rows of one time in the order they came. *)
Sorted(rows) == Arranged(rows, PassingAt(rows), [i \in DOMAIN rows |-> OccurTime[rows[i]]])

(* latest_detections, from the rows read: filter, sort, cut. *)
Newest(rows) == FirstOf(Sorted(rows), most)

(* Fault: the walk has no cap. *)
NeverCapped == FALSE

Capped == pages + 1 >= PageCap

Answer(rows, partial) == reply' = [rows |-> rows, partial |-> partial, from |-> endpoint]

(* _paginate_detections: the page, then the end of the listing, then the cap. *)
DetectionsPage ==
  /\ composite = "latest_detections"
  /\ reply = Walking
  /\ items' = items \o PageRows
  /\ cursor' = PageEnd
  /\ pages' = IF pages < PageCap THEN pages + 1 ELSE pages
  /\ IF ~HasToken THEN Answer(Newest(items'), FALSE)
     ELSE IF Capped THEN Answer(Newest(items'), TRUE)
     ELSE UNCHANGED reply
  /\ UNCHANGED <<call, tenant, endpoint, kept, shapeless>>

(* _scan_endpoint over paginate: matches of the page until there are enough.   *)
SearchPage ==
  /\ composite = "eset_search"
  /\ reply = Walking
  /\ items' = FirstOf(items \o Matching(PageRows), most)
  /\ cursor' = PageEnd
  /\ IF Len(items') = most \/ ~HasToken THEN Answer(items', FALSE) ELSE UNCHANGED reply
  /\ UNCHANGED <<call, tenant, endpoint, kept, pages, shapeless>>

(* A page that is no object, or an empty one (response_json makes {} of no     *)
(* content), has neither rows nor a token: either walk takes it for the end.   *)
ShapelessPage ==
  /\ reply = Walking
  /\ shapeless' = TRUE
  /\ pages' = IF composite = "latest_detections" /\ pages < PageCap THEN pages + 1 ELSE pages
  /\ Answer(IF composite = "latest_detections" THEN Newest(items) ELSE items, FALSE)
  /\ UNCHANGED <<call, tenant, endpoint, cursor, items, kept>>

(* Fault: what the first endpoint gave is kept. *)
GoesOnWith == items

StartsOverWith == <<>>

(* An EsetApiError while there is another endpoint to try. *)
FallBack ==
  /\ reply = Walking
  /\ endpoint = 1 /\ fallback
  /\ endpoint' = 2
  /\ cursor' = 0
  /\ pages' = 0
  /\ kept' = IF composite = "eset_search" THEN items ELSE <<>>
  /\ items' = StartsOverWith
  /\ UNCHANGED <<call, tenant, shapeless, reply>>

(* The last endpoint fails: an error, or a kind under "skipped" with the       *)
(* matches of its first endpoint.                                              *)
Fail ==
  /\ reply = Walking
  /\ endpoint = 2 \/ ~fallback
  /\ reply' = IF composite = "latest_detections" THEN NoReply
              ELSE [NoReply EXCEPT !.rows = IF endpoint = 2 THEN kept ELSE items]
  /\ UNCHANGED <<call, tenant, endpoint, cursor, items, kept, pages, shapeless>>

(* ESET: a row appears somewhere in a listing. *)
RowAppears(e, row, place) ==
  /\ reply = Walking
  /\ row \notin ToSet(tenant[1]) \cup ToSet(tenant[2])
  /\ tenant' = [tenant EXCEPT ![e] = InsertAt(@, place, row)]
  /\ cursor' = IF ~shifting /\ e = endpoint /\ place <= cursor THEN cursor + 1 ELSE cursor
  /\ UNCHANGED <<call, endpoint, items, kept, pages, shapeless, reply>>

WalkNext ==
  \/ DetectionsPage
  \/ SearchPage
  \/ ShapelessPage
  \/ FallBack
  \/ Fail
  \/ \E e \in {1, 2}, row \in Late : \E place \in 1 .. Len(tenant[e]) + 1 : RowAppears(e, row, place)

-----------------------------------------------------------------------------
(* "so the agent knows whether it saw everything or only the head"              *)
(* (latest_detections): an answer without the flag (`truncated`, an error, or   *)
(* the kind under `skipped`) has rows of one endpoint only, each once unless    *)
(* the tokens shift.  If every page was an object it leaves out no row that was *)
(* there when the call began and is wanted, but for the limit; of the           *)
(* detections the limit leaves out none that is newer than one it returns.      *)
UnflaggedIsComplete ==
  ~reply.partial =>
    LET given == ToSet(reply.rows)
    IN  /\ given \subseteq ToSet(tenant[reply.from]) \cap Passes
        /\ Len(reply.rows) <= most
        /\ shifting \/ IsInjective(reply.rows)
        /\ ~shapeless =>
             \A row \in (present[reply.from] \cap Passes) \ given :
               /\ Len(reply.rows) = most
               /\ composite = "latest_detections" =>
                    \A other \in given : OccurTime[other] >= OccurTime[row]

(* A call for the latest detections is answered even by a server that never     *)
(* ends its listing; a search is, if the server does.                           *)
WalkEnds ==
  (reply = Walking /\ (composite = "latest_detections" \/ ~stubborn)) ~> (reply # Walking)
=============================================================================
