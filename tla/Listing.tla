------------------------------- MODULE Listing -------------------------------
(***************************************************************************)
(* An agent that reads a listing of the tenant through a catalog tool      *)
(* (src/eset_mcp/server.py: _execute_tool and _shape): the listing is      *)
(* paged by ESET and each page is shaped by ResponseShaping.  The agent    *)
(* does what the `_capped` hint of response_shaping.py tells it to do.     *)
(*                                                                         *)
(* The paging of ESET is external: a token stands for the position after   *)
(* the page it came with.  A page may carry a second list beside its rows; *)
(* the last one may be the bare list of its rows.                          *)
(***************************************************************************)
EXTENDS ResponseShaping

CONSTANTS Skeleton,   \* the bytes of a page without its lists
          Listings,   \* the rows a tenant may have: sequences of sizes (bound)
          Others,     \* the second list of every page: sequences of sizes (bound)
          PageSizes,  \* the values of pageSize an agent uses (bound)
          UsesToken   \* the agent continues with the nextPageToken of a capped page

ASSUME ListingsAssumption ==
  /\ Skeleton \in Nat
  /\ Listings \subseteq Seq(Nat) /\ Others \subseteq Seq(Nat)
  /\ PageSizes \subseteq Nat

VARIABLES rows,    \* the rows of the tenant
          other,   \* what every page carries beside its rows
          start,   \* the position the next call's pageToken stands for
          end,     \* the position after the last page
          limit,   \* page sizes the agent still tries at this position
          seen,    \* the positions of the rows the agent was given
          status   \* "calling", "deciding" or "done"

EmptyPage ==
  [other |-> Skeleton, lists |-> <<>>, token |-> FALSE, bare |-> FALSE, text |-> "plain"]

vars == <<answer, rows, other, start, end, limit, seen, status>>

Init ==
  /\ rows \in Listings
  /\ other \in Others
  /\ answer = Uncapped(EmptyPage)
  /\ start = 0 /\ end = 0
  /\ limit = PageSizes
  /\ seen = {}
  /\ status = "calling"

EndOf(size) == IF start + size < Len(rows) THEN start + size ELSE Len(rows)

PageOf(size) == SubSeq(rows, start + 1, EndOf(size))

(* ESET's answers to a listing request: an object, *)
Page(size) ==
  [other |-> Skeleton, lists |-> << PageOf(size), other >>, token |-> EndOf(size) < Len(rows),
   bare |-> FALSE, text |-> "plain"]

(* or a bare list, two brackets around its items. *)
BareList(size, text) ==
  [other |-> 2, lists |-> << PageOf(size) >>, token |-> FALSE, bare |-> TRUE, text |-> text]

Bodies(size) ==
  {Page(size)} \cup
    (IF EndOf(size) = Len(rows) THEN {BareList(size, text) : text \in DOMAIN InText} ELSE {})

(* The rows of an answer, none of them in a preview. *)
RowsOf(a) == IF a.result.lists = <<>> THEN <<>> ELSE a.result.lists[1]

(* A tool call for one page, with or without a projection. *)
CallTool(size, fields) ==
  /\ status = "calling"
  /\ size \in limit
  /\ \E body \in Bodies(size) : answer' = Shape(body, fields)
  /\ end' = EndOf(size)
  /\ seen' = seen \cup (start + 1 .. start + Len(RowsOf(answer')))
  /\ limit' = {s \in PageSizes : s < size}
  /\ status' = "deciding"
  /\ UNCHANGED <<rows, other, start>>

(* "Continue with the `nextPageToken` field": always after a whole page, and   *)
(* after a capped one when the agent takes the first advice of the hint.       *)
Continue ==
  /\ status = "deciding"
  /\ answer.result.token
  /\ answer.capped => UsesToken
  /\ start' = end
  /\ limit' = PageSizes
  /\ status' = "calling"
  /\ UNCHANGED <<answer, rows, other, end, seen>>

(* "re-call with a smaller `pageSize` or `fields=[...]`". *)
Recall ==
  /\ status = "deciding"
  /\ answer.capped
  /\ limit # {}
  /\ status' = "calling"
  /\ UNCHANGED <<answer, rows, other, start, end, limit, seen>>

(* The last page came whole. *)
Stop ==
  /\ status = "deciding"
  /\ ~answer.result.token
  /\ ~answer.capped
  /\ status' = "done"
  /\ UNCHANGED <<answer, rows, other, start, end, limit, seen>>

Next ==
  \/ \E size \in PageSizes, fields \in BOOLEAN : CallTool(size, fields)
  \/ Continue
  \/ Recall
  \/ Stop

Spec == Init /\ [][Next]_vars

-----------------------------------------------------------------------------
(* "Agents retain full access to the data through pagination" (README.md): an   *)
(* agent that follows the tokens and hints to the end was given every row.      *)
FullAccess == status = "done" => seen = 1 .. Len(rows)
=============================================================================
