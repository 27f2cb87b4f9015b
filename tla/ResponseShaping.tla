--------------------------- MODULE ResponseShaping ---------------------------
(***************************************************************************)
(* src/eset_mcp/response_shaping.py: the projection of rows to the asked   *)
(* fields and the byte cap that _shape (src/eset_mcp/server.py) applies to *)
(* every result.                                                           *)
(*                                                                         *)
(* A result is the sizes it is made of: `other`, the bytes of all that is  *)
(* in no list of the top level; `lists`, for each list of the top level    *)
(* the bytes of its items, in the order of the dict; whether it has a      *)
(* nextPageToken; whether it is no dict but a bare list, the first and     *)
(* only one of `lists`; and what its text is made of: characters that JSON *)
(* writes as they are, or in the extremes nothing but quotes or characters *)
(* of four bytes.                                                          *)
(* Items of a list are objects.                                            *)
(***************************************************************************)
EXTENDS Naturals, Integers, SequencesExt

CONSTANTS MaxBytes,  \* settings.response_bytes_max, a bound on the answer's bytes
          Reserve,   \* _CAPPED_METADATA_OVERHEAD
          Metadata,  \* the bytes the `_capped` entry really takes
          Slim       \* the bytes of an item that was projected to some fields

ASSUME BudgetAssumption == MaxBytes \in Nat \ {0}  \* 0 turns the cap off
ASSUME ReserveAssumption == Reserve \in Nat /\ Metadata \in 0 .. Reserve
ASSUME SlimAssumption == Slim \in Nat

VARIABLE answer  \* the last answer

Total(sizes) ==
  LET first[n \in 0 .. Len(sizes)] == IF n = 0 THEN 0 ELSE first[n - 1] + sizes[n]
  IN  first[Len(sizes)]

(* json.dumps separates items by ", ". *)
Separator == 2

ListBytes(items) == Total(items) + (IF items = <<>> THEN 0 ELSE Separator * (Len(items) - 1))

(* _byte_len *)
ByteLen(p) == p.other + Total([i \in DOMAIN p.lists |-> ListBytes(p.lists[i])])

Projected(items) == [i \in DOMAIN items |-> IF items[i] > Slim THEN Slim ELSE items[i]]

(* apply_fields_projection, of no fields or of some. *)
Project(p, fields) ==
  IF fields /\ ~p.bare THEN [p EXCEPT !.lists = [i \in DOMAIN @ |-> Projected(@[i])]] ELSE p

(* The lists of a dict that can be trimmed. *)
Candidates(p) == {i \in DOMAIN p.lists : ~p.bare /\ p.lists[i] # <<>>}

(* Fault: the first list that has any items is trimmed. *)
FirstList(p) == CHOOSE i \in Candidates(p) : \A j \in Candidates(p) : i <= j

(* _pick_main_list_key: the first of the longest lists, in bytes. *)
MainList(p) ==
  CHOOSE i \in Candidates(p) :
    \A j \in Candidates(p) :
      \/ ListBytes(p.lists[j]) < ListBytes(p.lists[i])
      \/ ListBytes(p.lists[j]) = ListBytes(p.lists[i]) /\ i <= j

(* Fault: nothing is reserved for the metadata. *)
RoomWithoutReserve(p, i) ==
  LET overhead == ByteLen([p EXCEPT !.lists[i] = <<>>])
  IN  IF overhead > MaxBytes THEN 0 ELSE MaxBytes - overhead

(* `budget`: what the skeleton and the metadata leave for the items of list i. *)
Room(p, i) ==
  LET overhead == ByteLen([p EXCEPT !.lists[i] = <<>>]) + Reserve
  IN  IF overhead > MaxBytes THEN 0 ELSE MaxBytes - overhead

(* What the loop charges for some items: one byte per comma. *)
Cost(items) == Total(items) + Len(items)

(* The loop of _truncate_paginated: the longest prefix that the room pays. *)
Kept(items, room) ==
  SubSeq(items, 1,
    CHOOSE n \in 0 .. Len(items) :
      /\ Cost(SubSeq(items, 1, n)) <= room
      /\ n < Len(items) => Cost(SubSeq(items, 1, n + 1)) > room)

Uncapped(p) ==
  [original |-> p, result |-> p, capped |-> FALSE, returned |-> 0, bytes |-> ByteLen(p)]

(* Fault: the trimmed result says nothing of it. *)
TruncatedSilently(p, i) == Uncapped([p EXCEPT !.lists[i] = Kept(p.lists[i], Room(p, i))])

(* _truncate_paginated *)
Truncated(p, i) ==
  LET kept == Kept(p.lists[i], Room(p, i))
      result == [p EXCEPT !.lists[i] = kept]
  IN  [original |-> p, result |-> result, capped |-> TRUE, returned |-> Len(kept),
       bytes |-> ByteLen(result) + Metadata]

(* preview_budget, in characters. *)
PreviewRoom == IF MaxBytes > Reserve THEN MaxBytes - Reserve ELSE 0

(* The bytes of a character of the text, and of the same character once the    *)
(* text is itself a string of an answer: JSON escapes its quotes again.        *)
InText == [plain |-> 1, quote |-> 1, wide |-> 4]

InPreview == [plain |-> 1, quote |-> 2, wide |-> 4]

(* A dict without any list. *)
Stub == [other |-> 0, lists |-> <<>>, token |-> FALSE, bare |-> FALSE, text |-> "plain"]

(* Fault: the preview is the whole text. *)
PreviewUncut(p) ==
  [original |-> p, result |-> Stub, capped |-> TRUE, returned |-> 0,
   bytes |-> Metadata + (ByteLen(p) \div InText[p.text]) * InPreview[p.text]]

(* _hard_truncate: instead of the result, the first characters of its text, as *)
(* many as there would be room for if each took one byte.                      *)
Preview(p) ==
  LET length == ByteLen(p) \div InText[p.text]
      chars == IF length < PreviewRoom THEN length ELSE PreviewRoom
  IN  [original |-> p, result |-> Stub, capped |-> TRUE, returned |-> 0,
       bytes |-> Metadata + chars * InPreview[p.text]]

(* cap_response_size *)
Cap(p) ==
  IF ByteLen(p) <= MaxBytes THEN Uncapped(p)
  ELSE IF Candidates(p) # {} THEN Truncated(p, MainList(p))
  ELSE Preview(p)

(* _shape *)
Shape(p, fields) == Cap(Project(p, fields))

-----------------------------------------------------------------------------
(* Properties of an answer that Shape gave. *)

(* By how much a capped answer can still exceed the cap.  A preview is cut by   *)
(* characters, of up to four bytes each.  A trimmed dict exceeds it by the      *)
(* separators, each charged one byte too low; or it kept nothing of its list,   *)
(* and then no other of its lists would have left less to send.                 *)
OverrunIsBounded ==
  answer.capped =>
    IF Candidates(answer.original) = {} THEN answer.bytes <= Metadata + 4 * PreviewRoom
    ELSE \/ answer.bytes <= MaxBytes - (Reserve - Metadata)
                            + (IF answer.returned > 2 THEN answer.returned - 2 ELSE 0)
         \/ /\ answer.returned = 0
            /\ \A i \in DOMAIN answer.original.lists :
                 answer.bytes <= ByteLen([answer.original EXCEPT !.lists[i] = <<>>]) + Metadata

(* "Dict with one (or a "main") list value", "trim items until the whole        *)
(* payload fits" (cap_response_size's docstring).                               *)
PayloadFits ==
  answer.capped /\ Candidates(answer.original) # {} => answer.bytes <= MaxBytes
=============================================================================
