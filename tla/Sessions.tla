------------------------------- MODULE Sessions -------------------------------
(***************************************************************************)
(* src/eset_mcp/middleware.py: which credentials may use which MCP session.*)
(*                                                                         *)
(* BasicAuthCredentialsMiddleware.dispatch runs once per HTTP request, up  *)
(* to `await call_next` and from there to its end; other requests run in   *)
(* between.  The SDK's session manager behind it (external) creates,       *)
(* serves, closes and times out the sessions; the middleware only sees     *)
(* what its answers say.  A request of the modern protocol has no session: *)
(* it is one that names none and is given none.                            *)
(***************************************************************************)
EXTENDS Integers, FiniteSets, SequencesExt

CONSTANTS Request,    \* places for HTTP requests under way at once
          Identity,   \* connection identities: what the binding is the digest of
          Session,    \* session ids the SDK may draw, each once
          None,       \* no session, no identity
          Cap,        \* the bound of _sessions (1000)
          TTL         \* ticks an unused binding lives (1800 s)

ASSUME NoneAssumption == None \notin Session \cup Identity
ASSUME CapAssumption == Cap \in Nat \ {0}
ASSUME TTLAssumption == TTL \in Nat

VARIABLES
  order,     \* keys of _sessions, least recently used first
  binding,   \* _sessions[s][0]
  left,      \* _sessions[s][1] - time.monotonic(), -1 once it is past
  phase,     \* "idle", "called" (call_next awaited) or "answered"
  who,       \* the identity of each request
  sid,       \* session_id of each request
  delete,    \* request.method == "DELETE"
  answer,    \* the SDK's answer to each request
  alive,     \* SDK: sessions it serves
  owner,     \* SDK: the identity each session was created for
  idle,      \* history: ticks since each session was last used, TTL + 1 at most
  newer,     \* history: sessions used since then
  closed,    \* history: sessions whose DELETE was answered
  late       \* history: what was under way in each of them then, and still is

middleware == <<order, binding, left>>
request == <<who, sid, delete>>
sdk == <<alive, owner>>
vars == <<middleware, phase, request, answer, sdk, idle, newer, closed, late>>

Answer == [status : {"ok", "accepted", "error"}, session : Session \cup {None}]
NoAnswer == [status |-> "error", session |-> None]

TypeOK ==
  /\ order \in Seq(Session) /\ Len(order) <= Cap
  /\ binding \in [Session -> Identity \cup {None}]
  /\ left \in [Session -> -1 .. TTL]
  /\ phase \in [Request -> {"idle", "called", "answered"}]
  /\ who \in [Request -> Identity \cup {None}]
  /\ sid \in [Request -> Session \cup {None}]
  /\ delete \in [Request -> BOOLEAN]
  /\ answer \in [Request -> Answer]
  /\ alive \subseteq Session /\ owner \in [Session -> Identity \cup {None}]
  /\ idle \in [Session -> 0 .. TTL + 1]
  /\ newer \in [Session -> SUBSET Session]
  /\ closed \subseteq Session
  /\ late \in [Session -> SUBSET Request]

Init ==
  /\ order = <<>>
  /\ binding = [s \in Session |-> None]
  /\ left = [s \in Session |-> -1]
  /\ phase = [r \in Request |-> "idle"]
  /\ who = [r \in Request |-> None]
  /\ sid = [r \in Request |-> None]
  /\ delete = [r \in Request |-> FALSE]
  /\ answer = [r \in Request |-> NoAnswer]
  /\ alive = {} /\ owner = [s \in Session |-> None]
  /\ idle = [s \in Session |-> TTL + 1]
  /\ newer = [s \in Session |-> {}]
  /\ closed = {}
  /\ late = [s \in Session |-> {}]

-----------------------------------------------------------------------------
(* keys without s, which occurs in it at most once: OrderedDict.pop(s, None). *)
Without(keys, s) ==
  IF Contains(keys, s)
  THEN RemoveAt(keys, CHOOSE i \in DOMAIN keys : keys[i] = s)
  ELSE keys

(* Operators commented as a fault are the bugs the mutation checks seed in     *)
(* place of the operator that follows; no action uses them.                    *)

(* Fault: a session keeps its place when it is used again. *)
NeverMoved(s) == IF Contains(order, s) THEN order ELSE Append(order, s)

(* move_to_end(s), or the insertion of a new key. *)
MoveToEnd(s) == Append(Without(order, s), s)

(* Fault: one entry too many is kept. *)
KeepsOneMore(keys) == SubSeq(keys, IF Len(keys) > Cap + 1 THEN Len(keys) - Cap ELSE 1, Len(keys))

(* popitem(last=False) while there are more than 1000. *)
Kept(keys) == SubSeq(keys, IF Len(keys) > Cap THEN Len(keys) - Cap + 1 ELSE 1, Len(keys))

(* Fault: a use does not extend the lifetime. *)
NotRenewed(s) == left

Renewed(s) == [left EXCEPT ![s] = TTL]

(* What a use of s is to the history. *)
Used(s) ==
  /\ idle' = [idle EXCEPT ![s] = 0]
  /\ newer' = [t \in Session |-> IF t = s THEN {} ELSE newer[t] \cup {s}]

(* Fault: any live binding admits. *)
AnyBinding(s, identity) == Contains(order, s) /\ left[s] >= 0

Admits(s, identity) == Contains(order, s) /\ left[s] >= 0 /\ binding[s] = identity

(* A request arrives: refused with 403 (nothing changes), or passed on.        *)
Dispatch(r, identity, s, isDelete) ==
  /\ phase[r] = "idle"
  /\ IF s = None
     THEN UNCHANGED <<middleware, idle, newer>>
     ELSE /\ Admits(s, identity)
          /\ order' = MoveToEnd(s)
          /\ left' = Renewed(s)
          /\ UNCHANGED binding
          /\ Used(s)
  /\ phase' = [phase EXCEPT ![r] = "called"]
  /\ who' = [who EXCEPT ![r] = identity]
  /\ sid' = [sid EXCEPT ![r] = s]
  /\ delete' = [delete EXCEPT ![r] = isDelete]
  /\ UNCHANGED <<answer, sdk, closed, late>>

(* What is left of the keys once the answer's session is registered, the cache *)
(* is cut to its bound and the session of an answered DELETE is dropped.       *)
Registers(r) == answer[r].session # None /\ answer[r].status = "ok"

Drops(r) == sid[r] # None /\ delete[r] /\ answer[r].status # "error"

Registered(r) == IF Registers(r) THEN Kept(MoveToEnd(answer[r].session)) ELSE order

(* Fault: the DELETE is dropped before its answer is registered. *)
DropsFirst(r) ==
  IF Registers(r) THEN Registered(r)
  ELSE IF Drops(r) THEN Without(order, sid[r]) ELSE order

Remaining(r) ==
  IF Drops(r) THEN Without(Registered(r), sid[r]) ELSE Registered(r)

(* The other requests of session s that are under way. *)
UnderWay(s, r) == {q \in Request \ {r} : phase[q] # "idle" /\ sid[q] = s}

(* The code after `await call_next`. *)
Respond(r) ==
  /\ phase[r] = "answered"
  /\ order' = Remaining(r)
  /\ LET bound == IF Registers(r)
                  THEN [binding EXCEPT ![answer[r].session] = who[r]]
                  ELSE binding
         lives == IF Registers(r) THEN Renewed(answer[r].session) ELSE left
     IN /\ binding' = [s \in Session |-> IF Contains(order', s) THEN bound[s] ELSE None]
        /\ left' = [s \in Session |-> IF Contains(order', s) THEN lives[s] ELSE -1]
  /\ IF Registers(r) THEN Used(answer[r].session) ELSE UNCHANGED <<idle, newer>>
  /\ closed' = IF Drops(r) THEN closed \cup {sid[r]} ELSE closed
  /\ late' = [s \in Session |-> IF Drops(r) /\ s = sid[r] THEN UnderWay(s, r) ELSE late[s] \ {r}]
  /\ phase' = [phase EXCEPT ![r] = "idle"]
  /\ who' = [who EXCEPT ![r] = None]
  /\ sid' = [sid EXCEPT ![r] = None]
  /\ delete' = [delete EXCEPT ![r] = FALSE]
  /\ answer' = [answer EXCEPT ![r] = NoAnswer]
  /\ UNCHANGED sdk

(* call_next raises, or the client disconnects: nothing is registered.         *)
Abort(r) ==
  /\ phase[r] # "idle"
  /\ phase' = [phase EXCEPT ![r] = "idle"]
  /\ who' = [who EXCEPT ![r] = None]
  /\ sid' = [sid EXCEPT ![r] = None]
  /\ delete' = [delete EXCEPT ![r] = FALSE]
  /\ answer' = [answer EXCEPT ![r] = NoAnswer]
  /\ late' = [s \in Session |-> late[s] \ {r}]
  /\ UNCHANGED <<middleware, sdk, idle, newer, closed>>

-----------------------------------------------------------------------------
(* The SDK's session manager (external). *)

Answers(r, status, s) ==
  /\ phase' = [phase EXCEPT ![r] = "answered"]
  /\ answer' = [answer EXCEPT ![r] = [status |-> status, session |-> s]]
  /\ UNCHANGED <<middleware, request, idle, newer, closed, late>>

(* A request without a session may be given a new one. *)
SdkCreates(r, s) ==
  /\ phase[r] = "called" /\ sid[r] = None
  /\ owner[s] = None
  /\ owner' = [owner EXCEPT ![s] = who[r]]
  /\ alive' = alive \cup {s}
  /\ Answers(r, "ok", s)

(* Every answer in a session names it; a notification is only accepted. *)
SdkServes(r) ==
  /\ phase[r] = "called" /\ sid[r] \in alive /\ ~delete[r]
  /\ \E status \in {"ok", "accepted", "error"} : Answers(r, status, sid[r])
  /\ UNCHANGED sdk

SdkCloses(r) ==
  /\ phase[r] = "called" /\ sid[r] \in alive /\ delete[r]
  /\ alive' = alive \ {sid[r]}
  /\ UNCHANGED owner
  /\ Answers(r, "ok", sid[r])

(* No such session any more, or a request that needs none or is refused. *)
SdkRefuses(r) ==
  /\ phase[r] = "called" /\ sid[r] \notin alive
  /\ \/ Answers(r, "error", None)
     \/ sid[r] = None /\ Answers(r, "ok", None)
  /\ UNCHANGED sdk

SdkTimesOut(s) ==
  /\ s \in alive
  /\ alive' = alive \ {s}
  /\ UNCHANGED <<middleware, phase, request, answer, owner, idle, newer, closed, late>>

Tick ==
  /\ left' = [s \in Session |-> IF left[s] >= 0 THEN left[s] - 1 ELSE -1]
  /\ idle' = [s \in Session |-> IF idle[s] <= TTL THEN idle[s] + 1 ELSE idle[s]]
  /\ UNCHANGED <<order, binding, phase, request, answer, sdk, newer, closed, late>>

Next ==
  \/ \E r \in Request :
       \/ \E identity \in Identity, s \in Session \cup {None}, isDelete \in BOOLEAN :
            Dispatch(r, identity, s, isDelete)
       \/ Respond(r) \/ Abort(r)
       \/ \E s \in Session : SdkCreates(r, s)
       \/ SdkServes(r) \/ SdkCloses(r) \/ SdkRefuses(r)
  \/ \E s \in Session : SdkTimesOut(s)
  \/ Tick

Spec == Init /\ [][Next]_vars

-----------------------------------------------------------------------------
(* A session only ever works for the identity it was created for: no request    *)
(* of another identity reaches it, and no late answer, eviction or closing      *)
(* hands its binding to someone else.                                           *)
OwnersOnly ==
  /\ \A r \in Request : phase[r] # "idle" /\ sid[r] # None => owner[sid[r]] = who[r]
  /\ \A i \in 1 .. Len(order) : binding[order[i]] = owner[order[i]]

(* A live session that was used within the lifetime of a binding, and that      *)
(* fewer than Cap others were used since, admits its owner: neither the bound   *)
(* nor the clock ever takes a session that is under way.                        *)
OwnerKeepsSession ==
  \A s \in alive :
    idle[s] <= TTL /\ Cardinality(newer[s]) < Cap => Admits(s, owner[s])

(* What a step may do to the closed sessions in the cache: the answer to a       *)
(* DELETE leaves its session out, and one that is out comes back only by the    *)
(* answer to a request that was under way at the DELETE.                        *)
ComesBackLate ==
  \A s \in closed' :
    Contains(order', s) =>
      /\ s \in closed
      /\ \/ Contains(order, s)
         \/ \E r \in late[s] : phase[r] = "answered" /\ phase'[r] = "idle"

(* A session its owner closed is out of the cache, and each request that its     *)
(* DELETE overtook can bring it back once, by a late answer (middleware.py      *)
(* registers it again, for a session the SDK serves no more); nothing else does. *)
OnlyLateAnswersRevive == [][ComesBackLate]_vars
=============================================================================
