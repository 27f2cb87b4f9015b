------------------------------ MODULE ToolCalls ------------------------------
(***************************************************************************)
(* Tool calls (src/eset_mcp/server.py, _call_tool) and the composite tools *)
(* (src/eset_mcp/composite_tools.py) over the client pool.                 *)
(*                                                                         *)
(* A call leases one client, and its requests run on that client: one lead *)
(* request (every catalog tool, and the record a composite starts from),   *)
(* or the parts a composite hands to asyncio.gather.  A part is one        *)
(* coroutine of the gather: _safe_get, one uuid of _gather_by_uuid, or the *)
(* scan of one kind with its fallback.  An EsetApiError of a part is       *)
(* caught and becomes a stub in the answer; any other exception makes the  *)
(* gather raise at once, and gather does not cancel its other coroutines.  *)
(* A nested gather (_gather_by_uuid) is flattened: its requests are parts  *)
(* of the outer one.                                                       *)
(*                                                                         *)
(* A member of Call is one tool call (a bound: none is made twice).        *)
(* ClientPool.get is left out: nothing in the server uses it.              *)
(***************************************************************************)
EXTENDS ClientPool

CONSTANTS Part,    \* the coroutines of a gather
          Lead,    \* the request of a catalog tool, or the first of a composite
          Raising, \* requests that may raise something other than EsetApiError
          Endless  \* scans of a listing that may give a next page for ever

ASSUME LeadAssumption == Lead \notin Part

Request == Part \cup {Lead}

ASSUME RaisingAssumption == Raising \subseteq Request

ASSUME EndlessAssumption == Endless \subseteq Part

VARIABLES step,      \* "new", "waiting" on its requests, "cancelling" or "ended"
          via,       \* the client a call leased, also after its release
          requests,  \* the state of each request of each call
          outcome    \* how a call ended

callVars == <<step, via, requests, outcome>>

allVars == <<vars, step, via, requests, outcome>>

RequestState ==
  {"none", "running", "answered", "stub", "raised", "cut", "cancelled"}

Outcome == {"none", "answer", "error", "crash", "cancelled", "refused"}

CallsTypeOK ==
  /\ TypeOK
  /\ step \in [Call -> {"new", "waiting", "cancelling", "ended"}]
  /\ via \in [Call -> Client \cup {Idle}]
  /\ requests \in [Call -> [Request -> RequestState]]
  /\ outcome \in [Call -> Outcome]

CallsInit ==
  /\ Init
  /\ step = [k \in Call |-> "new"]
  /\ via = [k \in Call |-> Idle]
  /\ requests = [k \in Call |-> [r \in Request |-> "none"]]
  /\ outcome = [k \in Call |-> "none"]

-----------------------------------------------------------------------------
In(k, states) == {r \in Request : requests[k][r] \in states}

(* Coroutines handed to gather, or the one request that is awaited. *)
Started(k, S) == [r \in Request |-> IF r \in S THEN "running" ELSE requests[k][r]]

(* What a call may begin with: the lead request, or a gather (eset_search). *)
Beginnings == {{Lead}} \cup (SUBSET Part \ {{}})

(* Past the credentials, the mode gate and the schema: `async with             *)
(* pool.acquire(creds) as http`, and the first requests.                       *)
Begin(k, key, c, S) ==
  /\ step[k] = "new"
  /\ Acquire(k, key, c)
  /\ step' = [step EXCEPT ![k] = "waiting"]
  /\ via' = [via EXCEPT ![k] = c]
  /\ requests' = [requests EXCEPT ![k] = Started(k, S)]
  /\ UNCHANGED outcome

(* The call ends before it has a client: its credentials, mode or arguments    *)
(* are refused, or acquire() raises.                                           *)
Refuse(k) ==
  /\ step[k] = "new"
  /\ \/ UNCHANGED vars
     \/ \E key \in Key : AcquireRaises(k, key)
  /\ step' = [step EXCEPT ![k] = "ended"]
  /\ outcome' = [outcome EXCEPT ![k] = "refused"]
  /\ UNCHANGED <<via, requests>>

(* A composite goes on from its lead record to the gather. *)
FanOut(k, S) ==
  /\ step[k] = "waiting"
  /\ requests[k][Lead] = "answered"
  /\ In(k, {"none"}) = Part
  /\ requests' = [requests EXCEPT ![k] = Started(k, S)]
  /\ UNCHANGED <<vars, step, via, outcome>>

(* How request r of call k can end.  httpx refuses to send on a closed client  *)
(* with a RuntimeError, which no handler on the way takes for an EsetApiError; *)
(* a connection closed under a response is a RequestError and thus a stub.     *)
Endings(k, r) ==
  IF http[via[k]] = "open"
  THEN {"answered", "stub"} \cup {s \in {"raised"} : r \in Raising}
  ELSE {"cut", "stub"}

RequestEnds(k, r) ==
  /\ requests[k][r] = "running"
  /\ \E s \in Endings(k, r) : requests' = [requests EXCEPT ![k][r] = s]
  /\ UNCHANGED <<vars, step, via, outcome>>

(* Fault: the lease is not in a finally: what a call drops stays counted. *)
FinishWithoutRelease(k, how) ==
  /\ held' = [held EXCEPT ![k] = Idle]
  /\ step' = [step EXCEPT ![k] = "ended"]
  /\ outcome' = [outcome EXCEPT ![k] = how]
  /\ UNCHANGED <<via, clients, keyOf, leases, retired, tasks, http, phase, awaited>>

(* The call's `async with` is left: the client is given back. *)
Finish(k, how) ==
  /\ Release(k)
  /\ step' = [step EXCEPT ![k] = "ended"]
  /\ outcome' = [outcome EXCEPT ![k] = how]
  /\ UNCHANGED via

(* Fault: the gather returns only when every coroutine brought an answer. *)
AllAnswered(k) == In(k, {"running", "raised", "cut", "stub"}) = {}

(* Nothing the call awaits is pending or has raised. *)
Gathered(k) == In(k, {"running", "raised", "cut"}) = {}

(* Fault: what became of the lead request is handed on as it is. *)
LeadState(k) == requests[k][Lead]

(* A failed lead request is the call's error; a failed part is a section of    *)
(* the answer.                                                                 *)
Verdict(k) == IF requests[k][Lead] = "stub" THEN "error" ELSE "answer"

Return(k) ==
  /\ step[k] = "waiting"
  /\ Gathered(k)
  /\ Finish(k, Verdict(k))
  /\ UNCHANGED requests

(* The exception of a request leaves the gather and the call; the other        *)
(* coroutines of the gather run on.                                            *)
Crash(k) ==
  /\ step[k] = "waiting"
  /\ In(k, {"raised", "cut"}) # {}
  /\ Finish(k, "crash")
  /\ UNCHANGED requests

(* Fault: the coroutines are tasks of their own that a cancellation of the     *)
(* call does not reach.                                                        *)
Detached(k, R) == requests[k]

(* The requests that a cancellation reaches are told to stop: they run no      *)
(* further than it takes them to unwind.                                       *)
Interrupted(k, R) ==
  [r \in Request |-> IF r \in R THEN "cancelled" ELSE requests[k][r]]

(* Cancelling a task cancels what it awaits.  A gather none of whose requests   *)
(* has raised passes that on to all of them.  After a raise it depends on how   *)
(* far the exception has come: a gather that is done passes nothing on, one     *)
(* that does not know yet everything, and one nested in another                 *)
(* (_gather_by_uuid) may be done while the outer one is not.                    *)
Reached(k) ==
  IF In(k, {"raised", "cut"}) = {} THEN {In(k, {"running"})} ELSE SUBSET In(k, {"running"})

(* What the call's await brings after a cancellation: the CancelledError, or    *)
(* still the exception of a request whose gather had not yet been told of it.   *)
Awaiting(k) ==
  IF In(k, {"raised", "cut"}) = {} THEN {"cancelling"} ELSE {"cancelling", "waiting"}

(* The client gave the call up or the session ended: the task is cancelled,     *)
(* at the latest before it resumes with the exception of its gather.  The lead  *)
(* request runs in the call's own task, so its exception leaves without a wait. *)
Cancel(k) ==
  /\ step[k] = "waiting"
  /\ requests[k][Lead] \notin {"raised", "cut"}
  /\ \E next \in Awaiting(k) : step' = [step EXCEPT ![k] = next]
  /\ \E R \in Reached(k) : requests' = [requests EXCEPT ![k] = Interrupted(k, R)]
  /\ UNCHANGED <<vars, via, outcome>>

(* The CancelledError comes back through the gather and leaves the call. *)
CancelReturns(k) ==
  /\ step[k] = "cancelling"
  /\ Finish(k, "cancelled")
  /\ UNCHANGED requests

PoolStep ==
  /\ \/ \E c \in Client : TaskStarts(c) \/ TaskEnds(c)
     \/ Close
     \/ CloseReturns
  /\ UNCHANGED callVars

CallStep(k) ==
  \/ \E key \in Key, c \in Client, S \in Beginnings : Begin(k, key, c, S)
  \/ Refuse(k)
  \/ \E S \in Beginnings \ {{Lead}} : FanOut(k, S)
  \/ \E r \in Request : RequestEnds(k, r)
  \/ Return(k)
  \/ Crash(k)
  \/ Cancel(k)
  \/ CancelReturns(k)

CallsNext == PoolStep \/ \E k \in Call : CallStep(k)

(* Each HTTP request has a time budget (Transport: RequestsAreBounded), and so   *)
(* has a part that sends a bounded number of them.  A scan reads one page after  *)
(* another while the server gives a next token (paginate), with no cap: nothing  *)
(* makes an endless one end.  The event loop resumes a call whose await is over. *)
CallsFairness ==
  \A k \in Call :
    /\ \A r \in Request \ Endless : WF_allVars(RequestEnds(k, r))
    /\ WF_allVars(Return(k) \/ Crash(k))
    /\ WF_allVars(CancelReturns(k))

CallsSpec == CallsInit /\ [][CallsNext]_allVars

FairCallsSpec == CallsSpec /\ CallsFairness

-----------------------------------------------------------------------------
(* No call suffers from what others do to the pool: a request finds its client  *)
(* closed, and a call crashes, only after another request of the same call      *)
(* raised an exception of its own.  Evictions, other calls' releases and the    *)
(* shutdown never fail a call.                                                  *)
FailuresAreOwn ==
  \A k \in Call :
    (outcome[k] = "crash" \/ In(k, {"cut"}) # {}) => In(k, {"raised"}) # {}

(* Each section of an answer is a response or a stub: nothing of the call runs, *)
(* has raised or was cancelled.  A call leaves requests running behind it,      *)
(* whether it crashed or was cancelled, only after one of its own raised.       *)
NothingLeftBehind ==
  \A k \in Call :
    /\ outcome[k] \in {"answer", "error"} =>
         In(k, {"running", "raised", "cut", "cancelled"}) = {}
    /\ step[k] = "ended" /\ In(k, {"running"}) # {} => In(k, {"raised"}) # {}

(* "Lease a client for a complete tool call, including its composites"          *)
(* (acquire's docstring): the client of a request that runs is leased by the    *)
(* request's call.                                                              *)
CompositesAreLeased ==
  \A k \in Call : In(k, {"running"}) # {} => held[k] = via[k]

(* Only an endless scan can keep a call: nothing of it has raised, and it has    *)
(* not been cancelled.                                                          *)
Scanning(k) ==
  /\ step[k] = "waiting"
  /\ In(k, {"running"}) \cap Endless # {}
  /\ In(k, {"raised", "cut"}) = {}

(* Every call that got a client ends, whatever part of it fails ("Each          *)
(* sub-section degrades gracefully", device_full_profile), or it scans an       *)
(* endless listing for ever; an exception and a cancellation end such a call    *)
(* too.                                                                         *)
CallsEnd ==
  \A k \in Call :
    \/ step[k] \in {"waiting", "cancelling"} ~> step[k] = "ended"
    \/ <>[]Scanning(k)

(* Calls use the pool as it asks to be used, so that what holds of the pool     *)
(* holds below the tools.                                                       *)
CallsUseThePool == Spec
=============================================================================
