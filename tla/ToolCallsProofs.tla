---------------------------- MODULE ToolCallsProofs ----------------------------
(***************************************************************************)
(* Theorems about ToolCalls: the calls implement the pool's specification, *)
(* so every theorem of ClientPoolProofs holds below them, and the lease    *)
(* keeps what happens to the pool away from the calls.                     *)
(***************************************************************************)
EXTENDS ToolCalls, ClientPoolProofs

-----------------------------------------------------------------------------
(* Every step of a call is a step of the pool or leaves it alone. *)

LEMMA StepsOfThePool == [CallsNext]_allVars => [Next]_vars
<1> SUFFICES ASSUME [CallsNext]_allVars PROVE [Next]_vars  OBVIOUS
<1>1. CASE PoolStep  BY <1>1 DEF PoolStep, Next
<1>2. ASSUME NEW k \in Call, CallStep(k) PROVE [Next]_vars
  <2>1. ASSUME NEW key \in Key, NEW c \in Client, NEW S \in Beginnings, Begin(k, key, c, S)
        PROVE  Next
    BY <2>1 DEF Begin, Next
  <2>2. CASE Refuse(k)  BY <2>2 DEF Refuse, Next
  <2>3. ASSUME NEW S, FanOut(k, S) PROVE UNCHANGED vars  BY <2>3 DEF FanOut
  <2>4. ASSUME NEW r \in Request, RequestEnds(k, r) PROVE UNCHANGED vars
    BY <2>4 DEF RequestEnds
  <2>5. CASE Return(k)  BY <2>5 DEF Return, Finish, Next
  <2>6. CASE Crash(k)  BY <2>6 DEF Crash, Finish, Next
  <2>7. CASE Cancel(k)  BY <2>7 DEF Cancel
  <2>8. CASE CancelReturns(k)  BY <2>8 DEF CancelReturns, Finish, Next
  <2> QED  BY <1>2, <2>1, <2>2, <2>3, <2>4, <2>5, <2>6, <2>7, <2>8 DEF CallStep
<1>3. CASE UNCHANGED allVars  BY <1>3 DEF allVars, vars
<1> QED  BY <1>1, <1>2, <1>3 DEF CallsNext

(* Calls use the pool only through acquire and its release: the specification   *)
(* of the tools implements the one of the pool.                                 *)
THEOREM CallsImplementPool == CallsSpec => CallsUseThePool
<1>1. CallsInit => Init  BY DEF CallsInit
<1> QED  BY <1>1, StepsOfThePool, PTL DEF CallsSpec, CallsUseThePool, Spec

-----------------------------------------------------------------------------
(* The inductive invariant.  FailuresAreOwn alone does not say why a waiting    *)
(* call's client is open; it is because the call holds the client it works on,  *)
(* which the pool (LeaseSafety) then neither closes nor schedules for closing.  *)

Untouched(k) == ~Holds(k) /\ In(k, RequestState \ {"none"}) = {} /\ outcome[k] = "none"

(* The call's own lease covers its requests. *)
Served(k) ==
  /\ Holds(k)
  /\ via[k] = held[k]
  /\ In(k, {"cut"}) = {}
  /\ outcome[k] = "none"

(* What a request of the call raised explains both a cancellation that reached  *)
(* only a part of them and requests that outlive the call.                      *)
Raised(k) == In(k, {"raised"}) # {}

Over(k) ==
  \/ /\ outcome[k] \in {"answer", "error", "refused"}
     /\ In(k, {"running", "raised", "cut", "cancelled"}) = {}
  \/ outcome[k] = "cancelled" /\ In(k, {"running", "cut"}) = {}
  \/ outcome[k] \in {"crash", "cancelled"} /\ Raised(k)

CallInv(k) ==
  /\ step[k] = "new" => Untouched(k)
  /\ step[k] = "waiting" => Served(k) /\ (In(k, {"cancelled"}) # {} => Raised(k))
  /\ step[k] = "cancelling" => Served(k) /\ (In(k, {"running"}) # {} => Raised(k))
  /\ step[k] = "ended" => Over(k)

CallsInv == IInv /\ CallsTypeOK /\ \A k \in Call : CallInv(k)

LEMMA InitCallsInv == CallsInit => CallsInv
<1> SUFFICES ASSUME CallsInit PROVE CallsInv  OBVIOUS
<1>1. IInv  BY InitIInv DEF CallsInit
<1>2. CallsTypeOK
  BY <1>1 DEF CallsInit, IInv, CallsTypeOK, RequestState, Outcome
<1>3. ASSUME NEW k \in Call PROVE CallInv(k)
  BY <1>3, IdleAssumption DEF CallsInit, Init, CallInv, Untouched, In, Holds
<1> QED  BY <1>1, <1>2, <1>3 DEF CallsInv

(* A call none of whose variables change keeps its part of the invariant. *)
LEMMA OtherCall ==
  ASSUME NEW k \in Call, CallInv(k), held'[k] = held[k], step'[k] = step[k],
         via'[k] = via[k], requests'[k] = requests[k], outcome'[k] = outcome[k]
  PROVE  CallInv(k)'
BY DEF CallInv, Untouched, Served, Over, Raised, In, Holds

(* A waiting call works on an open client. *)
LEMMA ServedIsOpen ==
  ASSUME IInv, NEW k \in Call, Served(k)
  PROVE  http[via[k]] = "open"
BY DEF IInv, LeaseSafety, Served

(* A pool step leaves every call alone: none of them changes `held`. *)
LEMMA PoolStepInv ==
  ASSUME CallsInv, PoolStep
  PROVE  CallsTypeOK' /\ \A k \in Call : CallInv(k)'
<1>1. UNCHANGED <<held, step, via, requests, outcome>>
  BY DEF PoolStep, callVars, TaskStarts, TaskEnds, Close, CloseReturns
<1>2. TypeOK'
  <2>1. [Next]_vars  BY DEF PoolStep, Next
  <2> QED  BY <2>1, NextIInv DEF CallsInv, IInv
<1>3. CallsTypeOK'  BY <1>1, <1>2 DEF CallsInv, CallsTypeOK
<1>4. ASSUME NEW k \in Call PROVE CallInv(k)'
  BY <1>1, <1>4, OtherCall DEF CallsInv
<1> QED  BY <1>3, <1>4

-----------------------------------------------------------------------------
(* The steps of one call. *)

(* A call's step does not touch the variables of the others. *)
LEMMA StepIsOwn ==
  ASSUME CallsTypeOK, NEW k \in Call, CallStep(k), NEW j \in Call, j # k
  PROVE  /\ held'[j] = held[j] /\ step'[j] = step[j] /\ via'[j] = via[j]
         /\ requests'[j] = requests[j] /\ outcome'[j] = outcome[j]
<1> USE DEF CallsTypeOK, TypeOK
<1>1. ASSUME NEW key \in Key, NEW c \in Client, NEW S \in Beginnings, Begin(k, key, c, S)
      PROVE  /\ held'[j] = held[j] /\ step'[j] = step[j] /\ via'[j] = via[j]
             /\ requests'[j] = requests[j] /\ outcome'[j] = outcome[j]
  BY <1>1 DEF Begin, Acquire
<1>2. CASE Refuse(k)
  <2>1. held'[j] = held[j]  BY <1>2 DEF Refuse, AcquireRaises, vars
  <2> QED  BY <1>2, <2>1 DEF Refuse
<1>3. ASSUME NEW S, FanOut(k, S)
      PROVE  /\ held'[j] = held[j] /\ step'[j] = step[j] /\ via'[j] = via[j]
             /\ requests'[j] = requests[j] /\ outcome'[j] = outcome[j]
  BY <1>3 DEF FanOut, vars
<1>4. ASSUME NEW r \in Request, RequestEnds(k, r)
      PROVE  /\ held'[j] = held[j] /\ step'[j] = step[j] /\ via'[j] = via[j]
             /\ requests'[j] = requests[j] /\ outcome'[j] = outcome[j]
  BY <1>4 DEF RequestEnds, vars
<1>5. CASE Return(k)  BY <1>5 DEF Return, Finish, Release
<1>6. CASE Crash(k)  BY <1>6 DEF Crash, Finish, Release
<1>7. CASE Cancel(k)  BY <1>7 DEF Cancel, vars
<1>8. CASE CancelReturns(k)  BY <1>8 DEF CancelReturns, Finish, Release
<1> QED  BY <1>1, <1>2, <1>3, <1>4, <1>5, <1>6, <1>7, <1>8 DEF CallStep

LEMMA BeginStep ==
  ASSUME CallsInv, NEW k \in Call, NEW key \in Key, NEW c \in Client,
         NEW S \in Beginnings, Begin(k, key, c, S), TypeOK'
  PROVE  CallsTypeOK' /\ CallInv(k)'
<1>1. CallsTypeOK /\ TypeOK /\ Untouched(k)
  BY DEF CallsInv, CallsTypeOK, Begin, CallInv
<1>2. Started(k, S) \in [Request -> RequestState]
  BY <1>1 DEF Started, CallsTypeOK, RequestState
<1>3. CallsTypeOK'  BY <1>1, <1>2 DEF CallsTypeOK, Begin
<1>4. held'[k] = c /\ via'[k] = c /\ step'[k] = "waiting" /\ outcome'[k] = outcome[k]
  BY <1>1 DEF CallsTypeOK, TypeOK, Begin, Acquire
<1>5. In(k, {"cut"})' = {} /\ In(k, {"cancelled"})' = {}
  <2>1. requests'[k] = Started(k, S)  BY <1>1 DEF CallsTypeOK, Begin
  <2>2. \A r \in Request : requests[k][r] = "none"
    BY <1>1 DEF Untouched, In, CallsTypeOK, RequestState
  <2> QED  BY <2>1, <2>2 DEF In, Started
<1> QED  BY <1>1, <1>3, <1>4, <1>5 DEF CallInv, Served, Untouched, Holds

LEMMA RefuseStep ==
  ASSUME CallsInv, NEW k \in Call, Refuse(k), TypeOK'
  PROVE  CallsTypeOK' /\ CallInv(k)'
<1>1. CallsTypeOK /\ Untouched(k)  BY DEF CallsInv, Refuse, CallInv
<1>2. CallsTypeOK'  BY <1>1 DEF CallsTypeOK, Refuse, Outcome
<1>3. step'[k] = "ended" /\ outcome'[k] = "refused" /\ requests'[k] = requests[k]
  BY <1>1 DEF CallsTypeOK, Refuse
<1>4. In(k, {"running", "raised", "cut", "cancelled"})' = {}
  BY <1>1, <1>3 DEF Untouched, In, RequestState
<1> QED  BY <1>2, <1>3, <1>4 DEF CallInv, Over

LEMMA FanOutStep ==
  ASSUME CallsInv, NEW k \in Call, NEW S \in Beginnings, FanOut(k, S), TypeOK'
  PROVE  CallsTypeOK' /\ CallInv(k)'
<1>1. CallsTypeOK /\ Served(k)  BY DEF CallsInv, FanOut, CallInv
<1>2. Started(k, S) \in [Request -> RequestState]
  BY <1>1 DEF Started, CallsTypeOK, RequestState
<1>3. CallsTypeOK'  BY <1>1, <1>2 DEF CallsTypeOK, FanOut
<1>4. /\ held'[k] = held[k] /\ via'[k] = via[k] /\ step'[k] = "waiting"
      /\ outcome'[k] = outcome[k] /\ requests'[k] = Started(k, S)
  BY <1>1 DEF CallsTypeOK, FanOut, vars
<1>5. In(k, {"cut"})' = {}  BY <1>1, <1>4 DEF Served, In, Started
<1>6. In(k, {"cancelled"})' = {}
  <2>1. \A r \in Part : requests[k][r] = "none"  BY DEF FanOut, In
  <2>2. \A r \in Request : requests[k][r] # "cancelled"
    BY <2>1 DEF FanOut, Request
  <2> QED  BY <2>2, <1>4 DEF In, Started
<1> QED  BY <1>1, <1>3, <1>4, <1>5, <1>6 DEF CallInv, Served, Holds

(* Only an orphan can find its client closed. *)
LEMMA RequestEndsStep ==
  ASSUME CallsInv, NEW k \in Call, NEW r \in Request, RequestEnds(k, r), TypeOK'
  PROVE  CallsTypeOK' /\ CallInv(k)'
<1>1. CallsTypeOK /\ CallInv(k) /\ IInv  BY DEF CallsInv
<1>2. PICK s \in Endings(k, r) : requests' = [requests EXCEPT ![k][r] = s]
  BY DEF RequestEnds
<1>3. s \in {"answered", "stub", "raised", "cut"}  BY <1>2 DEF Endings
<1>4. CallsTypeOK'  BY <1>1, <1>2, <1>3 DEF CallsTypeOK, RequestEnds, RequestState
<1>5. /\ held'[k] = held[k] /\ via'[k] = via[k] /\ step'[k] = step[k]
      /\ outcome'[k] = outcome[k] /\ requests'[k] = [requests[k] EXCEPT ![r] = s]
  BY <1>1, <1>2 DEF CallsTypeOK, RequestEnds, vars
<1>6. requests[k][r] = "running"  BY DEF RequestEnds
<1>7. Raised(k) => Raised(k)'
  <2> SUFFICES ASSUME Raised(k) PROVE Raised(k)'  OBVIOUS
  <2>1. PICK q \in Request : requests[k][q] = "raised"  BY DEF Raised, In
  <2>2. q # r  BY <1>6, <2>1
  <2>3. requests'[k][q] = "raised"  BY <1>1, <1>5, <2>1, <2>2 DEF CallsTypeOK
  <2> QED  BY <2>3 DEF Raised, In
<1>8. r \in In(k, {"running"}) /\ r \in In(k, {"running", "cut"})
      /\ r \in In(k, {"running", "raised", "cut", "cancelled"})
  BY <1>6 DEF In
<1>9. ASSUME Served(k) PROVE Served(k)'
  <2>1. s # "cut"  BY <1>1, <1>2, <1>9, ServedIsOpen DEF Endings
  <2>2. In(k, {"cut"})' = {}  BY <1>1, <1>5, <1>9, <2>1 DEF Served, In, CallsTypeOK
  <2> QED  BY <1>5, <1>9, <2>2 DEF Served, Holds
<1>10. CASE step[k] = "waiting"
  <2>1. Served(k) /\ (In(k, {"cancelled"}) # {} => Raised(k))
    BY <1>1, <1>10 DEF CallInv
  <2>2. In(k, {"cancelled"})' \subseteq In(k, {"cancelled"})
    BY <1>1, <1>3, <1>5 DEF In, CallsTypeOK
  <2> QED  BY <1>4, <1>5, <1>7, <1>9, <1>10, <2>1, <2>2 DEF CallInv
<1>11. CASE step[k] = "cancelling"
  <2>1. Served(k) /\ Raised(k)  BY <1>1, <1>8, <1>11 DEF CallInv
  <2> QED  BY <1>4, <1>5, <1>7, <1>9, <1>11, <2>1 DEF CallInv
<1>12. CASE step[k] = "ended"
  <2>1. Over(k)  BY <1>1, <1>12 DEF CallInv
  <2>2. outcome[k] \in {"crash", "cancelled"} /\ Raised(k)  BY <2>1, <1>8 DEF Over
  <2> QED  BY <1>4, <1>5, <1>7, <1>12, <2>2 DEF CallInv, Over
<1>13. step[k] # "new"
  BY <1>1, <1>6 DEF CallInv, Untouched, In, RequestState
<1>14. step[k] \in {"waiting", "cancelling", "ended"}  BY <1>1, <1>13 DEF CallsTypeOK
<1> QED  BY <1>10, <1>11, <1>12, <1>14

LEMMA ReturnStep ==
  ASSUME CallsInv, NEW k \in Call, Return(k), TypeOK'
  PROVE  CallsTypeOK' /\ CallInv(k)'
<1>1. CallsTypeOK /\ (In(k, {"cancelled"}) # {} => Raised(k))
  BY DEF CallsInv, Return, CallInv
<1>2. CallsTypeOK'  BY <1>1 DEF CallsTypeOK, Return, Verdict, Finish, Outcome
<1>3. step'[k] = "ended" /\ outcome'[k] \in {"answer", "error"} /\ requests'[k] = requests[k]
  BY <1>1 DEF CallsTypeOK, Return, Verdict, Finish
<1>4. In(k, {"cancelled"}) = {}  BY <1>1 DEF Raised, Return, Gathered, In
<1>5. In(k, {"running", "raised", "cut", "cancelled"})' = {}
  BY <1>3, <1>4 DEF Return, Gathered, In
<1> QED  BY <1>2, <1>3, <1>5 DEF CallInv, Over

LEMMA CrashStep ==
  ASSUME CallsInv, NEW k \in Call, Crash(k), TypeOK'
  PROVE  CallsTypeOK' /\ CallInv(k)'
<1>1. CallsTypeOK /\ Served(k)  BY DEF CallsInv, Crash, CallInv
<1>2. CallsTypeOK'  BY <1>1 DEF CallsTypeOK, Crash, Finish, Outcome
<1>3. step'[k] = "ended" /\ outcome'[k] = "crash" /\ requests'[k] = requests[k]
  BY <1>1 DEF CallsTypeOK, Crash, Finish
<1>4. Raised(k)'  BY <1>1, <1>3 DEF Crash, Raised, Served, In
<1> QED  BY <1>2, <1>3, <1>4 DEF CallInv, Over

LEMMA CancelStep ==
  ASSUME CallsInv, NEW k \in Call, Cancel(k), TypeOK'
  PROVE  CallsTypeOK' /\ CallInv(k)'
<1>1. CallsTypeOK /\ Served(k)  BY DEF CallsInv, Cancel, CallInv
<1>2. PICK next \in Awaiting(k) : step' = [step EXCEPT ![k] = next]  BY DEF Cancel
<1>3. PICK R \in Reached(k) : requests' = [requests EXCEPT ![k] = Interrupted(k, R)]
  BY DEF Cancel
<1>4. next \in {"cancelling", "waiting"} /\ R \subseteq In(k, {"running"})
  BY <1>2, <1>3 DEF Awaiting, Reached
<1>5. Interrupted(k, R) \in [Request -> RequestState]
  BY <1>1 DEF Interrupted, CallsTypeOK, RequestState
<1>6. CallsTypeOK'  BY <1>1, <1>2, <1>3, <1>4, <1>5 DEF CallsTypeOK, Cancel
<1>7. /\ held'[k] = held[k] /\ via'[k] = via[k] /\ step'[k] = next
      /\ outcome'[k] = outcome[k] /\ requests'[k] = Interrupted(k, R)
  BY <1>1, <1>2, <1>3 DEF CallsTypeOK, Cancel, vars
<1>8. In(k, {"cut"})' = {}  BY <1>1, <1>7 DEF Served, In, Interrupted
<1>9. Served(k)'  BY <1>1, <1>7, <1>8 DEF Served, Holds
<1>10. CASE Raised(k)
  <2>1. PICK q \in Request : requests[k][q] = "raised"  BY <1>10 DEF Raised, In
  <2>2. q \notin R  BY <1>4, <2>1 DEF In
  <2>3. requests'[k][q] = "raised"  BY <1>7, <2>1, <2>2 DEF Interrupted
  <2>4. Raised(k)'  BY <2>3 DEF Raised, In
  <2> QED  BY <1>4, <1>6, <1>7, <1>9, <2>4 DEF CallInv
<1>11. CASE ~Raised(k)
  <2>1. In(k, {"raised", "cut"}) = {}  BY <1>1, <1>11 DEF Raised, Served, In
  <2>2. next = "cancelling" /\ R = In(k, {"running"})
    BY <1>2, <1>3, <2>1 DEF Awaiting, Reached
  <2>3. In(k, {"running"})' = {}  BY <1>7, <2>2 DEF In, Interrupted
  <2> QED  BY <1>6, <1>7, <1>9, <2>2, <2>3 DEF CallInv
<1> QED  BY <1>10, <1>11

LEMMA CancelReturnsStep ==
  ASSUME CallsInv, NEW k \in Call, CancelReturns(k), TypeOK'
  PROVE  CallsTypeOK' /\ CallInv(k)'
<1>1. CallsTypeOK /\ Served(k) /\ (In(k, {"running"}) # {} => Raised(k))
  BY DEF CallsInv, CancelReturns, CallInv
<1>2. CallsTypeOK'  BY <1>1 DEF CallsTypeOK, CancelReturns, Finish, Outcome
<1>3. step'[k] = "ended" /\ outcome'[k] = "cancelled" /\ requests'[k] = requests[k]
  BY <1>1 DEF CallsTypeOK, CancelReturns, Finish
<1>4. In(k, {"running", "cut"})' = {} \/ Raised(k)'
  BY <1>1, <1>3 DEF Served, Raised, In
<1> QED  BY <1>2, <1>3, <1>4 DEF CallInv, Over

-----------------------------------------------------------------------------
LEMMA NextCallsInv == CallsInv /\ [CallsNext]_allVars => CallsInv'
<1> SUFFICES ASSUME CallsInv, [CallsNext]_allVars PROVE CallsInv'  OBVIOUS
<1>1. IInv'  BY StepsOfThePool, NextIInv DEF CallsInv
<1>2. TypeOK'  BY <1>1 DEF IInv
<1>3. CASE PoolStep  BY <1>1, <1>3, PoolStepInv DEF CallsInv
<1>4. ASSUME NEW k \in Call, CallStep(k) PROVE CallsInv'
  <2>1. CallsTypeOK' /\ CallInv(k)'
    BY <1>2, <1>4, BeginStep, RefuseStep, FanOutStep, RequestEndsStep, ReturnStep,
       CrashStep, CancelStep, CancelReturnsStep DEF CallStep
  <2>2. ASSUME NEW j \in Call, j # k PROVE CallInv(j)'
    BY <1>4, <2>2, StepIsOwn, OtherCall DEF CallsInv
  <2> QED  BY <1>1, <2>1, <2>2 DEF CallsInv
<1>5. CASE UNCHANGED allVars
  <2>1. UNCHANGED <<vars, held, step, via, requests, outcome>>
    BY <1>5 DEF allVars, vars
  <2>2. CallsTypeOK'  BY <1>2, <2>1 DEF CallsInv, CallsTypeOK
  <2>3. ASSUME NEW k \in Call PROVE CallInv(k)'  BY <2>1, <2>3, OtherCall DEF CallsInv
  <2> QED  BY <1>1, <2>2, <2>3 DEF CallsInv
<1> QED  BY <1>3, <1>4, <1>5 DEF CallsNext

LEMMA CallsInvariance == CallsSpec => []CallsInv
<1> QED  BY InitCallsInv, NextCallsInv, PTL DEF CallsSpec

(* Type correctness of the calls and of the pool below them. *)
THEOREM CallsTypeCorrect == CallsSpec => []CallsTypeOK
<1>1. CallsInv => CallsTypeOK  BY DEF CallsInv
<1> QED  BY <1>1, CallsInvariance, PTL

(* However calls, evictions and the shutdown interleave, a request finds its    *)
(* client closed, and a call crashes, only after a fault of the same call.      *)
THEOREM FailuresStayOwn == CallsSpec => []FailuresAreOwn
<1>1. ASSUME CallsInv, NEW k \in Call,
             outcome[k] = "crash" \/ In(k, {"cut"}) # {}
      PROVE  In(k, {"raised"}) # {}
  <2>1. CallInv(k) /\ CallsTypeOK  BY <1>1 DEF CallsInv
  <2>2. step[k] \notin {"waiting", "cancelling"}  BY <1>1, <2>1 DEF CallInv, Served
  <2>3. step[k] # "new"
    <3> SUFFICES ASSUME Untouched(k) PROVE FALSE  BY <2>1 DEF CallInv
    <3>1. In(k, {"cut"}) = {}  BY DEF Untouched, In, RequestState
    <3> QED  BY <1>1, <3>1 DEF Untouched
  <2>4. Over(k)  BY <2>1, <2>2, <2>3 DEF CallInv, CallsTypeOK
  <2>5. /\ In(k, {"cut"}) \subseteq In(k, {"running", "cut"})
        /\ In(k, {"cut"}) \subseteq In(k, {"running", "raised", "cut", "cancelled"})
    BY DEF In
  <2> QED  BY <1>1, <2>4, <2>5 DEF Over, Raised
<1>2. CallsInv => FailuresAreOwn  BY <1>1 DEF FailuresAreOwn
<1> QED  BY <1>2, CallsInvariance, PTL

(* An answer leaves nothing behind; a crash and a cancellation leave requests   *)
(* running after the lease was given back only if one of the call raised.       *)
THEOREM NothingStaysBehind == CallsSpec => []NothingLeftBehind
<1>1. ASSUME CallsInv, NEW k \in Call, outcome[k] \in {"answer", "error"}
      PROVE  In(k, {"running", "raised", "cut", "cancelled"}) = {}
  <2>1. CallInv(k) /\ CallsTypeOK  BY <1>1 DEF CallsInv
  <2>2. step[k] = "ended"
    BY <1>1, <2>1 DEF CallInv, Served, Untouched, CallsTypeOK
  <2> QED  BY <1>1, <2>1, <2>2 DEF CallInv, Over
<1>2. ASSUME CallsInv, NEW k \in Call, step[k] = "ended", In(k, {"running"}) # {}
      PROVE  In(k, {"raised"}) # {}
  <2>1. Over(k)  BY <1>2 DEF CallsInv, CallInv
  <2>2. /\ In(k, {"running"}) \subseteq In(k, {"running", "cut"})
        /\ In(k, {"running"}) \subseteq In(k, {"running", "raised", "cut", "cancelled"})
    BY DEF In
  <2> QED  BY <1>2, <2>1, <2>2 DEF Over, Raised
<1>3. CallsInv => NothingLeftBehind  BY <1>1, <1>2 DEF NothingLeftBehind
<1> QED  BY <1>3, CallsInvariance, PTL

-----------------------------------------------------------------------------
(* What raises is one of the requests that may. *)
OwnFaults == \A k \in Call : In(k, {"raised"}) \subseteq Raising

LEMMA NextOwnFaults ==
  ASSUME CallsInv, OwnFaults, [CallsNext]_allVars
  PROVE  OwnFaults'
<1> USE DEF OwnFaults, In
<1>1. CASE PoolStep  BY <1>1 DEF PoolStep, callVars
<1>2. ASSUME NEW k \in Call, CallStep(k), NEW j \in Call PROVE In(j, {"raised"})' \subseteq Raising
  <2>0. CallsTypeOK  BY DEF CallsInv
  <2>1. CASE j # k  BY <1>2, <2>0, <2>1, StepIsOwn
  <2>2. ASSUME NEW S, j = k, requests'[k] = Started(k, S) PROVE In(j, {"raised"})' \subseteq Raising
    BY <2>2 DEF Started
  <2>3. ASSUME NEW key \in Key, NEW c \in Client, NEW S \in Beginnings, Begin(k, key, c, S), j = k
        PROVE  In(j, {"raised"})' \subseteq Raising
    BY <2>0, <2>2, <2>3 DEF Begin, CallsTypeOK
  <2>4. ASSUME NEW S, FanOut(k, S), j = k PROVE In(j, {"raised"})' \subseteq Raising
    BY <2>0, <2>2, <2>4 DEF FanOut, CallsTypeOK
  <2>5. ASSUME NEW r \in Request, RequestEnds(k, r), j = k
        PROVE  In(j, {"raised"})' \subseteq Raising
    <3>1. PICK s \in Endings(k, r) : requests' = [requests EXCEPT ![k][r] = s]
      BY <2>5 DEF RequestEnds
    <3>2. s = "raised" => r \in Raising  BY <3>1 DEF Endings
    <3> QED  BY <2>0, <2>5, <3>1, <3>2 DEF CallsTypeOK
  <2>6. CASE j = k /\ Cancel(k)  BY <2>0, <2>6 DEF Cancel, Interrupted, CallsTypeOK
  <2>7. CASE j = k /\ (Refuse(k) \/ Return(k) \/ Crash(k) \/ CancelReturns(k))
    BY <2>7 DEF Refuse, Return, Crash, CancelReturns
  <2> QED  BY <1>2, <2>1, <2>3, <2>4, <2>5, <2>6, <2>7 DEF CallStep
<1>3. CASE UNCHANGED allVars  BY <1>3 DEF allVars
<1> QED  BY <1>1, <1>2, <1>3 DEF CallsNext

(* When the only exceptions of requests are EsetApiErrors the docstring of      *)
(* acquire holds: the lease covers every request of the call.                   *)
THEOREM LeaseCoversComposites ==
  ASSUME Raising = {}
  PROVE  CallsSpec => []CompositesAreLeased
<1>1. ASSUME CallsInv, OwnFaults, NEW k \in Call, In(k, {"running"}) # {}
      PROVE  held[k] = via[k]
  <2>1. CallInv(k) /\ CallsTypeOK  BY <1>1 DEF CallsInv
  <2>2. In(k, {"raised"}) = {}  BY <1>1 DEF OwnFaults
  <2>3. step[k] # "ended"
    <3> SUFFICES ASSUME Over(k) PROVE FALSE  BY <2>1 DEF CallInv
    <3>1. /\ In(k, {"running"}) \subseteq In(k, {"running", "cut"})
          /\ In(k, {"running"}) \subseteq In(k, {"running", "raised", "cut", "cancelled"})
      BY DEF In
    <3> QED  BY <1>1, <2>2, <3>1 DEF Over, Raised
  <2>4. step[k] # "new"
    <3> SUFFICES ASSUME Untouched(k) PROVE FALSE  BY <2>1 DEF CallInv
    <3> QED  BY <1>1 DEF Untouched, In, RequestState
  <2> QED  BY <2>1, <2>3, <2>4 DEF CallInv, Served, CallsTypeOK
<1>2. CallsInv /\ OwnFaults => CompositesAreLeased  BY <1>1 DEF CompositesAreLeased
<1>3. CallsInit => OwnFaults  BY DEF CallsInit, OwnFaults, In
<1>4. CallsInv /\ OwnFaults /\ [CallsNext]_allVars => OwnFaults'  BY NextOwnFaults
<1> QED  BY <1>2, <1>3, <1>4, CallsInvariance, PTL DEF CallsSpec
=============================================================================
