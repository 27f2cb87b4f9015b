---------------------------- MODULE SessionsProofs ----------------------------
(* Whose session is whose, for any number of requests, identities, sessions    *)
(* and any bound of the cache.                                                 *)
EXTENDS Sessions, SequenceLemmas, FunctionTheorems, FiniteSetTheorems, TLAPS

RangeIn(keys, S) == \A i \in 1 .. Len(keys) : keys[i] \in S

(* Dropping a key, moving one to the end and cutting to the bound lose keys     *)
(* only, and gain none but the one that is used.                                *)
LEMMA WithoutLemma ==
  ASSUME NEW keys \in Seq(Session), NEW s, NEW S, RangeIn(keys, S)
  PROVE  /\ Without(keys, s) \in Seq(Session) /\ RangeIn(Without(keys, s), S)
         /\ Len(Without(keys, s)) <= Len(keys)
         /\ Contains(keys, s) => Len(Without(keys, s)) = Len(keys) - 1
<1>0. Len(keys) \in Nat
  OBVIOUS
<1>1. CASE Contains(keys, s)
  <2>. DEFINE i == CHOOSE j \in DOMAIN keys : keys[j] = s
  <2>1. i \in 1 .. Len(keys)
    BY <1>1 DEF Contains
  <2>2. Without(keys, s) = RemoveAt(keys, i)
    BY <1>1, Zenon DEF Without
  <2>. HIDE DEF i
  <2>3. /\ RemoveAt(keys, i) \in Seq(Session)
        /\ Len(RemoveAt(keys, i)) = Len(keys) - 1
        /\ \A j \in 1 .. Len(keys) - 1 :
             RemoveAt(keys, i)[j] = IF j < i THEN keys[j] ELSE keys[j + 1]
    BY <2>1, RemoveAtLemma
  <2>. QED BY <1>0, <2>1, <2>2, <2>3 DEF RangeIn
<1>2. CASE ~Contains(keys, s)
  BY <1>0, <1>2 DEF Without
<1>. QED BY <1>1, <1>2

LEMMA MoveToEndLemma ==
  ASSUME order \in Seq(Session), NEW s \in Session, NEW S, RangeIn(order, S)
  PROVE  /\ MoveToEnd(s) \in Seq(Session) /\ RangeIn(MoveToEnd(s), S \cup {s})
         /\ Len(MoveToEnd(s)) <= Len(order) + 1
         /\ Contains(order, s) => Len(MoveToEnd(s)) = Len(order)
<1>. DEFINE w == Without(order, s)
<1>1. /\ w \in Seq(Session) /\ RangeIn(w, S) /\ Len(w) <= Len(order)
      /\ Contains(order, s) => Len(w) = Len(order) - 1
  BY WithoutLemma
<1>2. MoveToEnd(s) = Append(w, s)
  BY DEF MoveToEnd
<1>. HIDE DEF w
<1>3. Len(w) \in Nat /\ Len(order) \in Nat
  BY <1>1
<1>. QED BY <1>1, <1>2, <1>3 DEF RangeIn

LEMMA KeptLemma ==
  ASSUME NEW keys \in Seq(Session), NEW S, RangeIn(keys, S)
  PROVE  /\ Kept(keys) \in Seq(Session) /\ RangeIn(Kept(keys), S)
         /\ Len(Kept(keys)) <= Cap
<1>0. Len(keys) \in Nat /\ Cap \in Nat
  BY CapAssumption
<1>. DEFINE m == IF Len(keys) > Cap THEN Len(keys) - Cap + 1 ELSE 1
<1>1. m \in 1 .. Len(keys) + 1 /\ Len(keys) - m + 1 <= Cap
  BY <1>0, CapAssumption
<1>2. Kept(keys) = SubSeq(keys, m, Len(keys))
  BY DEF Kept
<1>. HIDE DEF m
<1>3. /\ SubSeq(keys, m, Len(keys)) \in Seq(Session)
      /\ Len(SubSeq(keys, m, Len(keys))) = Len(keys) - m + 1
      /\ \A j \in 1 .. Len(keys) - m + 1 : SubSeq(keys, m, Len(keys))[j] = keys[m + j - 1]
  BY <1>1, SuffixLemma
<1>. QED BY <1>0, <1>1, <1>2, <1>3 DEF RangeIn
-----------------------------------------------------------------------------
Issued == {s \in Session : owner[s] \in Identity}

Bound == {s \in Session : binding[s] = owner[s]}

(* A request under way has an identity, and an answer that names a session      *)
(* names one that was created for that identity.                                *)
AnswersOwn ==
  \A r \in Request :
    /\ phase[r] # "idle" => who[r] \in Identity
    /\ answer[r].session # None => /\ phase[r] = "answered"
                                   /\ owner[answer[r].session] = who[r]

Inv == TypeOK /\ OwnersOnly /\ AnswersOwn /\ RangeIn(order, Issued)

LEMMA InitInv == Init => Inv
<1>. SUFFICES ASSUME Init PROVE Inv
  OBVIOUS
<1>1. order = <<>> /\ Len(order) = 0
  BY DEF Init
<1>2. TypeOK
  <2>1. order \in Seq(Session) /\ Len(order) <= Cap
    BY <1>1, CapAssumption
  <2>2. NoAnswer \in Answer
    BY DEF NoAnswer, Answer
  <2>3. left \in [Session -> -1 .. TTL] /\ idle \in [Session -> 0 .. TTL + 1]
    BY TTLAssumption DEF Init
  <2>4. binding \in [Session -> Identity \cup {None}] /\ owner \in [Session -> Identity \cup {None}]
        /\ phase \in [Request -> {"idle", "called", "answered"}]
        /\ who \in [Request -> Identity \cup {None}] /\ sid \in [Request -> Session \cup {None}]
        /\ newer \in [Session -> SUBSET Session]
        /\ alive \subseteq Session /\ closed \subseteq Session /\ late \in [Session -> SUBSET Request]
    BY DEF Init
  <2>5. delete \in [Request -> BOOLEAN] /\ answer \in [Request -> Answer]
    BY <2>2, Zenon DEF Init
  <2>. QED BY <2>1, <2>3, <2>4, <2>5 DEF TypeOK
<1>3. OwnersOnly /\ AnswersOwn
  BY <1>1 DEF Init, OwnersOnly, AnswersOwn, NoAnswer
<1>4. RangeIn(order, Issued)
  BY <1>1 DEF RangeIn
<1>. QED BY <1>2, <1>3, <1>4 DEF Inv

(* What the code after call_next leaves in the cache. *)
LEMMA RemainingLemma ==
  ASSUME TypeOK, NEW r \in Request, NEW S, RangeIn(order, S)
  PROVE  /\ Remaining(r) \in Seq(Session) /\ Len(Remaining(r)) <= Cap
         /\ RangeIn(Remaining(r), IF Registers(r) THEN S \cup {answer[r].session} ELSE S)
<1>. DEFINE T == IF Registers(r) THEN S \cup {answer[r].session} ELSE S
<1>1. /\ Registered(r) \in Seq(Session) /\ Len(Registered(r)) <= Cap
      /\ RangeIn(Registered(r), T)
  <2>1. CASE Registers(r)
    <3>1. answer[r].session \in Session
      BY <2>1 DEF Registers, TypeOK, Answer
    <3>2. /\ MoveToEnd(answer[r].session) \in Seq(Session)
          /\ RangeIn(MoveToEnd(answer[r].session), T)
      BY <2>1, <3>1, MoveToEndLemma DEF TypeOK
    <3>3. Registered(r) = Kept(MoveToEnd(answer[r].session))
      BY <2>1 DEF Registered
    <3>. HIDE DEF T
    <3>. QED BY <3>2, <3>3, KeptLemma
  <2>2. CASE ~Registers(r)
    BY <2>2 DEF Registered, TypeOK
  <2>. QED BY <2>1, <2>2
<1>. HIDE DEF T
<1>2. CASE Drops(r)
  <2>1. Remaining(r) = Without(Registered(r), sid[r])
    BY <1>2 DEF Remaining
  <2>2. /\ Without(Registered(r), sid[r]) \in Seq(Session)
        /\ RangeIn(Without(Registered(r), sid[r]), T)
        /\ Len(Without(Registered(r), sid[r])) <= Len(Registered(r))
    BY <1>1, WithoutLemma
  <2>3. Len(Without(Registered(r), sid[r])) \in Nat /\ Len(Registered(r)) \in Nat /\ Cap \in Nat
    BY <1>1, <2>2, CapAssumption
  <2>. QED BY <1>1, <2>1, <2>2, <2>3 DEF T
<1>3. CASE ~Drops(r)
  BY <1>1, <1>3 DEF Remaining, T
<1>. QED BY <1>2, <1>3

(* A request leaves: its slot is idle again. *)
LEMMA Leave ==
  ASSUME TypeOK, NEW r \in Request,
         phase' = [phase EXCEPT ![r] = "idle"], who' = [who EXCEPT ![r] = None],
         sid' = [sid EXCEPT ![r] = None], delete' = [delete EXCEPT ![r] = FALSE],
         answer' = [answer EXCEPT ![r] = NoAnswer], UNCHANGED sdk,
         OwnersOnly, AnswersOwn
  PROVE  /\ phase' \in [Request -> {"idle", "called", "answered"}]
         /\ who' \in [Request -> Identity \cup {None}]
         /\ sid' \in [Request -> Session \cup {None}]
         /\ delete' \in [Request -> BOOLEAN]
         /\ answer' \in [Request -> Answer]
         /\ alive' \subseteq Session /\ owner' \in [Session -> Identity \cup {None}]
         /\ AnswersOwn'
         /\ \A q \in Request : phase'[q] # "idle" /\ sid'[q] # None => owner'[sid'[q]] = who'[q]
<1>1. NoAnswer \in Answer /\ NoAnswer.session = None
  BY DEF NoAnswer, Answer
<1>2. AnswersOwn'
  BY <1>1 DEF AnswersOwn, TypeOK, sdk
<1>. QED BY <1>1, <1>2 DEF TypeOK, OwnersOnly, sdk
LEMMA UsedTyped ==
  ASSUME TypeOK, NEW s \in Session, Used(s)
  PROVE  idle' \in [Session -> 0 .. TTL + 1] /\ newer' \in [Session -> SUBSET Session]
<1>1. 0 \in 0 .. TTL + 1
  BY TTLAssumption
<1>2. idle' \in [Session -> 0 .. TTL + 1]
  BY <1>1 DEF Used, TypeOK
<1>3. newer' \in [Session -> SUBSET Session]
  BY DEF Used, TypeOK
<1>. QED BY <1>2, <1>3

LEMMA RenewedTyped ==
  ASSUME TypeOK, NEW s \in Session PROVE Renewed(s) \in [Session -> -1 .. TTL]
<1>1. TTL \in -1 .. TTL
  BY TTLAssumption
<1>. QED BY <1>1 DEF Renewed, TypeOK

LEMMA DispatchStep ==
  ASSUME Inv, NEW r \in Request, NEW identity \in Identity, NEW s \in Session \cup {None},
         NEW isDelete \in BOOLEAN, Dispatch(r, identity, s, isDelete)
  PROVE  Inv'
<1>. USE DEF Inv
<1>1. /\ phase[r] = "idle" /\ phase' = [phase EXCEPT ![r] = "called"]
      /\ who' = [who EXCEPT ![r] = identity] /\ sid' = [sid EXCEPT ![r] = s]
      /\ delete' = [delete EXCEPT ![r] = isDelete]
      /\ UNCHANGED <<answer, sdk, closed, late>>
  BY DEF Dispatch
<1>2. /\ order' \in Seq(Session) /\ Len(order') <= Cap
      /\ RangeIn(order', Issued \cap Bound) /\ binding' = binding
      /\ left' \in [Session -> -1 .. TTL]
      /\ idle' \in [Session -> 0 .. TTL + 1] /\ newer' \in [Session -> SUBSET Session]
      /\ s # None => owner[s] = identity
  <2>0. RangeIn(order, Issued \cap Bound)
    BY DEF RangeIn, Bound, OwnersOnly, TypeOK
  <2>1. CASE s = None
    BY <2>0, <2>1 DEF Dispatch, middleware, TypeOK
  <2>2. CASE s # None
    <3>1. s \in Session /\ Contains(order, s) /\ binding[s] = identity /\ Used(s)
          /\ order' = MoveToEnd(s) /\ left' = Renewed(s) /\ binding' = binding
      BY <2>2 DEF Dispatch, Admits
    <3>2. s \in Issued \cap Bound
      BY <2>0, <3>1 DEF Contains, RangeIn
    <3>3. /\ order' \in Seq(Session) /\ RangeIn(order', (Issued \cap Bound) \cup {s})
          /\ Len(order') = Len(order)
      BY <2>0, <3>1, MoveToEndLemma DEF TypeOK
    <3>4. owner[s] = identity
      BY <3>1, <3>2 DEF Bound
    <3>5. (Issued \cap Bound) \cup {s} = Issued \cap Bound
      BY <3>2
    <3>6. RangeIn(order', Issued \cap Bound)
      BY <3>3, <3>5
    <3>7. left' \in [Session -> -1 .. TTL]
      BY <3>1, RenewedTyped
    <3>8. idle' \in [Session -> 0 .. TTL + 1] /\ newer' \in [Session -> SUBSET Session]
      BY <3>1, UsedTyped
    <3>. QED BY <3>1, <3>3, <3>4, <3>6, <3>7, <3>8 DEF TypeOK
  <2>. QED BY <2>1, <2>2
<1>3. TypeOK'
  BY <1>1, <1>2 DEF TypeOK, sdk
<1>4. AnswersOwn'
  BY <1>1 DEF AnswersOwn, TypeOK, sdk
<1>5. OwnersOnly'
  BY <1>1, <1>2 DEF OwnersOnly, TypeOK, sdk, RangeIn, Bound
<1>6. RangeIn(order, Issued)'
  BY <1>1, <1>2 DEF RangeIn, Issued, sdk
<1>. QED BY <1>3, <1>4, <1>5, <1>6

LEMMA RespondStep ==
  ASSUME Inv, NEW r \in Request, Respond(r)
  PROVE  Inv'
<1>. USE DEF Inv
<1>0. RangeIn(order, Issued \cap Bound)
  BY DEF RangeIn, Bound, OwnersOnly, TypeOK
<1>. DEFINE bound == IF Registers(r)
                     THEN [binding EXCEPT ![answer[r].session] = who[r]]
                     ELSE binding
            lives == IF Registers(r) THEN Renewed(answer[r].session) ELSE left
<1>1. /\ phase[r] = "answered"
      /\ order' = Remaining(r)
      /\ binding' = [s \in Session |-> IF Contains(order', s) THEN bound[s] ELSE None]
      /\ left' = [s \in Session |-> IF Contains(order', s) THEN lives[s] ELSE -1]
      /\ IF Registers(r) THEN Used(answer[r].session) ELSE UNCHANGED <<idle, newer>>
      /\ closed' = IF Drops(r) THEN closed \cup {sid[r]} ELSE closed
      /\ late' = [s \in Session |-> IF Drops(r) /\ s = sid[r] THEN UnderWay(s, r) ELSE late[s] \ {r}]
      /\ phase' = [phase EXCEPT ![r] = "idle"]
      /\ who' = [who EXCEPT ![r] = None]
      /\ sid' = [sid EXCEPT ![r] = None]
      /\ delete' = [delete EXCEPT ![r] = FALSE]
      /\ answer' = [answer EXCEPT ![r] = NoAnswer]
      /\ UNCHANGED sdk
  BY Zenon DEF Respond
<1>2. Registers(r) => /\ answer[r].session \in Session /\ who[r] \in Identity
                      /\ owner[answer[r].session] = who[r]
  BY <1>1 DEF Registers, AnswersOwn, TypeOK, Answer
<1>3. bound \in [Session -> Identity \cup {None}]
  BY <1>2 DEF TypeOK
<1>4. lives \in [Session -> -1 .. TTL]
  BY <1>2, RenewedTyped DEF TypeOK
<1>5. \A s \in Session : owner[s] # None /\ (binding[s] = owner[s] \/ (Registers(r) /\ s = answer[r].session))
                           => bound[s] = owner[s]
  BY <1>2 DEF TypeOK
<1>. HIDE DEF bound, lives
<1>6. -1 \in -1 .. TTL
  BY TTLAssumption
<1>7. /\ order' \in Seq(Session) /\ Len(order') <= Cap
      /\ RangeIn(order', IF Registers(r) THEN (Issued \cap Bound) \cup {answer[r].session}
                                         ELSE Issued \cap Bound)
  BY <1>0, <1>1, RemainingLemma
<1>8. RangeIn(order', {s \in Issued : bound[s] = owner[s]})
  <2>1. ASSUME NEW i \in 1 .. Len(order')
        PROVE  order'[i] \in {s \in Issued : bound[s] = owner[s]}
    <3>1. order'[i] \in Session
      BY <1>7
    <3>2. CASE Registers(r) /\ order'[i] = answer[r].session
      BY <1>2, <1>5, <3>1, <3>2, NoneAssumption DEF Issued
    <3>3. CASE ~(Registers(r) /\ order'[i] = answer[r].session)
      <4>1. order'[i] \in Issued \cap Bound
        BY <1>7, <3>3 DEF RangeIn
      <4>. QED BY <1>5, <4>1, NoneAssumption DEF Issued, Bound
    <3>. QED BY <3>2, <3>3
  <2>. QED BY <2>1 DEF RangeIn
<1>9. binding' \in [Session -> Identity \cup {None}] /\ left' \in [Session -> -1 .. TTL]
  BY <1>1, <1>3, <1>4, <1>6
<1>10. idle' \in [Session -> 0 .. TTL + 1] /\ newer' \in [Session -> SUBSET Session]
  BY <1>1, <1>2, UsedTyped DEF TypeOK
<1>11. closed' \subseteq Session /\ late' \in [Session -> SUBSET Request]
  <2>1. Drops(r) => sid[r] \in Session
    BY DEF Drops, TypeOK
  <2>2. late' \in [Session -> SUBSET Request]
    BY <1>1 DEF TypeOK, UnderWay
  <2>. QED BY <1>1, <2>1, <2>2 DEF TypeOK
<1>12. /\ phase' \in [Request -> {"idle", "called", "answered"}]
       /\ who' \in [Request -> Identity \cup {None}]
       /\ sid' \in [Request -> Session \cup {None}]
       /\ delete' \in [Request -> BOOLEAN]
       /\ answer' \in [Request -> Answer]
       /\ alive' \subseteq Session /\ owner' \in [Session -> Identity \cup {None}]
       /\ AnswersOwn'
       /\ \A q \in Request : phase'[q] # "idle" /\ sid'[q] # None => owner'[sid'[q]] = who'[q]
  BY <1>1, Leave
<1>13. TypeOK'
  BY <1>7, <1>9, <1>10, <1>11, <1>12 DEF TypeOK
<1>14. \A i \in 1 .. Len(order') : binding'[order'[i]] = owner'[order'[i]]
  <2>1. ASSUME NEW i \in 1 .. Len(order') PROVE binding'[order'[i]] = owner[order'[i]]
    <3>1. order'[i] \in Session /\ Contains(order', order'[i])
      BY <1>7 DEF Contains
    <3>2. bound[order'[i]] = owner[order'[i]]
      BY <1>8 DEF RangeIn
    <3>. QED BY <1>1, <3>1, <3>2
  <2>. QED BY <1>1, <2>1 DEF sdk
<1>15. OwnersOnly'
  BY <1>12, <1>14 DEF OwnersOnly
<1>16. RangeIn(order, Issued)'
  BY <1>1, <1>8 DEF RangeIn, Issued, sdk
<1>. QED BY <1>12, <1>13, <1>15, <1>16

LEMMA AbortStep ==
  ASSUME Inv, NEW r \in Request, Abort(r)
  PROVE  Inv'
<1>. USE DEF Inv
<1>1. /\ UNCHANGED <<middleware, sdk, idle, newer, closed>>
      /\ late' = [s \in Session |-> late[s] \ {r}]
  BY DEF Abort
<1>2. /\ phase' \in [Request -> {"idle", "called", "answered"}]
      /\ who' \in [Request -> Identity \cup {None}]
      /\ sid' \in [Request -> Session \cup {None}]
      /\ delete' \in [Request -> BOOLEAN]
      /\ answer' \in [Request -> Answer]
      /\ alive' \subseteq Session /\ owner' \in [Session -> Identity \cup {None}]
      /\ AnswersOwn'
      /\ \A q \in Request : phase'[q] # "idle" /\ sid'[q] # None => owner'[sid'[q]] = who'[q]
  BY Leave DEF Abort
<1>3. TypeOK'
  BY <1>1, <1>2 DEF TypeOK, middleware
<1>4. OwnersOnly' /\ RangeIn(order, Issued)'
  BY <1>1, <1>2 DEF OwnersOnly, RangeIn, Issued, middleware, sdk
<1>. QED BY <1>2, <1>3, <1>4

LEMMA AnswersStep ==
  ASSUME Inv, NEW r \in Request, NEW status \in {"ok", "accepted", "error"},
         NEW s \in Session \cup {None}, Answers(r, status, s), phase[r] = "called",
         alive' \subseteq Session, owner' \in [Session -> Identity \cup {None}],
         \A t \in Session : owner[t] # None => owner'[t] = owner[t],
         s # None => owner'[s] = who[r]
  PROVE  Inv'
<1>. USE DEF Inv
<1>1. /\ phase' = [phase EXCEPT ![r] = "answered"]
      /\ answer' = [answer EXCEPT ![r] = [status |-> status, session |-> s]]
      /\ UNCHANGED <<middleware, request, idle, newer, closed, late>>
  BY DEF Answers
<1>2. [status |-> status, session |-> s] \in Answer
  BY DEF Answer
<1>3. TypeOK'
  BY <1>1, <1>2 DEF TypeOK, middleware, request
<1>4. AnswersOwn'
  <2>. SUFFICES ASSUME NEW q \in Request
                PROVE  /\ phase'[q] # "idle" => who'[q] \in Identity
                       /\ answer'[q].session # None => /\ phase'[q] = "answered"
                                                       /\ owner'[answer'[q].session] = who'[q]
    BY DEF AnswersOwn
  <2>1. CASE q = r
    BY <1>1, <2>1 DEF AnswersOwn, TypeOK, request
  <2>2. CASE q # r
    <3>1. phase'[q] = phase[q] /\ answer'[q] = answer[q] /\ who'[q] = who[q]
      BY <1>1, <2>2 DEF TypeOK, request
    <3>2. answer[q].session \in Session \cup {None}
      BY DEF TypeOK, Answer
    <3>3. phase[q] = "answered" => who[q] # None
      BY NoneAssumption DEF AnswersOwn
    <3>. QED BY <3>1, <3>2, <3>3 DEF AnswersOwn
  <2>. QED BY <2>1, <2>2
<1>5. RangeIn(order, Issued)'
  BY <1>1, NoneAssumption DEF RangeIn, Issued, middleware
<1>6. OwnersOnly'
  <2>1. \A q \in Request : phase[q] # "idle" /\ sid[q] # None => owner[sid[q]] # None
    BY NoneAssumption DEF OwnersOnly, AnswersOwn
  <2>2. \A q \in Request : phase'[q] # "idle" => phase[q] # "idle"
    BY <1>1 DEF TypeOK
  <2>3. \A i \in 1 .. Len(order) : order[i] \in Session /\ owner[order[i]] # None
    BY NoneAssumption DEF RangeIn, Issued
  <2>. QED BY <1>1, <2>1, <2>2, <2>3 DEF OwnersOnly, TypeOK, middleware, request
<1>. QED BY <1>3, <1>4, <1>5, <1>6

LEMMA StepInv == Inv /\ [Next]_vars => Inv'
<1>. SUFFICES ASSUME Inv, [Next]_vars PROVE Inv'
  OBVIOUS
<1>0. TypeOK /\ OwnersOnly /\ AnswersOwn /\ RangeIn(order, Issued)
  BY DEF Inv
<1>1. ASSUME NEW r \in Request, NEW identity \in Identity, NEW s \in Session \cup {None},
             NEW isDelete \in BOOLEAN, Dispatch(r, identity, s, isDelete)
      PROVE  Inv'
  BY <1>1, DispatchStep
<1>2. ASSUME NEW r \in Request, Respond(r) PROVE Inv'
  BY <1>2, RespondStep
<1>3. ASSUME NEW r \in Request, Abort(r) PROVE Inv'
  BY <1>3, AbortStep
<1>4. ASSUME NEW r \in Request, NEW s \in Session, SdkCreates(r, s) PROVE Inv'
  <2>1. /\ phase[r] = "called" /\ owner[s] = None /\ Answers(r, "ok", s)
        /\ owner' = [owner EXCEPT ![s] = who[r]] /\ alive' = alive \cup {s}
    BY <1>4 DEF SdkCreates
  <2>2. /\ alive' \subseteq Session /\ owner' \in [Session -> Identity \cup {None}]
        /\ owner'[s] = who[r] /\ \A t \in Session : owner[t] # None => owner'[t] = owner[t]
    BY <1>0, <2>1 DEF TypeOK
  <2>. QED BY <2>1, <2>2, AnswersStep
<1>5. ASSUME NEW r \in Request, SdkServes(r) PROVE Inv'
  <2>1. PICK status \in {"ok", "accepted", "error"} : Answers(r, status, sid[r])
    BY <1>5 DEF SdkServes
  <2>2. /\ phase[r] = "called" /\ sid[r] \in Session /\ UNCHANGED sdk
        /\ owner[sid[r]] = who[r]
    BY <1>0, <1>5, NoneAssumption DEF SdkServes, TypeOK, OwnersOnly
  <2>. QED BY <1>0, <2>1, <2>2, AnswersStep DEF TypeOK, sdk
<1>6. ASSUME NEW r \in Request, SdkCloses(r) PROVE Inv'
  <2>1. /\ phase[r] = "called" /\ sid[r] \in Session /\ owner' = owner
        /\ alive' \subseteq Session /\ owner[sid[r]] = who[r] /\ Answers(r, "ok", sid[r])
    BY <1>0, <1>6, NoneAssumption DEF SdkCloses, TypeOK, OwnersOnly
  <2>. QED BY <1>0, <2>1, AnswersStep DEF TypeOK
<1>7. ASSUME NEW r \in Request, SdkRefuses(r) PROVE Inv'
  <2>1. PICK status \in {"ok", "error"} : Answers(r, status, None)
    BY <1>7 DEF SdkRefuses
  <2>2. phase[r] = "called" /\ UNCHANGED sdk
    BY <1>7 DEF SdkRefuses
  <2>. QED BY <1>0, <2>1, <2>2, AnswersStep DEF TypeOK, sdk
<1>8. ASSUME NEW s \in Session, SdkTimesOut(s) PROVE Inv'
  BY <1>0, <1>8 DEF SdkTimesOut, Inv, TypeOK, OwnersOnly, AnswersOwn, RangeIn, Issued,
                    middleware, request
<1>9. CASE Tick
  <2>1. left' \in [Session -> -1 .. TTL] /\ idle' \in [Session -> 0 .. TTL + 1]
    BY <1>0, <1>9, TTLAssumption DEF Tick, TypeOK
  <2>. QED BY <1>0, <1>9, <2>1 DEF Tick, Inv, TypeOK, OwnersOnly, AnswersOwn, RangeIn, Issued,
                                   request, sdk
<1>10. CASE UNCHANGED vars
  BY <1>0, <1>10 DEF vars, Inv, TypeOK, OwnersOnly, AnswersOwn, RangeIn, Issued,
                     middleware, request, sdk
<1>. QED
  BY <1>1, <1>2, <1>3, <1>4, <1>5, <1>6, <1>7, <1>8, <1>9, <1>10 DEF Next

(* Every variable of the middleware, its requests and the SDK keeps its type;   *)
(* in particular the cache never holds more than Cap sessions.                  *)
THEOREM TypeCorrect == Spec => []TypeOK
<1>1. Inv => TypeOK
  BY DEF Inv
<1>. QED BY <1>1, InitInv, StepInv, PTL DEF Spec

(* No request reaches a session of another identity, and no binding changes     *)
(* hands, whatever answers come late, get lost, evict or close sessions.        *)
THEOREM SessionsKeepTheirOwner == Spec => []OwnersOnly
<1>1. Inv => OwnersOnly
  BY DEF Inv
<1>. QED BY <1>1, InitInv, StepInv, PTL DEF Spec

-----------------------------------------------------------------------------
(* What the cache holds, in terms of what was used and what was closed.         *)

Distinct(keys) == \A i, j \in 1 .. Len(keys) : keys[i] = keys[j] => i = j

(* A key behind another was used since. *)
Recent(keys, since) == \A i, j \in 1 .. Len(keys) : i < j => keys[j] \in since[keys[i]]

(* The answer that creates a session is the first to name it. *)
Fresh(s, r) ==
  /\ ~Contains(order, s) /\ s \notin closed
  /\ \A q \in Request : /\ phase[q] # "idle" => sid[q] # s
                        /\ q # r => answer[q].session # s

OnlyAnswersOpen ==
  \A r \in Request :
    answer[r].session # None => \/ answer[r].session = sid[r]
                                \/ sid[r] = None /\ Fresh(answer[r].session, r)

(* A session the SDK has closed is named only by answers it gave before that.    *)
LateOnly == \A r \in Request : answer[r].session \in closed => r \in late[answer[r].session]

ClosedInv ==
  /\ closed \subseteq Issued /\ closed \cap alive = {}
  /\ LateOnly /\ OnlyAnswersOpen

(* An answer arrives once, and a session whose DELETE it accepts is served no more. *)
Settled ==
  \A r \in Request : /\ phase[r] # "answered" => answer[r] = NoAnswer
                     /\ Drops(r) => sid[r] \notin alive

(* A session is in the cache for as long as its last use is recent, until it is *)
(* dropped, or Cap others are used.                                             *)
Timed == \A s \in Session : Contains(order, s) => left[s] = TTL - idle[s]

Pushed ==
  \A s \in alive : idle[s] <= TTL /\ ~Contains(order, s) => Cardinality(newer[s]) >= Cap

RecentInv ==
  /\ \A s \in Session : IsFiniteSet(newer[s]) /\ (idle[s] <= TTL => s \in Issued)
  /\ Recent(order, newer) /\ Settled /\ Timed /\ Pushed

History == Distinct(order) /\ ClosedInv /\ RecentInv

LEMMA WithoutKeys ==
  ASSUME NEW keys \in Seq(Session), Distinct(keys), NEW s
  PROVE  /\ Distinct(Without(keys, s))
         /\ \A t : Contains(Without(keys, s), t) <=> Contains(keys, t) /\ t # s
         /\ \A since : Recent(keys, since) => Recent(Without(keys, s), since)
<1>1. Len(keys) \in Nat /\ DOMAIN keys = 1 .. Len(keys)  BY LenProperties
<1>2. CASE ~Contains(keys, s)
  <2>1. Without(keys, s) = keys  BY <1>2 DEF Without
  <2> QED  BY <1>2, <2>1
<1>3. CASE Contains(keys, s)
  <2> DEFINE i == CHOOSE j \in DOMAIN keys : keys[j] = s
             w == Without(keys, s)
  <2>1. i \in 1 .. Len(keys) /\ keys[i] = s  BY <1>1, <1>3 DEF Contains
  <2>2. w = RemoveAt(keys, i)  BY <1>3, Zenon DEF Without
  <2> HIDE DEF i
  <2>3. /\ RemoveAt(keys, i) \in Seq(Session) /\ Len(RemoveAt(keys, i)) = Len(keys) - 1
        /\ \A j \in 1 .. Len(keys) - 1 :
             RemoveAt(keys, i)[j] = IF j < i THEN keys[j] ELSE keys[j + 1]
    BY <2>1, RemoveAtLemma
  <2> HIDE DEF w
  <2>4. /\ w \in Seq(Session) /\ Len(w) = Len(keys) - 1 /\ DOMAIN w = 1 .. Len(w)
        /\ \A j \in 1 .. Len(w) : w[j] = IF j < i THEN keys[j] ELSE keys[j + 1]
    BY <2>2, <2>3, LenProperties
  <2>5. Distinct(w)
    BY <1>1, <2>1, <2>4 DEF Distinct
  <2>6. ASSUME NEW t PROVE Contains(w, t) <=> Contains(keys, t) /\ t # s
    <3>1. ASSUME NEW j \in 1 .. Len(w) PROVE Contains(keys, w[j]) /\ w[j] # s
      BY <1>1, <2>1, <2>4 DEF Distinct, Contains
    <3>2. ASSUME NEW j \in 1 .. Len(keys), keys[j] # s PROVE \E k \in 1 .. Len(w) : w[k] = keys[j]
      <4>1. CASE j < i
        <5>1. j \in 1 .. Len(w) /\ w[j] = keys[j]  BY <1>1, <2>1, <2>4, <4>1
        <5> QED  BY <5>1
      <4>2. CASE i < j
        <5>1. j - 1 \in 1 .. Len(w) /\ w[j - 1] = keys[j - 1 + 1] /\ j - 1 + 1 = j
          BY <1>1, <2>1, <2>4, <4>2
        <5> QED  BY <5>1
      <4>3. i # j  BY <2>1, <3>2
      <4> QED  BY <2>1, <4>1, <4>2, <4>3
    <3> QED  BY <1>1, <2>4, <3>1, <3>2 DEF Contains
  <2>7. ASSUME NEW since, Recent(keys, since) PROVE Recent(w, since)
    BY <1>1, <2>1, <2>4, <2>7 DEF Recent
  <2> QED  BY <2>5, <2>6, <2>7 DEF w
<1> QED  BY <1>2, <1>3

(* A use puts its session last. *)
LEMMA MoveToEndKeys ==
  ASSUME order \in Seq(Session), Distinct(order), NEW s \in Session
  PROVE  /\ MoveToEnd(s) \in Seq(Session) /\ Distinct(MoveToEnd(s))
         /\ \A t : Contains(MoveToEnd(s), t) <=> Contains(order, t) \/ t = s
         /\ newer \in [Session -> SUBSET Session] /\ Recent(order, newer) /\ Used(s) =>
              Recent(MoveToEnd(s), newer')
<1> DEFINE w == Without(order, s)
           m == MoveToEnd(s)
<1>1. RangeIn(order, Session)  BY DEF RangeIn
<1>2. /\ w \in Seq(Session) /\ Distinct(w)
      /\ \A t : Contains(w, t) <=> Contains(order, t) /\ t # s
      /\ Recent(order, newer) => Recent(w, newer)
  BY <1>1, WithoutLemma, WithoutKeys
<1>3. m = Append(w, s)  BY DEF MoveToEnd
<1> HIDE DEF w, m
<1>4. /\ m \in Seq(Session) /\ Len(m) = Len(w) + 1 /\ Len(w) \in Nat
      /\ DOMAIN m = 1 .. Len(m) /\ DOMAIN w = 1 .. Len(w)
      /\ m[Len(m)] = s /\ \A j \in 1 .. Len(w) : m[j] = w[j] /\ w[j] \in Session
  BY <1>2, <1>3
<1>5. \A j \in 1 .. Len(w) : w[j] # s  BY <1>2, <1>4 DEF Contains
<1>6. Distinct(m)  BY <1>2, <1>4, <1>5 DEF Distinct
<1>7. ASSUME NEW t PROVE Contains(m, t) <=> Contains(order, t) \/ t = s
  <2>1. Contains(m, t) <=> Contains(w, t) \/ t = s
    BY <1>4 DEF Contains
  <2> QED  BY <1>2, <2>1
<1>8. ASSUME newer \in [Session -> SUBSET Session], Recent(order, newer), Used(s)
      PROVE  Recent(m, newer')
  <2>1. Recent(w, newer)  BY <1>2, <1>8
  <2>2. \A t \in Session : t # s => newer'[t] = newer[t] \cup {s}  BY <1>8 DEF Used
  <2> SUFFICES ASSUME NEW i \in 1 .. Len(m), NEW j \in 1 .. Len(m), i < j
               PROVE  m[j] \in newer'[m[i]]
    BY DEF Recent
  <2>3. i \in 1 .. Len(w) /\ m[i] = w[i] /\ w[i] \in Session /\ w[i] # s
    BY <1>4, <1>5
  <2>4. CASE j = Len(m)  BY <1>4, <2>2, <2>3, <2>4
  <2>5. CASE j # Len(m)
    <3>1. j \in 1 .. Len(w) /\ m[j] = w[j]  BY <1>4, <2>5
    <3>2. w[j] \in newer[w[i]]  BY <2>1, <2>3, <3>1 DEF Recent
    <3> QED  BY <2>2, <2>3, <3>1, <3>2
  <2> QED  BY <2>4, <2>5
<1> QED  BY <1>4, <1>6, <1>7, <1>8 DEF m

(* What the bound takes has Cap others behind it. *)
LEMMA KeptKeys ==
  ASSUME NEW keys \in Seq(Session), Distinct(keys)
  PROVE  /\ Distinct(Kept(keys))
         /\ \A t : Contains(Kept(keys), t) => Contains(keys, t)
         /\ \A since : Recent(keys, since) => Recent(Kept(keys), since)
         /\ \A since, t : /\ Recent(keys, since) /\ IsFiniteSet(since[t])
                          /\ Contains(keys, t) /\ ~Contains(Kept(keys), t)
                          => Cardinality(since[t]) >= Cap
<1> DEFINE n == Len(keys)
           m == IF n > Cap THEN n - Cap + 1 ELSE 1
           k == Kept(keys)
<1>0. n \in Nat /\ Cap \in Nat \ {0} /\ DOMAIN keys = 1 .. n  BY CapAssumption, LenProperties
<1>1. m \in 1 .. n + 1 /\ n - m + 1 <= Cap  BY <1>0
<1>2. k = SubSeq(keys, m, n)  BY DEF Kept
<1>3. m # 1 => n - m + 1 = Cap  BY <1>0
<1> HIDE DEF m, k, n
<1>4. /\ k \in Seq(Session) /\ Len(k) = n - m + 1 /\ DOMAIN k = 1 .. Len(k)
      /\ \A j \in 1 .. Len(k) : k[j] = keys[m + j - 1]
  <2>1. /\ SubSeq(keys, m, Len(keys)) \in Seq(Session)
        /\ Len(SubSeq(keys, m, Len(keys))) = Len(keys) - m + 1
        /\ \A j \in 1 .. Len(keys) - m + 1 : SubSeq(keys, m, Len(keys))[j] = keys[m + j - 1]
    BY <1>1, SuffixLemma DEF n
  <2> QED  BY <1>2, <2>1, LenProperties DEF n
<1>5. \A j \in 1 .. Len(k) : m + j - 1 \in 1 .. n  BY <1>0, <1>1, <1>4
<1>6. Distinct(k)
  <2> SUFFICES ASSUME NEW i \in 1 .. Len(k), NEW j \in 1 .. Len(k), k[i] = k[j] PROVE i = j
    BY DEF Distinct
  <2>1. m + i - 1 \in 1 .. n /\ m + j - 1 \in 1 .. n  BY <1>5
  <2>2. keys[m + i - 1] = keys[m + j - 1]  BY <1>4
  <2>3. m + i - 1 = m + j - 1  BY <2>1, <2>2 DEF Distinct, n
  <2> QED  BY <1>1, <1>4, <2>3
<1>7. \A t : Contains(k, t) => Contains(keys, t)  BY <1>0, <1>4, <1>5 DEF Contains
<1>8. ASSUME NEW since, Recent(keys, since) PROVE Recent(k, since)
  BY <1>0, <1>1, <1>4, <1>5, <1>8 DEF Recent, n
<1>9. ASSUME NEW since, NEW t, Recent(keys, since), IsFiniteSet(since[t]),
             Contains(keys, t), ~Contains(k, t)
      PROVE  Cardinality(since[t]) >= Cap
  <2>1. PICK i \in 1 .. n : keys[i] = t  BY <1>0, <1>9 DEF Contains
  <2>2. i < m
    <3>1. SUFFICES ASSUME m <= i PROVE FALSE  BY <1>0, <1>1
    <3>2. i - m + 1 \in 1 .. Len(k) /\ m + (i - m + 1) - 1 = i  BY <1>0, <1>1, <1>4, <3>1
    <3>3. k[i - m + 1] = t  BY <1>4, <2>1, <3>2
    <3> QED  BY <1>4, <1>9, <3>2, <3>3 DEF Contains
  <2>3. n - m + 1 = Cap  BY <1>0, <1>1, <1>3, <2>2
  <2> DEFINE behind == {keys[j] : j \in m .. n}
             f == [j \in m .. n |-> keys[j]]
  <2>4. behind \subseteq since[t]
    <3>1. ASSUME NEW j \in m .. n PROVE keys[j] \in since[t]
      <4>1. j \in 1 .. Len(keys) /\ i \in 1 .. Len(keys) /\ i < j
        BY <1>0, <1>1, <2>2 DEF n
      <4> QED  BY <1>9, <2>1, <4>1 DEF Recent
    <3> QED  BY <3>1
  <2>5. f \in Bijection(m .. n, behind)
    <3>1. f \in [m .. n -> behind] /\ \A x \in behind : \E j \in m .. n : f[j] = x  OBVIOUS
    <3>2. \A a, b \in m .. n : f[a] = f[b] => a = b
      BY <1>0, <1>1 DEF Distinct, n
    <3> QED  BY <3>1, <3>2, Fun_IsBij
  <2>6. Cardinality(m .. n) = n - m + 1 /\ IsFiniteSet(m .. n)
    BY <1>0, <1>1, FS_Interval
  <2>7. Cardinality(behind) = Cap
    <3>1. ExistsBijection(m .. n, behind)  BY <2>5 DEF ExistsBijection
    <3> QED  BY <2>3, <2>6, <3>1, FS_Bijection
  <2>8. Cardinality(behind) <= Cardinality(since[t])  BY <1>9, <2>4, FS_Subset
  <2> QED  BY <2>7, <2>8
<1> QED  BY <1>6, <1>7, <1>8, <1>9 DEF k

-----------------------------------------------------------------------------
LEMMA InitHistory == Init => History
<1> SUFFICES ASSUME Init PROVE History  OBVIOUS
<1>1. order = <<>> /\ Len(order) = 0 /\ DOMAIN order = {}  BY DEF Init
<1>2. /\ Distinct(order) /\ Recent(order, newer)
      /\ \A s : ~Contains(order, s)
  BY <1>1 DEF Distinct, Recent, Contains
<1>3. closed = {} /\ alive = {} /\ \A r \in Request : answer[r] = NoAnswer /\ sid[r] = None
  BY DEF Init
<1>4. LateOnly /\ OnlyAnswersOpen /\ closed \subseteq Issued /\ closed \cap alive = {}
  BY <1>3 DEF LateOnly, OnlyAnswersOpen, NoAnswer
<1>5. Settled /\ Timed /\ Pushed
  BY <1>2, <1>3 DEF Settled, Timed, Pushed, Drops
<1>6. \A s \in Session : IsFiniteSet(newer[s]) /\ ~(idle[s] <= TTL)
  BY FS_EmptySet, TTLAssumption DEF Init
<1> QED  BY <1>2, <1>4, <1>5, <1>6 DEF History, ClosedInv, RecentInv

(* A use makes its session the most recent, and one more use recent of others.   *)
LEMMA UsedLemma ==
  ASSUME TypeOK, RecentInv, NEW s \in Issued, Used(s)
  PROVE  /\ \A t \in Session : IsFiniteSet(newer'[t]) /\ (idle'[t] <= TTL => t \in Issued)
         /\ \A t \in Session : t # s => idle'[t] = idle[t]
         /\ idle'[s] = 0
         /\ \A t \in Session : t # s /\ Cardinality(newer[t]) >= Cap => Cardinality(newer'[t]) >= Cap
<1>1. /\ idle' = [idle EXCEPT ![s] = 0]
      /\ \A t \in Session : newer'[t] = IF t = s THEN {} ELSE newer[t] \cup {s}
  BY DEF Used
<1>2. \A t \in Session : IsFiniteSet(newer[t]) /\ (idle[t] <= TTL => t \in Issued)
  BY DEF RecentInv
<1>3. s \in Session /\ idle'[s] = 0 /\ \A t \in Session : t # s => idle'[t] = idle[t]
  BY <1>1 DEF Issued, TypeOK
<1>4. ASSUME NEW t \in Session
      PROVE  /\ IsFiniteSet(newer'[t])
             /\ t # s /\ Cardinality(newer[t]) >= Cap => Cardinality(newer'[t]) >= Cap
  <2>1. CASE t = s  BY <1>1, <2>1, FS_EmptySet
  <2>2. CASE t # s
    <3>1. newer'[t] = newer[t] \cup {s} /\ IsFiniteSet(newer[t])  BY <1>1, <1>2, <2>2
    <3>2. /\ IsFiniteSet(newer'[t])
          /\ Cardinality(newer'[t]) = IF s \in newer[t] THEN Cardinality(newer[t])
                                      ELSE Cardinality(newer[t]) + 1
      BY <3>1, FS_AddElement
    <3>3. Cardinality(newer[t]) \in Nat  BY <3>1, FS_CardinalityType
    <3> QED  BY <3>2, <3>3, CapAssumption
  <2> QED  BY <2>1, <2>2
<1> QED  BY <1>2, <1>3, <1>4

(* Whatever a request is under way for was created for its identity. *)
LEMMA IssuedLemma ==
  ASSUME Inv
  PROVE  /\ \A r \in Request : phase[r] # "idle" /\ sid[r] # None => sid[r] \in Issued
         /\ \A r \in Request : answer[r].session # None => answer[r].session \in Issued
         /\ \A s : Contains(order, s) => s \in Issued
<1>1. TypeOK /\ OwnersOnly /\ AnswersOwn /\ RangeIn(order, Issued)  BY DEF Inv
<1>2. ASSUME NEW r \in Request, phase[r] # "idle", sid[r] # None PROVE sid[r] \in Issued
  BY <1>1, <1>2 DEF OwnersOnly, AnswersOwn, TypeOK, Issued
<1>3. ASSUME NEW r \in Request, answer[r].session # None PROVE answer[r].session \in Issued
  BY <1>1, <1>3 DEF AnswersOwn, TypeOK, Issued, Answer
<1>4. \A s : Contains(order, s) => s \in Issued
  BY <1>1 DEF RangeIn, Contains, TypeOK
<1> QED  BY <1>2, <1>3, <1>4

(* What an answer leaves in the cache, as RemainingLemma, and what it takes.     *)
LEMMA RemainingKeys ==
  ASSUME TypeOK, NEW r \in Request, Distinct(order), Recent(order, newer),
         \A t \in Session : IsFiniteSet(newer'[t]),
         IF Registers(r) THEN Used(answer[r].session) ELSE newer' = newer
  PROVE  LET a == answer[r].session
         IN  /\ Distinct(Remaining(r)) /\ Recent(Remaining(r), newer')
             /\ \A t : Contains(Remaining(r), t) =>
                         /\ Contains(order, t) \/ (Registers(r) /\ t = a)
                         /\ ~(Drops(r) /\ t = sid[r])
             /\ \A t \in Session : /\ Contains(order, t) \/ (Registers(r) /\ t = a)
                                   /\ ~Contains(Remaining(r), t)
                                   /\ ~(Drops(r) /\ t = sid[r])
                                   => Cardinality(newer'[t]) >= Cap
<1> DEFINE a == answer[r].session
           m == MoveToEnd(a)
           g == Registered(r)
<1>1. order \in Seq(Session) /\ newer \in [Session -> SUBSET Session]  BY DEF TypeOK
<1>2. /\ g \in Seq(Session) /\ Distinct(g) /\ Recent(g, newer')
      /\ \A t : Contains(g, t) => Contains(order, t) \/ (Registers(r) /\ t = a)
      /\ \A t \in Session : (Contains(order, t) \/ (Registers(r) /\ t = a)) /\ ~Contains(g, t)
                            => Cardinality(newer'[t]) >= Cap
  <2>1. CASE ~Registers(r)
    <3>1. g = order /\ newer' = newer  BY <2>1 DEF Registered
    <3> HIDE DEF a, g
    <3>2. g \in Seq(Session) /\ Distinct(g) /\ Recent(g, newer')  BY ONLY <1>1, <3>1, Distinct(order), Recent(order, newer)
    <3>3. \A t : Contains(g, t) <=> Contains(order, t)  BY ONLY <3>1
    <3> QED  BY ONLY <2>1, <3>2, <3>3
  <2>2. CASE Registers(r)
    <3>1. a \in Session /\ Used(a)  BY <2>2 DEF Registers, TypeOK, Answer
    <3>2. g = Kept(m)  BY <2>2 DEF Registered
    <3> HIDE DEF a, g
    <3>3. /\ m \in Seq(Session) /\ Distinct(m) /\ Recent(m, newer')
          /\ \A t : Contains(m, t) <=> Contains(order, t) \/ t = a
      BY <1>1, <3>1, MoveToEndKeys
    <3> HIDE DEF m
    <3>4. Kept(m) \in Seq(Session)
      <4>1. RangeIn(m, Session)  BY <3>3 DEF RangeIn
      <4> QED  BY <3>3, <4>1, KeptLemma
    <3>5. /\ Distinct(g) /\ Recent(g, newer')
          /\ \A t : Contains(g, t) => Contains(m, t)
          /\ \A t : IsFiniteSet(newer'[t]) /\ Contains(m, t) /\ ~Contains(g, t)
                    => Cardinality(newer'[t]) >= Cap
      BY <3>2, <3>3, KeptKeys
    <3>6. \A t \in Session : IsFiniteSet(newer'[t])  OBVIOUS
    <3>7. g \in Seq(Session)  BY <3>2, <3>4
    <3> QED  BY ONLY <2>2, <3>3, <3>5, <3>6, <3>7
  <2> QED  BY <2>1, <2>2
<1> HIDE DEF a, g
<1>3. CASE ~Drops(r)
  <2>1. Remaining(r) = g  BY <1>3 DEF Remaining, g
  <2> QED  BY <1>2, <1>3, <2>1 DEF a
<1>4. CASE Drops(r)
  <2>1. Remaining(r) = Without(g, sid[r])  BY <1>4 DEF Remaining, g
  <2>2. /\ Distinct(Without(g, sid[r])) /\ Recent(Without(g, sid[r]), newer')
        /\ \A t : Contains(Without(g, sid[r]), t) <=> Contains(g, t) /\ t # sid[r]
    BY <1>2, WithoutKeys
  <2> QED  BY <1>2, <1>4, <2>1, <2>2 DEF a
<1> QED  BY <1>3, <1>4

LEMMA DispatchHistory ==
  ASSUME Inv, History, NEW r \in Request, NEW identity \in Identity, NEW s \in Session \cup {None},
         NEW isDelete \in BOOLEAN, Dispatch(r, identity, s, isDelete)
  PROVE  History' /\ ComesBackLate
<1>1. /\ phase[r] = "idle" /\ phase' = [phase EXCEPT ![r] = "called"]
      /\ sid' = [sid EXCEPT ![r] = s] /\ delete' = [delete EXCEPT ![r] = isDelete]
      /\ UNCHANGED <<answer, alive, owner, closed, late>>
  BY DEF Dispatch, sdk
<1>2. TypeOK /\ ClosedInv /\ RecentInv /\ Distinct(order)  BY DEF Inv, History
<1>3. /\ Distinct(order')
      /\ \A t : Contains(order', t) <=> Contains(order, t)
      /\ RecentInv'
      /\ s # None => Contains(order, s)
  <2>1. Settled'
    <3>1. answer[r] = NoAnswer  BY <1>1, <1>2 DEF RecentInv, Settled
    <3> QED  BY <1>1, <1>2, <3>1 DEF RecentInv, Settled, Drops, TypeOK, NoAnswer
  <2>2. CASE s = None
    <3>1. UNCHANGED <<order, left, idle, newer>>  BY <2>2 DEF Dispatch, middleware
    <3> QED  BY <1>1, <1>2, <2>1, <2>2, <3>1 DEF RecentInv, Timed, Pushed, Recent, Distinct, Issued
  <2>3. CASE s # None
    <3>1. /\ s \in Session /\ Contains(order, s) /\ Used(s)
          /\ order' = MoveToEnd(s) /\ left' = [left EXCEPT ![s] = TTL]
      BY <2>3 DEF Dispatch, Admits, Renewed
    <3>2. s \in Issued  BY <3>1, IssuedLemma
    <3>3. /\ Distinct(order') /\ Recent(order', newer')
          /\ \A t : Contains(order', t) <=> Contains(order, t)
      BY <1>2, <3>1, MoveToEndKeys DEF TypeOK, RecentInv
    <3>4. /\ \A t \in Session : IsFiniteSet(newer'[t]) /\ (idle'[t] <= TTL => t \in Issued)
          /\ \A t \in Session : t # s => idle'[t] = idle[t]
          /\ idle'[s] = 0
          /\ \A t \in Session : t # s /\ Cardinality(newer[t]) >= Cap => Cardinality(newer'[t]) >= Cap
      BY <1>2, <3>1, <3>2, UsedLemma
    <3>5. Timed'
      BY <1>2, <3>1, <3>3, <3>4, TTLAssumption DEF RecentInv, Timed, TypeOK
    <3>6. Pushed'
      BY <1>1, <1>2, <3>1, <3>3, <3>4 DEF RecentInv, Pushed, TypeOK
    <3> QED  BY <1>1, <2>1, <3>1, <3>3, <3>4, <3>5, <3>6 DEF RecentInv, Issued
  <2> QED  BY <2>2, <2>3
<1>4. ComesBackLate
  BY <1>1, <1>3 DEF ComesBackLate
<1>5. LateOnly' /\ closed' \cap alive' = {}
  BY <1>1, <1>2 DEF ClosedInv, LateOnly
<1>6. OnlyAnswersOpen'
  <2> SUFFICES ASSUME NEW q \in Request, answer[q].session # None
               PROVE  \/ answer[q].session = sid'[q]
                      \/ sid'[q] = None /\ Fresh(answer[q].session, q)'
    BY <1>1 DEF OnlyAnswersOpen
  <2>1. q # r  BY <1>1, <1>2 DEF RecentInv, Settled, NoAnswer
  <2>2. sid'[q] = sid[q]  BY <1>1, <2>1
  <2>3. CASE answer[q].session = sid[q]  BY <2>2, <2>3
  <2>4. CASE sid[q] = None /\ Fresh(answer[q].session, q)
    <3>1. Fresh(answer[q].session, q)'
      BY <1>1, <1>2, <1>3, <2>4 DEF Fresh, TypeOK
    <3> QED  BY <2>2, <2>4, <3>1
  <2> QED  BY <1>2, <2>3, <2>4 DEF ClosedInv, OnlyAnswersOpen
<1> QED  BY <1>1, <1>2, <1>3, <1>4, <1>5, <1>6 DEF History, ClosedInv, Issued

LEMMA RespondHistory ==
  ASSUME Inv, History, NEW r \in Request, Respond(r)
  PROVE  History' /\ ComesBackLate
<1> DEFINE a == answer[r].session
           lives == IF Registers(r) THEN Renewed(a) ELSE left
<1>1. /\ phase[r] = "answered"
      /\ order' = Remaining(r)
      /\ left' = [s \in Session |-> IF Contains(order', s) THEN lives[s] ELSE -1]
      /\ IF Registers(r) THEN Used(a) ELSE UNCHANGED <<idle, newer>>
      /\ closed' = IF Drops(r) THEN closed \cup {sid[r]} ELSE closed
      /\ late' = [s \in Session |-> IF Drops(r) /\ s = sid[r] THEN UnderWay(s, r) ELSE late[s] \ {r}]
      /\ phase' = [phase EXCEPT ![r] = "idle"]
      /\ sid' = [sid EXCEPT ![r] = None]
      /\ delete' = [delete EXCEPT ![r] = FALSE]
      /\ answer' = [answer EXCEPT ![r] = NoAnswer]
      /\ UNCHANGED <<alive, owner>>
  BY Zenon DEF Respond, sdk
<1>2. TypeOK /\ ClosedInv /\ RecentInv /\ Distinct(order)  BY DEF Inv, History
<1>3. /\ Registers(r) => a \in Issued /\ a # None
      /\ Drops(r) => sid[r] \in Issued /\ sid[r] \notin alive
      /\ Issued' = Issued
  BY <1>1, <1>2, IssuedLemma DEF Registers, Drops, RecentInv, Settled, Issued
<1>4. Issued \subseteq Session  BY DEF Issued
<1> HIDE DEF a
<1>5. /\ \A t \in Session : IsFiniteSet(newer'[t]) /\ (idle'[t] <= TTL => t \in Issued)
      /\ \A t \in Session : ~(Registers(r) /\ t = a) =>
           /\ idle'[t] = idle[t]
           /\ Cardinality(newer[t]) >= Cap => Cardinality(newer'[t]) >= Cap
      /\ Registers(r) => idle'[a] = 0
  <2>1. CASE Registers(r)  BY <1>1, <1>2, <1>3, <2>1, UsedLemma
  <2>2. CASE ~Registers(r)  BY <1>1, <1>2, <2>2 DEF RecentInv
  <2> QED  BY <2>1, <2>2
<1>6. /\ Distinct(order') /\ Recent(order', newer')
      /\ \A t : Contains(order', t) =>
                  /\ Contains(order, t) \/ (Registers(r) /\ t = a)
                  /\ ~(Drops(r) /\ t = sid[r])
      /\ \A t \in Session : /\ Contains(order, t) \/ (Registers(r) /\ t = a)
                            /\ ~Contains(order', t)
                            /\ ~(Drops(r) /\ t = sid[r])
                            => Cardinality(newer'[t]) >= Cap
  <2>1. IF Registers(r) THEN Used(answer[r].session) ELSE newer' = newer  BY <1>1 DEF a
  <2>2. Recent(order, newer)  BY <1>2 DEF RecentInv
  <2> QED  BY <1>1, <1>2, <1>5, <2>1, <2>2, RemainingKeys DEF a
<1>7. Timed'
  <2> SUFFICES ASSUME NEW s \in Session, Contains(order', s)
               PROVE  left'[s] = TTL - idle'[s]
    BY DEF Timed
  <2>1. left'[s] = lives[s]  BY <1>1
  <2>2. CASE Registers(r) /\ s = a
    <3>1. left \in [Session -> -1 .. TTL]  BY <1>2 DEF TypeOK
    <3>2. lives = [left EXCEPT ![s] = TTL]  BY <2>2 DEF Renewed
    <3>3. lives[s] = TTL  BY ONLY <3>1, <3>2, s \in Session
    <3>4. idle'[s] = 0  BY <1>5, <2>2
    <3> QED  BY <2>1, <3>3, <3>4, TTLAssumption
  <2>3. CASE ~(Registers(r) /\ s = a)
    <3>1. Contains(order, s)  BY <1>6, <2>3
    <3>2. lives[s] = left[s]  BY <2>3 DEF Renewed, TypeOK
    <3> QED  BY <1>2, <1>5, <2>1, <2>3, <3>1, <3>2 DEF RecentInv, Timed
  <2> QED  BY <2>2, <2>3
<1> HIDE DEF lives
<1>8. Pushed'
  <2> SUFFICES ASSUME NEW s \in alive, idle'[s] <= TTL, ~Contains(order', s)
               PROVE  Cardinality(newer'[s]) >= Cap
    BY <1>1 DEF Pushed
  <2>1. s \in Session /\ ~(Drops(r) /\ s = sid[r])  BY <1>2, <1>3 DEF TypeOK
  <2>2. CASE Contains(order, s) \/ (Registers(r) /\ s = a)  BY <1>6, <2>1, <2>2
  <2>3. CASE ~(Contains(order, s) \/ (Registers(r) /\ s = a))
    BY <1>2, <1>5, <2>1, <2>3 DEF RecentInv, Pushed
  <2> QED  BY <2>2, <2>3
<1>9. Settled'
  BY <1>1, <1>2 DEF RecentInv, Settled, Drops, TypeOK, NoAnswer
<1>10. RecentInv'  BY <1>3, <1>5, <1>6, <1>7, <1>8, <1>9 DEF RecentInv
<1>11. /\ closed \subseteq closed' /\ closed' \cap alive' = {}
       /\ \A s : s \in closed' /\ ~(Drops(r) /\ s = sid[r]) => s \in closed
       /\ closed' \subseteq Issued
  BY <1>1, <1>2, <1>3 DEF ClosedInv
<1>12. ComesBackLate
  <2> SUFFICES ASSUME NEW s \in closed', Contains(order', s)
               PROVE  /\ s \in closed
                      /\ \/ Contains(order, s)
                         \/ \E q \in late[s] : phase[q] = "answered" /\ phase'[q] = "idle"
    BY DEF ComesBackLate
  <2>1. s \in closed /\ (Contains(order, s) \/ (Registers(r) /\ s = a))  BY <1>6, <1>11
  <2>2. CASE Registers(r) /\ s = a
    <3>1. r \in late[s]  BY <1>2, <2>1, <2>2 DEF ClosedInv, LateOnly, a
    <3>2. phase'[r] = "idle"  BY <1>1, <1>2 DEF TypeOK
    <3> QED  BY <1>1, <2>1, <3>1, <3>2
  <2> QED  BY <2>1, <2>2
<1>13. LateOnly'
  <2> SUFFICES ASSUME NEW q \in Request, answer'[q].session \in closed'
               PROVE  q \in late'[answer'[q].session]
    BY DEF LateOnly
  <2> DEFINE s == answer[q].session
  <2>1. q # r /\ answer'[q] = answer[q]
    <3>1. None \notin closed'  BY <1>4, <1>11, NoneAssumption
    <3> QED  BY <1>1, <1>2, <3>1 DEF TypeOK, NoAnswer
  <2>2. s \in closed' /\ s \in Session /\ s # None
    BY <1>4, <1>11, <2>1, NoneAssumption
  <2>3. s = sid[q] \/ (sid[q] = None /\ Fresh(s, q))
    BY <1>2, <2>2 DEF ClosedInv, OnlyAnswersOpen
  <2>4. s \in closed => q \in late[s]  BY <1>2 DEF ClosedInv, LateOnly
  <2>5. phase[q] # "idle"  BY <1>2, <2>2 DEF RecentInv, Settled, NoAnswer
  <2> HIDE DEF s
  <2>6. CASE Drops(r) /\ s = sid[r]
    <3>1. s = sid[q]  BY <1>1, <2>3, <2>6 DEF Fresh
    <3>2. q \in UnderWay(s, r)  BY <2>1, <2>5, <3>1 DEF UnderWay
    <3> QED  BY <1>1, <2>1, <2>2, <2>6, <3>2 DEF s
  <2>7. CASE ~(Drops(r) /\ s = sid[r])
    <3>1. s \in closed  BY <1>11, <2>2, <2>7
    <3>2. late'[s] = late[s] \ {r}  BY <1>1, <2>2, <2>7
    <3> QED  BY <2>1, <2>4, <3>1, <3>2 DEF s
  <2> QED  BY <2>6, <2>7
<1>14. OnlyAnswersOpen'
  <2> SUFFICES ASSUME NEW q \in Request, answer'[q].session # None
               PROVE  \/ answer'[q].session = sid'[q]
                      \/ sid'[q] = None /\ Fresh(answer[q].session, q)'
    BY DEF OnlyAnswersOpen
  <2> DEFINE s == answer[q].session
  <2>1. q # r  BY <1>1, <1>2 DEF TypeOK, NoAnswer
  <2>2. answer'[q] = answer[q] /\ sid'[q] = sid[q] /\ s # None  BY <1>1, <2>1
  <2>3. s = sid[q] \/ (sid[q] = None /\ Fresh(s, q))
    BY <1>2, <2>2 DEF ClosedInv, OnlyAnswersOpen
  <2>4. s \in Session  BY <2>2, <1>2 DEF TypeOK, Answer
  <2> HIDE DEF s
  <2>5. ASSUME sid[q] = None, Fresh(s, q) PROVE Fresh(answer[q].session, q)'
    <3>1. s # sid[r] /\ s # a  BY <1>1, <2>1, <2>5 DEF Fresh, a
    <3>2. ~Contains(order', s) /\ s \notin closed'  BY <1>6, <1>11, <2>5, <3>1 DEF Fresh
    <3>3. \A p \in Request : /\ phase'[p] # "idle" => sid'[p] # s
                             /\ p # q => answer'[p].session # s
      <4> TAKE p \in Request
      <4>1. CASE p = r  BY <1>1, <1>2, <2>4, <4>1, NoneAssumption DEF TypeOK, NoAnswer
      <4>2. CASE p # r
        <5>1. phase'[p] = phase[p] /\ sid'[p] = sid[p] /\ answer'[p] = answer[p]
          BY <1>1, <4>2
        <5> QED  BY <2>5, <5>1 DEF Fresh
      <4> QED  BY <4>1, <4>2
    <3>4. answer'[q].session = s  BY <2>2 DEF s
    <3> QED  BY <3>2, <3>3, <3>4 DEF Fresh
  <2> QED  BY <2>2, <2>3, <2>5 DEF s
<1>15. ClosedInv'  BY <1>3, <1>11, <1>12, <1>13, <1>14 DEF ClosedInv
<1> QED  BY <1>6, <1>10, <1>12, <1>15 DEF History

LEMMA AbortHistory ==
  ASSUME Inv, History, NEW r \in Request, Abort(r)
  PROVE  History'
<1>1. /\ phase' = [phase EXCEPT ![r] = "idle"]
      /\ sid' = [sid EXCEPT ![r] = None]
      /\ delete' = [delete EXCEPT ![r] = FALSE]
      /\ answer' = [answer EXCEPT ![r] = NoAnswer]
      /\ late' = [s \in Session |-> late[s] \ {r}]
      /\ UNCHANGED <<order, left, alive, owner, idle, newer, closed>>
  BY DEF Abort, middleware, sdk
<1>2. TypeOK /\ ClosedInv /\ RecentInv /\ Distinct(order)  BY DEF Inv, History
<1>3. Settled'
  BY <1>1, <1>2 DEF RecentInv, Settled, Drops, TypeOK, NoAnswer
<1>4. RecentInv'
  BY <1>1, <1>2, <1>3 DEF RecentInv, Issued, Recent, Timed, Pushed
<1>5. LateOnly'
  <2> SUFFICES ASSUME NEW q \in Request, answer'[q].session \in closed
               PROVE  q \in late'[answer'[q].session]
    BY <1>1 DEF LateOnly
  <2>1. None \notin closed  BY <1>2, NoneAssumption DEF TypeOK
  <2>2. q # r /\ answer'[q] = answer[q]  BY <1>1, <1>2, <2>1 DEF TypeOK, NoAnswer
  <2>3. q \in late[answer[q].session]  BY <1>2, <2>2 DEF ClosedInv, LateOnly
  <2> QED  BY <1>1, <1>2, <2>2, <2>3 DEF TypeOK
<1>6. OnlyAnswersOpen'
  <2> SUFFICES ASSUME NEW q \in Request, answer'[q].session # None
               PROVE  \/ answer'[q].session = sid'[q]
                      \/ sid'[q] = None /\ Fresh(answer[q].session, q)'
    BY DEF OnlyAnswersOpen
  <2> DEFINE s == answer[q].session
  <2>1. q # r  BY <1>1, <1>2 DEF TypeOK, NoAnswer
  <2>2. answer'[q] = answer[q] /\ sid'[q] = sid[q] /\ s # None  BY <1>1, <2>1
  <2>3. s = sid[q] \/ (sid[q] = None /\ Fresh(s, q))
    BY <1>2, <2>2 DEF ClosedInv, OnlyAnswersOpen
  <2>4. s \in Session  BY <2>2, <1>2 DEF TypeOK, Answer
  <2> HIDE DEF s
  <2>5. ASSUME sid[q] = None, Fresh(s, q) PROVE Fresh(answer[q].session, q)'
    <3>1. \A p \in Request : /\ phase'[p] # "idle" => sid'[p] # s
                             /\ p # q => answer'[p].session # s
      <4> TAKE p \in Request
      <4>1. CASE p = r  BY <1>1, <1>2, <2>4, <4>1, NoneAssumption DEF TypeOK, NoAnswer
      <4>2. CASE p # r
        <5>1. phase'[p] = phase[p] /\ sid'[p] = sid[p] /\ answer'[p] = answer[p]
          BY <1>1, <4>2
        <5> QED  BY <2>5, <5>1 DEF Fresh
      <4> QED  BY <4>1, <4>2
    <3>2. answer'[q].session = s  BY <2>2 DEF s
    <3> QED  BY <1>1, <2>5, <3>1, <3>2 DEF Fresh
  <2> QED  BY <2>2, <2>3, <2>5 DEF s
<1> QED  BY <1>1, <1>2, <1>4, <1>5, <1>6 DEF History, ClosedInv, Issued

(* The SDK answers: a session it creates was never named before. *)
LEMMA AnswersHistory ==
  ASSUME Inv, History, NEW r \in Request, NEW status \in {"ok", "accepted", "error"},
         NEW s \in Session \cup {None}, Answers(r, status, s), phase[r] = "called",
         Issued \subseteq Issued', alive' \subseteq alive \cup (Session \ Issued),
         s # None => (s = sid[r] /\ s \in alive) \/ (sid[r] = None /\ s \notin Issued),
         delete[r] /\ sid[r] # None /\ status # "error" => sid[r] \notin alive'
  PROVE  History'
<1>1. /\ phase' = [phase EXCEPT ![r] = "answered"]
      /\ answer' = [answer EXCEPT ![r] = [status |-> status, session |-> s]]
      /\ UNCHANGED <<order, left, sid, delete, idle, newer, closed, late>>
  BY DEF Answers, middleware, request
<1>2. TypeOK /\ ClosedInv /\ RecentInv /\ Distinct(order)  BY DEF Inv, History
<1>3. /\ \A q \in Request : phase[q] # "idle" /\ sid[q] # None => sid[q] \in Issued
      /\ \A q \in Request : answer[q].session # None => answer[q].session \in Issued
      /\ \A t : Contains(order, t) => t \in Issued
  BY IssuedLemma
<1>4. /\ answer'[r].status = status /\ answer'[r].session = s /\ phase'[r] = "answered"
      /\ \A q \in Request : q # r => answer'[q] = answer[q] /\ phase'[q] = phase[q]
  BY <1>1, <1>2 DEF TypeOK
<1>5. Settled'
  <2> SUFFICES ASSUME NEW q \in Request
               PROVE  /\ phase'[q] # "answered" => answer'[q] = NoAnswer
                      /\ Drops(q)' => sid[q] \notin alive'
    BY <1>1 DEF Settled
  <2>1. CASE q = r  BY <1>1, <1>4, <2>1 DEF Drops
  <2>2. CASE q # r
    <3>1. Drops(q)' <=> Drops(q)  BY <1>1, <1>4, <2>2 DEF Drops
    <3>2. Drops(q) => sid[q] \in Issued /\ sid[q] \notin alive
      BY <1>2, <1>3 DEF RecentInv, Settled, Drops, NoAnswer
    <3> QED  BY <1>2, <1>4, <2>2, <3>1, <3>2 DEF RecentInv, Settled
  <2> QED  BY <2>1, <2>2
<1>6. Pushed'
  BY <1>1, <1>2 DEF RecentInv, Pushed
<1>7. RecentInv'
  BY <1>1, <1>2, <1>5, <1>6 DEF RecentInv, Recent, Timed
<1>8. LateOnly' /\ closed' \cap alive' = {}
  <2>1. s \notin closed  BY <1>2, NoneAssumption DEF ClosedInv, TypeOK
  <2>2. LateOnly'  BY <1>1, <1>2, <1>4, <2>1 DEF ClosedInv, LateOnly
  <2> QED  BY <1>1, <1>2, <2>2 DEF ClosedInv
<1>9. OnlyAnswersOpen'
  <2> SUFFICES ASSUME NEW q \in Request, answer'[q].session # None
               PROVE  \/ answer'[q].session = sid[q]
                      \/ sid[q] = None /\ Fresh(answer[q].session, q)'
    BY <1>1 DEF OnlyAnswersOpen
  <2>1. CASE q = r
    <3>1. CASE s = sid[r]  BY <1>4, <2>1, <3>1
    <3>2. CASE sid[r] = None /\ s \notin Issued
      <4>1. /\ ~Contains(order, s) /\ s \notin closed /\ s # None
            /\ \A p \in Request : /\ phase[p] # "idle" => sid[p] # s
                                  /\ answer[p].session # s
        BY <1>2, <1>3, <1>4, <2>1, <3>2 DEF ClosedInv
      <4>2. Fresh(answer[q].session, q)'  BY <1>1, <1>4, <2>1, <4>1 DEF Fresh
      <4> QED  BY <2>1, <3>2, <4>2
    <3> QED  BY <1>4, <2>1, <3>1, <3>2
  <2>2. CASE q # r
    <3> DEFINE a == answer[q].session
    <3>1. answer'[q] = answer[q] /\ a # None /\ a \in Issued  BY <1>3, <1>4, <2>2
    <3>2. a = sid[q] \/ (sid[q] = None /\ Fresh(a, q))
      BY <1>2, <3>1 DEF ClosedInv, OnlyAnswersOpen
    <3> HIDE DEF a
    <3>3. ASSUME Fresh(a, q) PROVE Fresh(answer[q].session, q)'
      <4>1. s # a  BY <3>1, <3>3 DEF Fresh
      <4>2. \A p \in Request : /\ phase'[p] # "idle" => sid'[p] # a
                               /\ p # q => answer'[p].session # a
        BY <1>1, <1>4, <3>3, <4>1 DEF Fresh
      <4>3. answer'[q].session = a  BY <3>1 DEF a
      <4> QED  BY <1>1, <3>3, <4>2, <4>3 DEF Fresh
    <3> QED  BY <3>1, <3>2, <3>3 DEF a
  <2> QED  BY <2>1, <2>2
<1> QED  BY <1>1, <1>2, <1>7, <1>8, <1>9 DEF History, ClosedInv

LEMMA TickHistory ==
  ASSUME Inv, History, Tick
  PROVE  History'
<1>1. /\ left' = [s \in Session |-> IF left[s] >= 0 THEN left[s] - 1 ELSE -1]
      /\ idle' = [s \in Session |-> IF idle[s] <= TTL THEN idle[s] + 1 ELSE idle[s]]
      /\ UNCHANGED <<order, binding, phase, who, sid, delete, answer, alive, owner, newer, closed, late>>
  BY DEF Tick, request, sdk
<1>2. TypeOK /\ ClosedInv /\ RecentInv /\ Distinct(order)  BY DEF Inv, History
<1>3. \A s \in Session : /\ left[s] \in -1 .. TTL /\ idle[s] \in 0 .. TTL + 1
                         /\ idle'[s] <= TTL => idle[s] <= TTL
  BY <1>1, <1>2, TTLAssumption DEF TypeOK
<1>4. Timed'
  <2> SUFFICES ASSUME NEW s \in Session, Contains(order, s) PROVE left'[s] = TTL - idle'[s]
    BY <1>1 DEF Timed
  <2>1. left[s] = TTL - idle[s]  BY <1>2 DEF RecentInv, Timed
  <2> QED  BY <1>1, <1>3, <2>1, TTLAssumption
<1>5. Settled'  BY <1>1, <1>2 DEF RecentInv, Settled, Drops
<1>6. Pushed'  BY <1>1, <1>2, <1>3 DEF RecentInv, Pushed, TypeOK
<1>7. RecentInv'  BY <1>1, <1>2, <1>3, <1>4, <1>5, <1>6 DEF RecentInv, Recent, Issued
<1>8. ClosedInv'
  BY <1>1, <1>2 DEF ClosedInv, LateOnly, OnlyAnswersOpen, Fresh, Issued
<1> QED  BY <1>1, <1>2, <1>7, <1>8 DEF History

LEMMA StepHistory == Inv /\ History /\ [Next]_vars => History' /\ ComesBackLate
<1> SUFFICES ASSUME Inv, History, [Next]_vars PROVE History' /\ ComesBackLate
  OBVIOUS
<1>0. TypeOK /\ OwnersOnly /\ AnswersOwn  BY DEF Inv
<1>1. ASSUME NEW r \in Request, NEW identity \in Identity, NEW s \in Session \cup {None},
             NEW isDelete \in BOOLEAN, Dispatch(r, identity, s, isDelete)
      PROVE  History' /\ ComesBackLate
  BY <1>1, DispatchHistory
<1>2. ASSUME NEW r \in Request, Respond(r) PROVE History' /\ ComesBackLate
  BY <1>2, RespondHistory
<1>3. ASSUME NEW r \in Request, Abort(r) PROVE History'
  BY <1>3, AbortHistory
<1>4. ASSUME NEW r \in Request, NEW s \in Session, SdkCreates(r, s) PROVE History'
  <2>1. /\ phase[r] = "called" /\ sid[r] = None /\ owner[s] = None /\ Answers(r, "ok", s)
        /\ owner' = [owner EXCEPT ![s] = who[r]] /\ alive' = alive \cup {s}
    BY <1>4 DEF SdkCreates
  <2>2. s \notin Issued /\ Issued \subseteq Issued'
    BY <1>0, <2>1, NoneAssumption DEF Issued, TypeOK
  <2> QED  BY <2>1, <2>2, AnswersHistory
<1>5. ASSUME NEW r \in Request, SdkServes(r) PROVE History'
  <2>1. PICK status \in {"ok", "accepted", "error"} : Answers(r, status, sid[r])
    BY <1>5 DEF SdkServes
  <2>2. /\ phase[r] = "called" /\ ~delete[r] /\ alive' = alive /\ Issued' = Issued
        /\ sid[r] \in Session \cup {None} /\ sid[r] \in alive
    BY <1>0, <1>5 DEF SdkServes, sdk, Issued, TypeOK
  <2> QED  BY <2>1, <2>2, AnswersHistory
<1>6. ASSUME NEW r \in Request, SdkCloses(r) PROVE History'
  <2>1. /\ phase[r] = "called" /\ alive' = alive \ {sid[r]} /\ Issued' = Issued
        /\ sid[r] \in Session \cup {None} /\ sid[r] \in alive /\ Answers(r, "ok", sid[r])
    BY <1>0, <1>6 DEF SdkCloses, Issued, TypeOK
  <2> QED  BY <2>1, AnswersHistory
<1>7. ASSUME NEW r \in Request, SdkRefuses(r) PROVE History'
  <2>1. PICK status \in {"ok", "error"} : /\ Answers(r, status, None)
                                          /\ status = "ok" => sid[r] = None
    BY <1>7 DEF SdkRefuses
  <2>2. phase[r] = "called" /\ alive' = alive /\ Issued' = Issued
    BY <1>7 DEF SdkRefuses, sdk, Issued
  <2> QED  BY <2>1, <2>2, AnswersHistory
<1>8. ASSUME NEW s \in Session, SdkTimesOut(s) PROVE History'
  BY <1>8 DEF SdkTimesOut, History, ClosedInv, LateOnly,
              OnlyAnswersOpen, Fresh, RecentInv, Recent, Settled, Drops, Timed, Pushed,
              Distinct, Issued, middleware, request
<1>9. ASSUME Tick PROVE History'  BY <1>9, TickHistory
<1>10. ASSUME UNCHANGED vars PROVE History'
  BY <1>10 DEF vars, History, ClosedInv, LateOnly,
               OnlyAnswersOpen, Fresh, RecentInv, Recent, Settled, Drops, Timed, Pushed,
               Distinct, Issued, middleware, request, sdk
<1>11. UNCHANGED <<order, closed>> => ComesBackLate
  BY DEF ComesBackLate
<1>12. ASSUME NEW r \in Request,
              \/ Abort(r) \/ \E s \in Session : SdkCreates(r, s)
              \/ SdkServes(r) \/ SdkCloses(r) \/ SdkRefuses(r)
       PROVE  UNCHANGED <<order, closed>>
  BY <1>12 DEF Abort, SdkCreates, SdkServes, SdkCloses, SdkRefuses, Answers, middleware
<1>13. ASSUME (\E s \in Session : SdkTimesOut(s)) \/ Tick \/ UNCHANGED vars
       PROVE  UNCHANGED <<order, closed>>
  BY <1>13 DEF SdkTimesOut, Tick, vars, middleware
<1> QED
  BY <1>1, <1>2, <1>3, <1>4, <1>5, <1>6, <1>7, <1>8, <1>9, <1>10, <1>11, <1>12, <1>13
  DEF Next

(* Neither the bound nor the clock ever takes a session that is under way: one  *)
(* that was used within the lifetime and that fewer than Cap others were used   *)
(* since admits its owner, however many requests, identities and sessions.      *)
THEOREM SessionsStayWithTheirOwner == Spec => []OwnerKeepsSession
<1>1. Inv /\ History => OwnerKeepsSession
  <2> SUFFICES ASSUME Inv, History, NEW s \in alive, idle[s] <= TTL, Cardinality(newer[s]) < Cap
               PROVE  Admits(s, owner[s])
    BY DEF OwnerKeepsSession
  <2>1. /\ TypeOK /\ OwnersOnly /\ Timed /\ Pushed /\ s \in Session /\ IsFiniteSet(newer[s])
    BY DEF Inv, History, RecentInv, TypeOK
  <2>2. Contains(order, s)
    <3>1. Cardinality(newer[s]) \in Nat  BY <2>1, FS_CardinalityType
    <3> QED  BY <2>1, <3>1, CapAssumption DEF Pushed
  <2>3. left[s] >= 0
    <3>1. left[s] = TTL - idle[s] /\ idle[s] \in 0 .. TTL + 1  BY <2>1, <2>2 DEF Timed, TypeOK
    <3> QED  BY <3>1, TTLAssumption
  <2>4. binding[s] = owner[s]  BY <2>1, <2>2 DEF OwnersOnly, Contains, TypeOK
  <2> QED  BY <2>2, <2>3, <2>4 DEF Admits
<1> QED  BY <1>1, InitInv, StepInv, InitHistory, StepHistory, PTL DEF Spec

(* The answer to a DELETE leaves its session out of the cache, and afterwards    *)
(* only the answers to requests that the DELETE overtook bring it back, each     *)
(* once; the others that come late, evictions and uses do not.                  *)
THEOREM ClosedSessionsComeBackLate == Spec => OnlyLateAnswersRevive
<1>1. Inv /\ History /\ [Next]_vars => [ComesBackLate]_vars
  BY StepHistory
<1> QED  BY <1>1, InitInv, StepInv, InitHistory, StepHistory, PTL DEF Spec, OnlyLateAnswersRevive
=============================================================================
