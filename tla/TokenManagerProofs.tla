-------------------------- MODULE TokenManagerProofs --------------------------
(* Safety of the token cache for any number of requests and handshakes. *)
EXTENDS TokenManager, SequenceLemmas, TLAPS

Queued == {c \in Call : phase[c] = "queued"}

AllIn(q, S) == \A i \in 1 .. Len(q) : q[i] \in S

OnceEach(q) == \A i, j \in 1 .. Len(q) : q[i] = q[j] => i = j

(* A number the server has not issued yet is nowhere in use.                    *)
NothingFromTheFuture ==
  /\ token <= issued /\ refresh <= issued
  /\ \A c \in Call : used[c] <= issued
  /\ \A t \in accepted \cup refreshable : 1 <= t /\ t <= issued
  /\ \A t \in refused : t <= issued

(* Who waits for the lock waits once; who holds it is in its handshake.         *)
LockSound ==
  /\ AllIn(queue, Queued) /\ OnceEach(queue)
  /\ holder # Nobody => phase[holder] = "handshake"
  /\ wire.answer # "none" => holder # Nobody

(* A token that was rejected stays rejected while its request waits.            *)
RejectedForGood ==
  \A c \in Call : /\ retried[c] /\ phase[c] = "queued" => used[c] \notin accepted
                  /\ phase[c] = "new" => ~retried[c]

(* Whoever is in a handshake found a token that had to be replaced.             *)
HandshakeNeeded == holder # Nobody => ~fresh \/ token \notin accepted

(* Tokens that are on their way are newer than what they replace, and no        *)
(* refresh token that comes with them was refused.                              *)
AnswerIsNew ==
  wire.answer \in Granted =>
    /\ used[holder] < issued
    /\ issued \notin refused
    /\ wire.grant = "refresh" => refresh \notin refused

(* A refused refresh token never revives.                                       *)
RefusedIsDead == \A t \in refused : t \notin refreshable

Inv == /\ TypeOK /\ NothingFromTheFuture /\ LockSound /\ RejectedForGood
       /\ HandshakeNeeded /\ AnswerIsNew /\ RefusedIsDead /\ NoCollateralFailure

-----------------------------------------------------------------------------
(* The margin never uses a lifetime up. *)
LEMMA LifetimeLemma == \A seconds \in Lifetimes : (FreshFor(seconds) > 0) = TRUE
<1>. SUFFICES ASSUME NEW seconds \in Lifetimes PROVE FreshFor(seconds) > 0
  OBVIOUS
<1>1. seconds \in Nat /\ seconds > 0 /\ Margin \in Nat
  BY LifetimeAssumption
<1>. QED BY <1>1 DEF FreshFor

(* What joining, leading and leaving do to a queue nobody is in twice. *)
LEMMA AppendLemma ==
  ASSUME NEW q \in Seq(Call), NEW S, AllIn(q, S), OnceEach(q), NEW c \in Call, c \notin S
  PROVE  /\ Append(q, c) \in Seq(Call)
         /\ AllIn(Append(q, c), S \cup {c}) /\ OnceEach(Append(q, c))
  BY DEF AllIn, OnceEach

LEMMA TailLemma ==
  ASSUME NEW q \in Seq(Call), NEW S, AllIn(q, S), OnceEach(q), q # <<>>
  PROVE  /\ Head(q) \in S /\ Head(q) \in Call
         /\ Tail(q) \in Seq(Call)
         /\ AllIn(Tail(q), S \ {Head(q)}) /\ OnceEach(Tail(q))
<1>1. Len(q) \in Nat /\ Len(q) >= 1
  OBVIOUS
<1>2. Head(q) = q[1] /\ 1 \in 1 .. Len(q)
  BY <1>1
<1>3. Tail(q) \in Seq(Call) /\ Len(Tail(q)) = Len(q) - 1
  OBVIOUS
<1>4. \A i \in 1 .. Len(Tail(q)) : Tail(q)[i] = q[i + 1] /\ i + 1 \in 1 .. Len(q)
  BY <1>1, <1>3
<1>5. AllIn(Tail(q), S \ {Head(q)})
  BY <1>1, <1>2, <1>3, <1>4 DEF AllIn, OnceEach
<1>6. OnceEach(Tail(q))
  BY <1>1, <1>3, <1>4 DEF OnceEach
<1>. QED BY <1>1, <1>2, <1>3, <1>5, <1>6 DEF AllIn

LEMMA RemoveLemma ==
  ASSUME NEW q \in Seq(Call), NEW S, AllIn(q, S), OnceEach(q), NEW i \in 1 .. Len(q)
  PROVE  /\ RemoveAt(q, i) \in Seq(Call)
         /\ AllIn(RemoveAt(q, i), S \ {q[i]}) /\ OnceEach(RemoveAt(q, i))
<1>. DEFINE r == RemoveAt(q, i)
<1>1. Len(q) \in Nat /\ i \in Nat /\ 1 <= i /\ i <= Len(q)
  OBVIOUS
<1>5. /\ r \in Seq(Call) /\ Len(r) = Len(q) - 1
      /\ \A j \in 1 .. Len(q) - 1 : r[j] = IF j < i THEN q[j] ELSE q[j + 1]
  BY RemoveAtLemma
<1>. HIDE DEF r
<1>6. OnceEach(r)
  BY <1>1, <1>5 DEF OnceEach
<1>7. AllIn(r, S \ {q[i]})
  BY <1>1, <1>5 DEF AllIn, OnceEach
<1>. QED BY <1>5, <1>6, <1>7 DEF r

-----------------------------------------------------------------------------
LEMMA InitInv == Init => Inv
<1>. SUFFICES ASSUME Init PROVE Inv
  OBVIOUS
<1>1. NothingFromTheFuture
  BY DEF Init, NothingFromTheFuture
<1>2. LockSound
  BY DEF Init, LockSound, AllIn, OnceEach, NoWire
<1>3. TypeOK
  <2>1. 0 \in Token
    BY MaxIssuedAssumption DEF Token
  <2>2. NoWire \in Wires
    BY DEF NoWire, Wires
  <2>3. queue \in Seq(Call) /\ phase \in [Call -> {"new", "queued", "handshake", "sent", "done", "failed"}]
    BY DEF Init
  <2>4. used \in [Call -> Token] /\ retried \in [Call -> BOOLEAN]
    BY <2>1, Zenon DEF Init
  <2>. QED BY <2>1, <2>2, <2>3, <2>4, Zenon DEF Init, TypeOK
<1>4. RejectedForGood /\ HandshakeNeeded /\ AnswerIsNew /\ RefusedIsDead /\ NoCollateralFailure
  BY DEF Init, RejectedForGood, HandshakeNeeded, AnswerIsNew, RefusedIsDead,
         NoCollateralFailure, NoWire, Granted
<1>. QED BY <1>1, <1>2, <1>3, <1>4 DEF Inv
-----------------------------------------------------------------------------
(* Typing. *)
LEMMA EnterTyped ==
  ASSUME TypeOK, NEW c \in Call, NEW rejected \in BOOLEAN, Enter(c, rejected)
  PROVE  /\ holder' \in Call \cup {Nobody} /\ wire' \in Wires
         /\ phase' \in [Call -> {"new", "queued", "handshake", "sent", "done", "failed"}]
         /\ used' \in [Call -> Token]
<1>1. CASE Serves(c, rejected)
  BY <1>1 DEF Enter, TypeOK
<1>2. CASE ~Serves(c, rejected)
  <2>1. [grant |-> Grant, answer |-> "pending"] \in Wires
    BY DEF Wires, Grant
  <2>. QED BY <1>2, <2>1 DEF Enter, TypeOK
<1>. QED BY <1>1, <1>2

LEMMA LockTyped ==
  ASSUME TypeOK, NEW c \in Call, NEW rejected \in BOOLEAN, Lock(c, rejected)
  PROVE  /\ holder' \in Call \cup {Nobody} /\ wire' \in Wires
         /\ phase' \in [Call -> {"new", "queued", "handshake", "sent", "done", "failed"}]
         /\ used' \in [Call -> Token] /\ queue' \in Seq(Call)
<1>1. CASE Enter(c, rejected) /\ UNCHANGED queue
  BY <1>1, EnterTyped DEF TypeOK
<1>2. CASE /\ queue' = Append(queue, c) /\ phase' = [phase EXCEPT ![c] = "queued"]
           /\ UNCHANGED <<holder, wire, used>>
  BY <1>2 DEF TypeOK
<1>. QED BY <1>1, <1>2 DEF Lock

LEMMA StepTyped == Inv /\ [Next]_vars => TypeOK'
<1>. SUFFICES ASSUME Inv, [Next]_vars PROVE TypeOK'
  OBVIOUS
<1>0. TypeOK
  BY DEF Inv
<1>1. ASSUME NEW c \in Call, Start(c) PROVE TypeOK'
  BY <1>0, <1>1, LockTyped DEF Start, TypeOK, server
<1>2. ASSUME NEW c \in Call, Accepted(c) PROVE TypeOK'
  BY <1>0, <1>2 DEF Accepted, TypeOK, server, manager
<1>3. ASSUME NEW c \in Call, Rejected(c) PROVE TypeOK'
  <2>1. CASE retried[c]
    BY <1>0, <1>3, <2>1 DEF Rejected, TypeOK, server
  <2>2. CASE ~retried[c]
    BY <1>0, <1>3, <2>2, LockTyped DEF Rejected, TypeOK, server
  <2>. QED BY <2>1, <2>2
<1>4. ASSUME NEW c \in Call, Cancel(c) PROVE TypeOK'
  <2>1. queue' \in Seq(Call)
    <3>1. CASE phase[c] = "queued"
      <4>1. PICK i \in 1 .. Len(queue) : queue' = RemoveAt(queue, i)
        BY <1>0, <1>4, <3>1 DEF Cancel, LeavesQueue, TypeOK
      <4>2. AllIn(queue, Queued) /\ OnceEach(queue)
        BY DEF Inv, LockSound
      <4>. QED BY <1>0, <4>1, <4>2, RemoveLemma DEF TypeOK
    <3>2. CASE phase[c] # "queued"
      BY <1>0, <1>4, <3>2 DEF Cancel, LeavesQueue, TypeOK
    <3>. QED BY <3>1, <3>2
  <2>2. holder' \in Call \cup {Nobody} /\ wire' \in Wires
    BY <1>0, <1>4 DEF Cancel, TypeOK, Unlock, NoWire, Wires
  <2>3. disturbed' \subseteq Call
    BY <1>0, <1>4 DEF Cancel, TypeOK
  <2>. QED BY <1>0, <1>4, <2>1, <2>2, <2>3 DEF Cancel, TypeOK, server
<1>5. ASSUME NEW c \in Call, ReceiveTokens(c) PROVE TypeOK'
  <2>1. AccessToken \in Token /\ KeptRefresh \in Token
    BY <1>0, <1>5, MaxIssuedAssumption DEF AccessToken, KeptRefresh, TypeOK, Token, ReceiveTokens, Granted
  <2>2. NoWire \in Wires
    BY DEF NoWire, Wires
  <2>3. fresh' \in BOOLEAN
    BY <1>5, LifetimeLemma DEF ReceiveTokens
  <2>. QED BY <1>0, <1>5, <2>1, <2>2, <2>3 DEF ReceiveTokens, TypeOK, server
<1>6. ASSUME NEW c \in Call, FallBack(c) PROVE TypeOK'
  BY <1>0, <1>6 DEF FallBack, TypeOK, Wires, server
<1>7. ASSUME NEW c \in Call, ReceiveFault(c) PROVE TypeOK'
  <2>1. NoWire \in Wires /\ disturbed' \subseteq Call
    BY <1>0, <1>7 DEF NoWire, Wires, ReceiveFault, TypeOK
  <2>. QED BY <1>0, <1>7, <2>1 DEF ReceiveFault, TypeOK, Unlock, server
<1>8. CASE Wake
  <2>1. AllIn(queue, Queued) /\ OnceEach(queue) /\ queue # <<>>
    BY <1>8 DEF Inv, LockSound, Wake
  <2>2. Head(queue) \in Call /\ Tail(queue) \in Seq(Call)
    BY <1>0, <2>1, TailLemma DEF TypeOK
  <2>3. retried[Head(queue)] \in BOOLEAN
    BY <1>0, <2>2 DEF TypeOK
  <2>4. Enter(Head(queue), retried[Head(queue)])
    BY <1>8 DEF Wake
  <2>. QED BY <1>0, <1>8, <2>2, <2>3, <2>4, EnterTyped DEF Wake, TypeOK, server
<1>9. CASE ServerIssues
  <2>1. issued' \in Token /\ accepted' \subseteq Token /\ refreshable' \subseteq Token
    BY <1>0, <1>9, MaxIssuedAssumption DEF ServerIssues, TypeOK, Token
  <2>2. wire' \in Wires
    BY <1>0, <1>9 DEF ServerIssues, TypeOK, Wires, Granted
  <2>. QED BY <1>0, <1>9, <2>1, <2>2 DEF ServerIssues, TypeOK
<1>10. CASE ServerDenies
  BY <1>0, <1>10 DEF ServerDenies, TypeOK, Wires, server
<1>11. CASE ServerFails
  BY <1>0, <1>11 DEF ServerFails, TypeOK, Wires, server
<1>12. CASE Revoke
  BY <1>0, <1>12 DEF Revoke, TypeOK, manager
<1>13. CASE Age
  BY <1>0, <1>13 DEF Age, TypeOK, server
<1>14. CASE UNCHANGED vars
  BY <1>0, <1>14 DEF vars, manager, server, TypeOK
<1>. QED
  BY <1>1, <1>2, <1>3, <1>4, <1>5, <1>6, <1>7, <1>8, <1>9, <1>10, <1>11, <1>12, <1>13, <1>14 DEF Next
-----------------------------------------------------------------------------
(* The other conjuncts of the invariant, one action at a time. *)
Rest == /\ NothingFromTheFuture /\ LockSound /\ RejectedForGood
        /\ HandshakeNeeded /\ AnswerIsNew /\ RefusedIsDead /\ NoCollateralFailure

(* Entering the lock, for a request that does not wait (any longer): q is what  *)
(* is left of the queue, S who waits in it.                                     *)
LEMMA EnterStep ==
  ASSUME Inv, TypeOK', NEW c \in Call, NEW rejected \in BOOLEAN,
         Enter(c, rejected), holder = Nobody,
         rejected => used[c] \notin accepted,
         phase[c] \in {"new", "queued", "sent"},
         UNCHANGED <<token, refresh, fresh, server, refused, disturbed>>,
         retried' = [retried EXCEPT ![c] = rejected],
         AllIn(queue', Queued \ {c}), OnceEach(queue')
  PROVE  Rest'
<1>. USE DEF Inv, server
<1>1. CASE Serves(c, rejected)
  <2>1. /\ holder' = Nobody /\ used' = [used EXCEPT ![c] = token]
        /\ phase' = [phase EXCEPT ![c] = "sent"] /\ wire' = wire
    BY <1>1 DEF Enter
  <2>2. wire.answer = "none"
    BY DEF LockSound
  <2>3. Queued \ {c} \subseteq Queued'
    BY <2>1 DEF Queued, TypeOK
  <2>4. LockSound'
    BY <2>1, <2>2, <2>3 DEF LockSound, AllIn
  <2>5. NothingFromTheFuture'
    BY <2>1 DEF NothingFromTheFuture, TypeOK
  <2>6. RejectedForGood'
    BY <2>1 DEF RejectedForGood, TypeOK
  <2>7. HandshakeNeeded' /\ AnswerIsNew' /\ RefusedIsDead'
    BY <2>1, <2>2 DEF HandshakeNeeded, AnswerIsNew, RefusedIsDead, Granted
  <2>8. NoCollateralFailure'
    BY <2>1 DEF NoCollateralFailure, TypeOK
  <2>. QED BY <2>4, <2>5, <2>6, <2>7, <2>8 DEF Rest
<1>2. CASE ~Serves(c, rejected)
  <2>1. /\ holder' = c /\ used' = used
        /\ phase' = [phase EXCEPT ![c] = "handshake"]
        /\ wire' = [grant |-> Grant, answer |-> "pending"]
    BY <1>2 DEF Enter
  <2>3. Queued \ {c} \subseteq Queued'
    BY <2>1 DEF Queued, TypeOK
  <2>4. LockSound'
    BY <2>1, <2>3, NobodyAssumption DEF LockSound, AllIn, TypeOK
  <2>5. NothingFromTheFuture'
    BY <2>1 DEF NothingFromTheFuture, TypeOK
  <2>6. RejectedForGood'
    BY <2>1 DEF RejectedForGood, TypeOK
  <2>7. HandshakeNeeded'
    BY <1>2, <2>1 DEF HandshakeNeeded, Serves, Expiring, NothingFromTheFuture
  <2>8. AnswerIsNew' /\ RefusedIsDead'
    BY <2>1 DEF AnswerIsNew, RefusedIsDead, Granted
  <2>9. NoCollateralFailure'
    BY <2>1 DEF NoCollateralFailure, TypeOK
  <2>. QED BY <2>4, <2>5, <2>6, <2>7, <2>8, <2>9 DEF Rest
<1>. QED BY <1>1, <1>2

(* Asking for the lock. *)
LEMMA LockStep ==
  ASSUME Inv, TypeOK', NEW c \in Call, NEW rejected \in BOOLEAN,
         Lock(c, rejected),
         rejected => used[c] \notin accepted,
         phase[c] \in {"new", "sent"},
         UNCHANGED <<token, refresh, fresh, server, refused, disturbed>>,
         retried' = [retried EXCEPT ![c] = rejected]
  PROVE  Rest'
<1>. USE DEF Inv, server
<1>0. AllIn(queue, Queued) /\ OnceEach(queue) /\ c \notin Queued /\ queue \in Seq(Call)
  BY DEF LockSound, Queued, TypeOK
<1>1. CASE holder = Nobody /\ queue = <<>> /\ Enter(c, rejected) /\ UNCHANGED queue
  <2>1. AllIn(queue', Queued \ {c}) /\ OnceEach(queue')
    BY <1>0, <1>1 DEF AllIn, OnceEach
  <2>. QED BY <1>1, <2>1, EnterStep
<1>2. CASE /\ queue' = Append(queue, c) /\ phase' = [phase EXCEPT ![c] = "queued"]
           /\ UNCHANGED <<holder, wire, used>>
  <2>1. AllIn(queue', Queued \cup {c}) /\ OnceEach(queue')
    BY <1>0, <1>2, AppendLemma
  <2>2. Queued' = Queued \cup {c}
    BY <1>2 DEF Queued, TypeOK
  <2>3. LockSound'
    BY <1>2, <2>1, <2>2 DEF LockSound, TypeOK
  <2>4. NothingFromTheFuture'
    BY <1>2 DEF NothingFromTheFuture, TypeOK
  <2>5. RejectedForGood'
    BY <1>2 DEF RejectedForGood, TypeOK
  <2>6. HandshakeNeeded' /\ AnswerIsNew' /\ RefusedIsDead'
    BY <1>2 DEF HandshakeNeeded, AnswerIsNew, RefusedIsDead
  <2>7. NoCollateralFailure'
    BY <1>2 DEF NoCollateralFailure, TypeOK
  <2>. QED BY <2>3, <2>4, <2>5, <2>6, <2>7 DEF Rest
<1>. QED BY <1>1, <1>2 DEF Lock
LEMMA StepRest == Inv /\ TypeOK' /\ [Next]_vars => Rest'
<1>. SUFFICES ASSUME Inv, TypeOK', [Next]_vars PROVE Rest'
  OBVIOUS
<1>0. TypeOK /\ LockSound
  BY DEF Inv
<1>1. ASSUME NEW c \in Call, Start(c) PROVE Rest'
  <2>1. retried' = [retried EXCEPT ![c] = FALSE]
    BY <1>0, <1>1 DEF Start, Inv, RejectedForGood, TypeOK
  <2>. QED BY <1>0, <1>1, <2>1, LockStep DEF Start, server
<1>2. ASSUME NEW c \in Call, Accepted(c) PROVE Rest'
  <2>1. /\ phase[c] = "sent" /\ phase' = [phase EXCEPT ![c] = "done"]
        /\ UNCHANGED <<manager, used, retried, server, refused, disturbed>>
    BY <1>2 DEF Accepted
  <2>2. Queued' = Queued
    BY <1>0, <2>1 DEF Queued, TypeOK
  <2>3. LockSound'
    BY <1>0, <2>1, <2>2 DEF LockSound, TypeOK, manager, AllIn, OnceEach
  <2>. QED BY <1>0, <2>1, <2>3 DEF Rest, Inv, NothingFromTheFuture, RejectedForGood, HandshakeNeeded,
                                 AnswerIsNew, RefusedIsDead, NoCollateralFailure, TypeOK, manager, server
<1>3. ASSUME NEW c \in Call, Rejected(c) PROVE Rest'
  <2>1. phase[c] = "sent" /\ used[c] \notin accepted
        /\ UNCHANGED <<style, token, refresh, fresh, server, refused, disturbed>>
    BY <1>3 DEF Rejected
  <2>2. CASE ~retried[c]
    BY <1>0, <1>3, <2>1, <2>2, LockStep DEF Rejected
  <2>3. CASE retried[c]
    <3>1. phase' = [phase EXCEPT ![c] = "failed"] /\ UNCHANGED <<holder, queue, wire, used, retried>>
      BY <1>3, <2>3 DEF Rejected
    <3>2. Queued' = Queued
      BY <1>0, <2>1, <3>1 DEF Queued, TypeOK
    <3>3. LockSound'
      BY <1>0, <2>1, <3>1, <3>2 DEF LockSound, TypeOK, AllIn, OnceEach
    <3>4. NoCollateralFailure'
      BY <1>0, <2>1, <2>3, <3>1 DEF NoCollateralFailure, Inv, TypeOK, server
    <3>. QED BY <1>0, <2>1, <3>1, <3>3, <3>4 DEF Rest, Inv, NothingFromTheFuture, RejectedForGood,
                                   HandshakeNeeded, AnswerIsNew, RefusedIsDead, TypeOK, server
  <2>. QED BY <2>2, <2>3
<1>4. ASSUME NEW c \in Call, Cancel(c) PROVE Rest'
  <2>1. /\ phase[c] \in {"queued", "handshake", "sent"} /\ phase' = [phase EXCEPT ![c] = "failed"]
        /\ disturbed' = disturbed \cup {c}
        /\ UNCHANGED <<style, token, refresh, fresh, used, retried, server, refused>>
        /\ IF holder = c THEN holder' = Nobody /\ wire' = NoWire ELSE UNCHANGED <<holder, wire>>
    BY <1>4 DEF Cancel, Unlock
  <2>2. Queued' = Queued \ {c}
    BY <1>0, <2>1 DEF Queued, TypeOK
  <2>3. AllIn(queue', Queued') /\ OnceEach(queue')
    <3>1. CASE phase[c] = "queued"
      <4>1. PICK i \in 1 .. Len(queue) : queue[i] = c /\ queue' = RemoveAt(queue, i)
        BY <1>0, <1>4, <3>1 DEF Cancel, LeavesQueue, TypeOK
      <4>. QED BY <1>0, <2>2, <4>1, RemoveLemma DEF TypeOK, LockSound
    <3>2. CASE phase[c] # "queued"
      <4>1. queue' = queue /\ Queued' = Queued
        BY <1>4, <2>2, <3>2 DEF Cancel, LeavesQueue, Queued
      <4>. QED BY <1>0, <4>1 DEF LockSound, AllIn, OnceEach
    <3>. QED BY <3>1, <3>2
  <2>4. LockSound'
    BY <1>0, <2>1, <2>3 DEF LockSound, TypeOK, NoWire
  <2>5. NothingFromTheFuture' /\ RejectedForGood' /\ RefusedIsDead'
    BY <1>0, <2>1 DEF Inv, NothingFromTheFuture, RejectedForGood, RefusedIsDead, TypeOK, server
  <2>6. HandshakeNeeded' /\ AnswerIsNew'
    BY <1>0, <2>1 DEF Inv, HandshakeNeeded, AnswerIsNew, server, NoWire, Granted
  <2>7. NoCollateralFailure'
    BY <1>0, <2>1 DEF Inv, NoCollateralFailure, TypeOK, server
  <2>. QED BY <2>4, <2>5, <2>6, <2>7 DEF Rest
<1>5. ASSUME NEW c \in Call, ReceiveTokens(c) PROVE Rest'
  <2>1. /\ holder = c /\ wire.answer \in Granted
        /\ token' = issued /\ refresh' = KeptRefresh
        /\ holder' = Nobody /\ wire' = NoWire
        /\ used' = [used EXCEPT ![c] = issued]
        /\ phase' = [phase EXCEPT ![c] = "sent"]
        /\ UNCHANGED <<queue, retried, server, refused, disturbed>>
    BY <1>5 DEF ReceiveTokens, AccessToken
  <2>2. phase[c] = "handshake"
    BY <1>0, <2>1, NobodyAssumption DEF LockSound
  <2>3. Queued' = Queued
    BY <1>0, <2>1, <2>2 DEF Queued, TypeOK
  <2>4. LockSound'
    BY <1>0, <2>1, <2>3 DEF LockSound, AllIn, OnceEach, NoWire
  <2>5. refresh' <= issued /\ issued' = issued
    BY <1>0, <2>1 DEF KeptRefresh, Granted, Inv, NothingFromTheFuture, TypeOK, Token, server
  <2>6. NothingFromTheFuture'
    BY <1>0, <2>1, <2>5 DEF Inv, NothingFromTheFuture, TypeOK, Token, server
  <2>7. RejectedForGood' /\ NoCollateralFailure'
    BY <1>0, <2>1, <2>2 DEF Inv, RejectedForGood, NoCollateralFailure, TypeOK, server
  <2>8. HandshakeNeeded' /\ AnswerIsNew' /\ RefusedIsDead'
    BY <1>0, <2>1 DEF Inv, HandshakeNeeded, AnswerIsNew, RefusedIsDead, NoWire, Granted, server
  <2>. QED BY <2>4, <2>6, <2>7, <2>8 DEF Rest
<1>6. ASSUME NEW c \in Call, FallBack(c) PROVE Rest'
  <2>1. /\ holder = c /\ wire'.answer = "pending"
        /\ UNCHANGED <<token, refresh, fresh, holder, queue, phase, used, retried, server, refused, disturbed>>
    BY <1>6 DEF FallBack
  <2>2. LockSound'
    BY <1>0, <2>1, NobodyAssumption DEF LockSound, Queued, AllIn, OnceEach
  <2>. QED BY <1>0, <2>1, <2>2 DEF Rest, Inv, NothingFromTheFuture, RejectedForGood, HandshakeNeeded,
                                 AnswerIsNew, RefusedIsDead, NoCollateralFailure, Granted, server
<1>7. ASSUME NEW c \in Call, ReceiveFault(c) PROVE Rest'
  <2>1. /\ holder = c /\ holder' = Nobody /\ wire' = NoWire
        /\ phase' = [phase EXCEPT ![c] = "failed"] /\ disturbed' = disturbed \cup {c}
        /\ UNCHANGED <<token, refresh, fresh, queue, used, retried, server, refused>>
    BY <1>7 DEF ReceiveFault, Unlock
  <2>2. phase[c] = "handshake"
    BY <1>0, <2>1, NobodyAssumption DEF LockSound
  <2>3. Queued' = Queued
    BY <1>0, <2>1, <2>2 DEF Queued, TypeOK
  <2>4. LockSound'
    BY <1>0, <2>1, <2>3 DEF LockSound, AllIn, OnceEach, NoWire
  <2>5. NothingFromTheFuture' /\ RejectedForGood' /\ RefusedIsDead' /\ NoCollateralFailure'
    BY <1>0, <2>1 DEF Inv, NothingFromTheFuture, RejectedForGood, RefusedIsDead, NoCollateralFailure, TypeOK, server
  <2>6. HandshakeNeeded' /\ AnswerIsNew'
    BY <1>0, <2>1 DEF Inv, HandshakeNeeded, AnswerIsNew, NoWire, Granted, server
  <2>. QED BY <2>4, <2>5, <2>6 DEF Rest
<1>8. CASE Wake
  <2>. DEFINE c == Head(queue)
  <2>1. /\ holder = Nobody /\ queue # <<>> /\ queue' = Tail(queue)
        /\ Enter(c, retried[c])
        /\ UNCHANGED <<style, token, refresh, fresh, retried, server, refused, disturbed>>
    BY <1>8 DEF Wake
  <2>2. /\ c \in Queued /\ c \in Call
        /\ AllIn(queue', Queued \ {c}) /\ OnceEach(queue')
    BY <1>0, <2>1, TailLemma DEF LockSound, TypeOK
  <2>. HIDE DEF c
  <2>3. /\ phase[c] = "queued" /\ retried[c] \in BOOLEAN
        /\ retried' = [retried EXCEPT ![c] = retried[c]]
        /\ (retried[c] => used[c] \notin accepted)
    BY <1>0, <2>1, <2>2 DEF Queued, TypeOK, Inv, RejectedForGood
  <2>. QED BY <1>0, <2>1, <2>2, <2>3, EnterStep
<1>9. CASE ServerIssues
  <2>1. /\ wire.answer = "pending" /\ (wire.grant = "refresh" => refresh \in refreshable)
        /\ issued' = issued + 1 /\ accepted' = accepted \cup {issued'}
        /\ refreshable' \subseteq refreshable \cup {issued'}
        /\ wire'.answer \in Granted /\ wire'.grant = wire.grant
        /\ UNCHANGED <<token, refresh, fresh, holder, queue, phase, used, retried, refused, disturbed>>
    BY <1>0, <1>9 DEF ServerIssues, TypeOK, Wires
  <2>2. holder # Nobody /\ holder \in Call
    BY <1>0, <2>1 DEF LockSound, TypeOK
  <2>3. LockSound'
    BY <1>0, <2>1, <2>2 DEF LockSound, Queued, AllIn, OnceEach
  <2>4. /\ issued \in Nat /\ token \in Nat /\ refresh \in Nat
        /\ (\A d \in Call : used[d] \in Nat /\ used[d] <= issued)
        /\ token <= issued /\ refresh <= issued
        /\ \A t \in accepted \cup refreshable : t \in Nat /\ 1 <= t /\ t <= issued
        /\ \A t \in refused : t \in Nat /\ t <= issued
    BY <1>0 DEF TypeOK, Token, Inv, NothingFromTheFuture
  <2>5. NothingFromTheFuture'
    BY <2>1, <2>4 DEF NothingFromTheFuture
  <2>6. RejectedForGood' /\ HandshakeNeeded' /\ NoCollateralFailure'
    BY <2>1, <2>4 DEF Inv, RejectedForGood, HandshakeNeeded, NoCollateralFailure
  <2>7. AnswerIsNew'
    BY <2>1, <2>2, <2>4 DEF AnswerIsNew, Inv, RefusedIsDead
  <2>8. RefusedIsDead'
    BY <2>1, <2>4 DEF Inv, RefusedIsDead
  <2>. QED BY <2>3, <2>5, <2>6, <2>7, <2>8 DEF Rest
<1>10. CASE ServerDenies
  <2>1. /\ wire.answer = "pending" /\ refresh \notin refreshable
        /\ wire'.answer = "invalid_grant" /\ refused' = refused \cup {refresh}
        /\ UNCHANGED <<token, refresh, fresh, holder, queue, phase, used, retried, server, disturbed>>
    BY <1>0, <1>10 DEF ServerDenies, TypeOK, Wires
  <2>2. LockSound'
    BY <1>0, <2>1 DEF LockSound, Queued, AllIn, OnceEach
  <2>. QED BY <1>0, <2>1, <2>2 DEF Rest, Inv, NothingFromTheFuture, RejectedForGood, HandshakeNeeded,
                                 AnswerIsNew, RefusedIsDead, NoCollateralFailure, Granted, server
<1>11. CASE ServerFails
  <2>1. /\ wire.answer = "pending" /\ wire'.answer = "fault"
        /\ UNCHANGED <<token, refresh, fresh, holder, queue, phase, used, retried, server, refused, disturbed>>
    BY <1>0, <1>11 DEF ServerFails, TypeOK, Wires
  <2>2. LockSound'
    BY <1>0, <2>1 DEF LockSound, Queued, AllIn, OnceEach
  <2>. QED BY <1>0, <2>1, <2>2 DEF Rest, Inv, NothingFromTheFuture, RejectedForGood, HandshakeNeeded,
                                 AnswerIsNew, RefusedIsDead, NoCollateralFailure, Granted, server
<1>12. CASE Revoke
  <2>1. /\ accepted' \subseteq accepted /\ refreshable' \subseteq refreshable
        /\ UNCHANGED <<manager, phase, used, retried, issued, refused, disturbed>>
    BY <1>12 DEF Revoke
  <2>2. LockSound'
    BY <1>0, <2>1 DEF LockSound, Queued, AllIn, OnceEach, manager
  <2>. QED BY <1>0, <2>1, <2>2 DEF Rest, Inv, NothingFromTheFuture, RejectedForGood, HandshakeNeeded,
                                 AnswerIsNew, RefusedIsDead, NoCollateralFailure, manager
<1>13. CASE Age
  <2>1. /\ fresh' = FALSE
        /\ UNCHANGED <<token, refresh, holder, queue, wire, phase, used, retried, server, refused, disturbed>>
    BY <1>13 DEF Age
  <2>2. LockSound'
    BY <1>0, <2>1 DEF LockSound, Queued, AllIn, OnceEach
  <2>. QED BY <1>0, <2>1, <2>2 DEF Rest, Inv, NothingFromTheFuture, RejectedForGood, HandshakeNeeded,
                                 AnswerIsNew, RefusedIsDead, NoCollateralFailure, server
<1>14. CASE UNCHANGED vars
  <2>1. UNCHANGED <<token, refresh, fresh, holder, queue, wire, phase, used, retried, server, refused, disturbed>>
    BY <1>14 DEF vars, manager
  <2>2. LockSound'
    BY <1>0, <2>1 DEF LockSound, Queued, AllIn, OnceEach
  <2>. QED BY <1>0, <2>1, <2>2 DEF Rest, Inv, NothingFromTheFuture, RejectedForGood, HandshakeNeeded,
                                 AnswerIsNew, RefusedIsDead, NoCollateralFailure, server
<1>. QED
  BY <1>1, <1>2, <1>3, <1>4, <1>5, <1>6, <1>7, <1>8, <1>9, <1>10, <1>11, <1>12, <1>13, <1>14 DEF Next

LEMMA Invariance == Spec => []Inv
<1>1. Inv /\ [Next]_vars => Inv'
  BY StepTyped, StepRest DEF Inv, Rest
<1>. QED BY <1>1, InitInv, PTL DEF Spec
(* Every variable of the token cache, its callers and the server keeps its type. *)
THEOREM TypeCorrect == Spec => []TypeOK
  BY Invariance, PTL DEF Inv

(* No request fails for what another one left behind: with any number of        *)
(* requests, a failed one had a handshake of its own fail, was cancelled, or    *)
(* saw its renewed token rejected.                                              *)
THEOREM NoFailureIsCollateral == Spec => []NoCollateralFailure
  BY Invariance, PTL DEF Inv

-----------------------------------------------------------------------------
(* Only the answer to a handshake replaces the cached token. *)
LEMMA TokenChange ==
  ASSUME [Next]_vars, token' # token
  PROVE  \E c \in Call : ReceiveTokens(c)
  BY DEF Next, vars, manager, Start, Accepted, Rejected, Cancel, FallBack, ReceiveFault,
         Wake, ServerIssues, ServerDenies, ServerFails, Revoke, Age

(* A fresh token that the server accepts is never replaced: a burst of 401s on  *)
(* an older one costs a single handshake (force_refresh); and the token that    *)
(* replaces another is fresh, whatever the margin and its lifetime (_set_token).*)
THEOREM GoodTokensAreKept == Spec => GoodTokenKept
<1> DEFINE Kept == (~fresh \/ token \notin accepted) /\ fresh'
<1>1. ASSUME Inv, [Next]_vars PROVE [token' # token => Kept]_vars
  <2>1. ASSUME token' # token PROVE Kept
    <3>1. PICK c \in Call : ReceiveTokens(c)
      BY <1>1, <2>1, TokenChange
    <3>2. holder # Nobody
      BY <3>1, NobodyAssumption DEF ReceiveTokens
    <3>3. fresh' = TRUE
      BY <3>1, LifetimeLemma DEF ReceiveTokens
    <3>. QED BY <1>1, <3>2, <3>3 DEF Inv, HandshakeNeeded
  <2>. QED BY <2>1
<1>. QED BY <1>1, Invariance, PTL DEF Spec, GoodTokenKept

(* The handshake that succeeds after a refusal drops the refused refresh token, *)
(* whatever failed, fell back or was cancelled in between (_set_token).         *)
THEOREM RefusedIsNotKept == Spec => RefusedIsForgotten
<1>1. ASSUME Inv, [Next]_vars
      PROVE  [token' # token => refresh' = 0 \/ refresh' \notin refused']_vars
  <2>1. ASSUME token' # token PROVE refresh' = 0 \/ refresh' \notin refused'
    <3>1. PICK c \in Call : ReceiveTokens(c)
      BY <1>1, <2>1, TokenChange
    <3>2. refresh' \in {0, issued} \/ (wire.grant = "refresh" /\ refresh' = refresh)
      BY <1>1, <3>1 DEF ReceiveTokens, KeptRefresh, Granted, Inv, TypeOK
    <3>3. issued \notin refused /\ (wire.grant = "refresh" => refresh \notin refused)
      BY <1>1, <3>1 DEF Inv, AnswerIsNew, ReceiveTokens
    <3>4. refused' = refused
      BY <3>1 DEF ReceiveTokens
    <3>. QED BY <3>2, <3>3, <3>4
  <2>. QED BY <2>1
<1>. QED BY <1>1, Invariance, PTL DEF Spec, RefusedIsForgotten

(* The retry after a 401 carries another token than the rejected one, whoever   *)
(* renewed the cache while it waited (force_refresh).                           *)
THEOREM RetriesCarryNewTokens == Spec => RetryCarriesNewToken
<1>1. ASSUME Inv, TypeOK', [Next]_vars
      PROVE  [\A c \in Call :
                retried'[c] /\ phase'[c] = "sent" /\ ~(retried[c] /\ phase[c] = "sent")
                  => used'[c] # used[c]]_vars
  <2>. SUFFICES ASSUME Next, NEW c \in Call,
                       retried'[c], phase'[c] = "sent", ~(retried[c] /\ phase[c] = "sent")
                PROVE  used'[c] # used[c]
    BY <1>1
  <2>0. TypeOK /\ LockSound
    BY <1>1 DEF Inv
  <2>1. ASSUME NEW d \in Call, Start(d) PROVE used'[c] # used[c]
    <3>1. phase[d] = "new" /\ Lock(d, FALSE) /\ retried' = retried
      BY <2>1 DEF Start
    <3>2. ~retried'[d]
      BY <1>1, <3>1 DEF Inv, RejectedForGood
    <3>3. phase'[c] = phase[c]
      BY <2>0, <3>1, <3>2 DEF Lock, Enter, TypeOK
    <3>. QED BY <3>1, <3>3
  <2>2. ASSUME NEW d \in Call, Accepted(d) PROVE used'[c] # used[c]
    BY <2>0, <2>2 DEF Accepted, TypeOK
  <2>3. ASSUME NEW d \in Call, Rejected(d) PROVE used'[c] # used[c]
    <3>1. CASE retried[d]
      BY <2>0, <2>3, <3>1 DEF Rejected, TypeOK
    <3>2. CASE ~retried[d] /\ c # d
      BY <2>0, <2>3, <3>2 DEF Rejected, Lock, Enter, TypeOK
    <3>3. CASE ~retried[d] /\ c = d
      <4>1. Lock(c, TRUE)
        BY <2>3, <3>3 DEF Rejected
      <4>. QED BY <2>0, <4>1 DEF Lock, Enter, Serves, TypeOK
    <3>. QED BY <3>1, <3>2, <3>3
  <2>4. ASSUME NEW d \in Call, Cancel(d) PROVE used'[c] # used[c]
    BY <2>0, <2>4 DEF Cancel, TypeOK
  <2>5. ASSUME NEW d \in Call, ReceiveTokens(d) PROVE used'[c] # used[c]
    <3>1. retried' = retried /\ phase' = [phase EXCEPT ![d] = "sent"]
          /\ used' = [used EXCEPT ![d] = issued] /\ holder = d /\ wire.answer \in Granted
      BY <2>5 DEF ReceiveTokens, AccessToken
    <3>2. c = d
      BY <2>0, <3>1 DEF TypeOK
    <3>3. used[c] < issued /\ used[c] \in Nat /\ issued \in Nat
      BY <1>1, <2>0, <3>1, <3>2 DEF Inv, AnswerIsNew, TypeOK, Token
    <3>. QED BY <2>0, <3>1, <3>2, <3>3 DEF TypeOK
  <2>6. ASSUME NEW d \in Call, FallBack(d) PROVE used'[c] # used[c]
    BY <2>0, <2>6 DEF FallBack
  <2>7. ASSUME NEW d \in Call, ReceiveFault(d) PROVE used'[c] # used[c]
    BY <2>0, <2>7 DEF ReceiveFault, TypeOK
  <2>8. CASE Wake
    <3>. DEFINE d == Head(queue)
    <3>1. Enter(d, retried[d]) /\ retried' = retried /\ queue # <<>>
      BY <2>8 DEF Wake
    <3>2. d \in Call
      BY <2>0, <3>1, TailLemma DEF LockSound, TypeOK
    <3>. HIDE DEF d
    <3>3. c = d /\ Serves(d, retried[d])
      BY <2>0, <3>1, <3>2 DEF Enter, TypeOK
    <3>. QED BY <2>0, <3>1, <3>2, <3>3 DEF Enter, Serves, TypeOK
  <2>9. CASE ServerIssues \/ ServerDenies \/ ServerFails \/ Revoke \/ Age
    BY <2>9 DEF ServerIssues, ServerDenies, ServerFails, Revoke, Age
  <2>. QED
    BY <2>1, <2>2, <2>3, <2>4, <2>5, <2>6, <2>7, <2>8, <2>9 DEF Next
<1>. QED BY <1>1, Invariance, TypeCorrect, PTL DEF Spec, RetryCarriesNewToken
=============================================================================
