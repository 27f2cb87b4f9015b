----------------------------- MODULE TokenManager -----------------------------
(***************************************************************************)
(* src/eset_mcp/auth.py: the token cache of one EsetHttpClient, shared by  *)
(* the concurrent sub-requests of its tool calls, and the part of          *)
(* http_client.request and transport.send_request that uses it: get a      *)
(* token, send the request, and on a 401 renew the token once.             *)
(*                                                                         *)
(* asyncio steps are atomic between awaits.  The lock is an asyncio.Lock,  *)
(* which hands over in FIFO order and is held across the handshake, so     *)
(* what interleaves is the callers, the handshake of the lock's holder,    *)
(* the clock and the server.  Access and refresh tokens are numbered by    *)
(* the handshake that issued them; 0 stands for None.                      *)
(***************************************************************************)
EXTENDS Naturals, FiniteSets, SequencesExt

CONSTANTS Call,       \* API requests, each made by one coroutine
          Nobody,     \* the holder of a free lock
          Margin,     \* _refresh_margin_s (300, on-prem 60)
          Lifetimes,  \* the lifetimes, in seconds, that tokens come with
          MaxIssued   \* bound: handshakes the server completes

ASSUME NobodyAssumption == Nobody \notin Call
ASSUME MaxIssuedAssumption == MaxIssued \in Nat
ASSUME LifetimeAssumption ==  \* _set_token refuses a lifetime of 0
  Margin \in Nat /\ Lifetimes \subseteq Nat \ {0}

VARIABLES
  style,         \* "refresh" (cloud, on-prem v13) or "password" (legacy on-prem)
  token,         \* _token.access_token
  refresh,       \* _token.refresh_token
  fresh,         \* time.time() < _token.refresh_at
  holder,        \* who holds _lock
  queue,         \* who waits for _lock
  wire,          \* the handshake of the holder and the answer to it
  phase,         \* where each request is
  used,          \* the access token of each request's Authorization header
  retried,       \* auth_retried of send_request
  issued,        \* server: how many handshakes it completed
  accepted,      \* server: access tokens the API accepts
  refreshable,   \* server: refresh tokens the token endpoint accepts
  refused,       \* history: refresh tokens answered with invalid_grant
  disturbed      \* history: requests with a failed handshake, or cancelled

manager == <<style, token, refresh, fresh, holder, queue, wire>>
server == <<issued, accepted, refreshable>>
vars == <<manager, phase, used, retried, server, refused, disturbed>>

Token == 0 .. MaxIssued

NoWire == [grant |-> "none", answer |-> "none"]

(* An answer with an access token also names a refresh token, or none, or null. *)
Granted == {"names", "omits", "nulls"}

Wires == [grant : {"none", "refresh", "password"},
          answer : {"none", "pending", "fault", "invalid_grant"} \cup Granted]

TypeOK ==
  /\ style \in {"refresh", "password"}
  /\ token \in Token /\ refresh \in Token /\ fresh \in BOOLEAN
  /\ holder \in Call \cup {Nobody}
  /\ queue \in Seq(Call)
  /\ wire \in Wires
  /\ phase \in [Call -> {"new", "queued", "handshake", "sent", "done", "failed"}]
  /\ used \in [Call -> Token]
  /\ retried \in [Call -> BOOLEAN]
  /\ issued \in Token
  /\ accepted \in SUBSET Token /\ refreshable \in SUBSET Token
  /\ refused \in SUBSET Token /\ disturbed \in SUBSET Call

Init ==
  /\ style \in {"refresh", "password"}
  /\ token = 0 /\ refresh = 0 /\ fresh = FALSE
  /\ holder = Nobody /\ queue = <<>> /\ wire = NoWire
  /\ phase = [c \in Call |-> "new"]
  /\ used = [c \in Call |-> 0]
  /\ retried = [c \in Call |-> FALSE]
  /\ issued = 0 /\ accepted = {} /\ refreshable = {}
  /\ refused = {} /\ disturbed = {}

-----------------------------------------------------------------------------
(* _expired_or_expiring() *)
Expiring == token = 0 \/ ~fresh

(* Operators commented as a fault are the bugs the mutation checks seed in     *)
(* place of the operator that follows; no action uses them.                    *)

(* Faults: a caller renews without another look at the cache under the lock; a  *)
(* rejected one takes whatever is cached.                                       *)
NoSecondLook(c, rejected) == FALSE
TakesCached(c, rejected) == ~Expiring

(* The cached token serves caller c: get_access_token() on its first request,  *)
(* force_refresh(rejected_token=used[c]) once its token was rejected.          *)
Serves(c, rejected) == ~Expiring /\ (rejected => token # used[c])

Grant == IF refresh # 0 THEN "refresh" ELSE "password"

(* Under the lock: return the cached token, or keep the lock and start         *)
(* _refresh_locked.                                                            *)
Enter(c, rejected) ==
  IF Serves(c, rejected)
  THEN /\ holder' = Nobody
       /\ used' = [used EXCEPT ![c] = token]
       /\ phase' = [phase EXCEPT ![c] = "sent"]
       /\ UNCHANGED wire
  ELSE /\ holder' = c
       /\ wire' = [grant |-> Grant, answer |-> "pending"]
       /\ phase' = [phase EXCEPT ![c] = "handshake"]
       /\ UNCHANGED used

(* `async with self._lock`: straight in when nobody holds it or waits for it. *)
Lock(c, rejected) ==
  \/ /\ holder = Nobody /\ queue = <<>>
     /\ Enter(c, rejected)
     /\ UNCHANGED queue
  \/ /\ holder # Nobody \/ queue # <<>>
     /\ queue' = Append(queue, c)
     /\ phase' = [phase EXCEPT ![c] = "queued"]
     /\ UNCHANGED <<holder, wire, used>>

(* http_client.request calls get_access_token(). *)
Start(c) ==
  /\ phase[c] = "new"
  /\ Lock(c, FALSE)
  /\ UNCHANGED <<style, token, refresh, fresh, retried, server, refused, disturbed>>

(* The lock was released and its first waiter runs. *)
Wake ==
  /\ holder = Nobody /\ queue # <<>>
  /\ queue' = Tail(queue)
  /\ Enter(Head(queue), retried[Head(queue)])
  /\ UNCHANGED <<style, token, refresh, fresh, retried, server, refused, disturbed>>

(* The API accepts the token: the request is served. *)
Accepted(c) ==
  /\ phase[c] = "sent" /\ used[c] \in accepted
  /\ phase' = [phase EXCEPT ![c] = "done"]
  /\ UNCHANGED <<manager, used, retried, server, refused, disturbed>>

(* The API answers 401: the first time send_request calls refresh(), the       *)
(* second time the 401 is returned and request() raises.                       *)
Rejected(c) ==
  /\ phase[c] = "sent" /\ used[c] \notin accepted
  /\ IF retried[c]
     THEN /\ phase' = [phase EXCEPT ![c] = "failed"]
          /\ UNCHANGED <<holder, queue, wire, used, retried>>
     ELSE /\ retried' = [retried EXCEPT ![c] = TRUE]
          /\ Lock(c, TRUE)
  /\ UNCHANGED <<style, token, refresh, fresh, server, refused, disturbed>>

-----------------------------------------------------------------------------
(* The token endpoint (external). *)

(* It issues tokens for the password, or for a refresh token it still accepts; *)
(* a refresh token it names replaces the one it was asked with.                *)
ServerIssues ==
  /\ wire.answer = "pending"
  /\ issued < MaxIssued
  /\ wire.grant = "refresh" => refresh \in refreshable
  /\ issued' = issued + 1
  /\ accepted' = accepted \cup {issued'}
  /\ \E answer \in Granted :
       /\ wire' = [wire EXCEPT !.answer = answer]
       /\ refreshable' = IF style = "refresh" /\ answer = "names"
                         THEN (refreshable \ {refresh}) \cup {issued'}
                         ELSE refreshable
  /\ UNCHANGED <<style, token, refresh, fresh, holder, queue, phase, used, retried, refused, disturbed>>

(* 400 or 401 with error invalid_grant: only for a refresh token that is dead. *)
ServerDenies ==
  /\ wire.answer = "pending"
  /\ wire.grant = "refresh" /\ refresh \notin refreshable
  /\ wire' = [wire EXCEPT !.answer = "invalid_grant"]
  /\ refused' = refused \cup {refresh}
  /\ UNCHANGED <<style, token, refresh, fresh, holder, queue, phase, used, retried, server, disturbed>>

(* Any other refusal, a 5xx, a connection failure or a payload that            *)
(* _set_token refuses: missing or malformed access token, lifetime or refresh  *)
(* token.                                                                      *)
ServerFails ==
  /\ wire.answer = "pending"
  /\ wire' = [wire EXCEPT !.answer = "fault"]
  /\ UNCHANGED <<style, token, refresh, fresh, holder, queue, phase, used, retried, server, refused, disturbed>>

(* Tokens are revoked or expire on the server at any time. *)
Revoke ==
  /\ \/ \E t \in accepted : accepted' = accepted \ {t} /\ UNCHANGED refreshable
     \/ \E t \in refreshable : refreshable' = refreshable \ {t} /\ UNCHANGED accepted
  /\ UNCHANGED <<manager, phase, used, retried, issued, refused, disturbed>>

(* The clock passes refresh_at. *)
Age ==
  /\ fresh
  /\ fresh' = FALSE
  /\ UNCHANGED <<style, token, refresh, holder, queue, wire, phase, used, retried, server, refused, disturbed>>

-----------------------------------------------------------------------------
(* Fault: previous_refresh survives the fallback to the password. *)
PreviousAlwaysKept ==
  CASE style = "password" \/ wire.answer = "nulls" -> 0
    [] style = "refresh" /\ wire.answer = "names" -> issued
    [] style = "refresh" /\ wire.answer = "omits" -> refresh

(* The refresh token _set_token keeps.  previous_refresh is the one this grant *)
(* used: none after a fallback to the password.                                *)
KeptRefresh ==
  CASE style = "password" \/ wire.answer = "nulls" -> 0
    [] style = "refresh" /\ wire.answer = "names" -> issued
    [] style = "refresh" /\ wire.answer = "omits" ->
         IF wire.grant = "refresh" THEN refresh ELSE 0

(* Fault: the token after the one issued. *)
NextIssued == issued + 1

(* payload[access_key] *)
AccessToken == issued

(* Fault: the whole margin comes off a lifetime of any length. *)
MarginAlways(seconds) == IF seconds > Margin THEN 10 * (seconds - Margin) ELSE 0

(* refresh_at: how long a token is fresh, in tenths of a second; the margin     *)
(* takes at most a tenth of its lifetime.                                       *)
FreshFor(seconds) ==
  10 * seconds - (IF 10 * Margin < seconds THEN 10 * Margin ELSE seconds)

(* The answer arrives: _set_token, and the lock is released. *)
ReceiveTokens(c) ==
  /\ holder = c /\ wire.answer \in Granted
  /\ token' = AccessToken
  /\ \E seconds \in Lifetimes : fresh' = (FreshFor(seconds) > 0)
  /\ refresh' = KeptRefresh
  /\ holder' = Nobody /\ wire' = NoWire
  /\ used' = [used EXCEPT ![c] = AccessToken]
  /\ phase' = [phase EXCEPT ![c] = "sent"]
  /\ UNCHANGED <<style, queue, retried, server, refused, disturbed>>

(* Fault: an error leaves the lock locked. *)
StaysLocked == UNCHANGED holder

(* `async with` releases the lock whatever is raised. *)
Unlock == holder' = Nobody

(* Fault: invalid_grant is an error like any other. *)
NoFallBack(c) ==
  /\ holder = c /\ wire.answer = "invalid_grant"
  /\ Unlock /\ wire' = NoWire
  /\ phase' = [phase EXCEPT ![c] = "failed"]
  /\ UNCHANGED <<style, token, refresh, fresh, queue, used, retried, server, refused, disturbed>>

(* _invalid_refresh(resp): one fallback to the password, still under the lock. *)
FallBack(c) ==
  /\ holder = c /\ wire.answer = "invalid_grant"
  /\ wire' = [grant |-> "password", answer |-> "pending"]
  /\ UNCHANGED <<style, token, refresh, fresh, holder, queue, phase, used, retried, server, refused, disturbed>>

(* The handshake raises: the lock is released and the cached token stays.      *)
ReceiveFault(c) ==
  /\ holder = c /\ wire.answer = "fault"
  /\ Unlock /\ wire' = NoWire
  /\ phase' = [phase EXCEPT ![c] = "failed"]
  /\ disturbed' = disturbed \cup {c}
  /\ UNCHANGED <<style, token, refresh, fresh, queue, used, retried, server, refused>>

(* A cancelled waiter leaves the lock's queue. *)
LeavesQueue(c) ==
  IF phase[c] = "queued"
  THEN \E i \in DOMAIN queue : queue[i] = c /\ queue' = RemoveAt(queue, i)
  ELSE UNCHANGED queue

(* The caller is cancelled, or its time budget runs out, wherever it waits.    *)
(* The server may or may not have acted on the handshake it abandons.          *)
Cancel(c) ==
  /\ phase[c] \in {"queued", "handshake", "sent"}
  /\ phase' = [phase EXCEPT ![c] = "failed"]
  /\ LeavesQueue(c)
  /\ IF holder = c THEN Unlock /\ wire' = NoWire ELSE UNCHANGED <<holder, wire>>
  /\ disturbed' = disturbed \cup {c}
  /\ UNCHANGED <<style, token, refresh, fresh, used, retried, server, refused>>

Next ==
  \/ \E c \in Call :
       \/ Start(c) \/ Accepted(c) \/ Rejected(c) \/ Cancel(c)
       \/ ReceiveTokens(c) \/ FallBack(c) \/ ReceiveFault(c)
  \/ Wake \/ ServerIssues \/ ServerDenies \/ ServerFails \/ Revoke \/ Age

(* The event loop runs whoever can run, and send_request's budget ends every   *)
(* exchange with the server, with an answer or with an error.                  *)
Fairness ==
  /\ WF_vars(Wake)
  /\ WF_vars(ServerIssues \/ ServerDenies \/ ServerFails)
  /\ \A c \in Call : /\ WF_vars(ReceiveTokens(c) \/ FallBack(c) \/ ReceiveFault(c))
                     /\ WF_vars(Accepted(c) \/ Rejected(c))

Spec == Init /\ [][Next]_vars

FairSpec == Spec /\ Fairness

-----------------------------------------------------------------------------
(* A burst of 401s costs one handshake (the comment in force_refresh): a token  *)
(* that is fresh and that the server still accepts is never replaced, however   *)
(* many callers come back rejected with an older one; and a token just received *)
(* is fresh, however short its lifetime.                                        *)
GoodTokenKept ==
  [][token' # token => (~fresh \/ token \notin accepted) /\ fresh']_vars

(* The retry after a 401 never carries the rejected token again, whoever        *)
(* renewed it meanwhile.                                                        *)
RetryCarriesNewToken ==
  [][\A c \in Call :
       retried'[c] /\ phase'[c] = "sent" /\ ~(retried[c] /\ phase[c] = "sent")
         => used'[c] # used[c]]_vars

(* A request fails only for a reason of its own: its handshake failed, it was   *)
(* cancelled, or the server no longer accepts the token it retried with.  What  *)
(* earlier callers left behind (a failed or abandoned handshake, a refresh      *)
(* token the server rotated away) never fails another request.                  *)
NoCollateralFailure ==
  \A c \in Call : phase[c] = "failed" =>
    c \in disturbed \/ (retried[c] /\ used[c] \notin accepted)

(* A refresh token the server refused does not survive the next successful      *)
(* handshake.                                                                   *)
RefusedIsForgotten ==
  [][token' # token => refresh' = 0 \/ refresh' \notin refused']_vars

(* Every request ends, whoever failed or was cancelled while it waited for the  *)
(* lock.                                                                        *)
EveryRequestEnds ==
  \A c \in Call : phase[c] # "new" ~> phase[c] \in {"done", "failed"}
=============================================================================
