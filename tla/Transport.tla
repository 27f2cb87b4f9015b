------------------------------ MODULE Transport ------------------------------
(***************************************************************************)
(* src/eset_mcp/transport.py: send_request, the retry, polling and time    *)
(* budget logic under every business request and every handshake.          *)
(*                                                                         *)
(* One behaviour is one call of send_request against an upstream that may  *)
(* answer anything.  Time is counted in ticks of 1/32 s, the coarsest unit *)
(* in which POLL_INTERVAL_S * 1.5^n is exact until it reaches its cap; it  *)
(* only passes while the call waits, so each wait is one step that moves   *)
(* the clock.                                                              *)
(***************************************************************************)
EXTENDS Integers

CONSTANTS Second,      \* ticks in a second
          Budget,      \* ticks in the time budget (PENDING_BUDGET_S)
          Latencies,   \* ticks an answer, a failure or a token renewal may take
          MaxSent,     \* bound: requests counted, beyond any number a call sends
          RetryAfters  \* what parse_retry_after makes of the Retry-After header

ASSUME TimeAssumption == /\ Second \in Nat /\ Second % 32 = 0 /\ Second > 0
                         /\ Budget \in Nat \ {0}
                         /\ Latencies \subseteq Nat
                         /\ MaxSent \in Nat

(* The poll interval reaches its cap within the budget. *)
ASSUME BudgetAssumption == Budget >= 64 * Second

NoDelay == -1   \* parse_retry_after returned None: absent, unreadable, negative or not finite

ASSUME RetryAfterAssumption == RetryAfters \subseteq Nat \cup {NoDelay}

PollInterval == 2 * Second
MaxPollInterval == 30 * Second

VARIABLES
  method,         \* "read" for GET and HEAD, "write" for any other
  renewable,      \* refresh is not None: a business request, not a handshake
  now,            \* time since the call began
  pc,             \* "ready", "sent", "renewing", "returned" or "raised"
  rateRetries,    \* rate_retries
  serverRetries,  \* server_retries
  authRetried,    \* auth_retried
  pollInterval,   \* poll_interval
  job,            \* headers["response-id"] is set
  sent,           \* requests sent so far, up to MaxSent
  effects         \* upstream: how many of them may have taken effect, up to 2

vars == <<method, renewable, now, pc, rateRetries, serverRetries, authRetried,
          pollInterval, job, sent, effects>>

TypeOK ==
  /\ method \in {"read", "write"} /\ renewable \in BOOLEAN
  /\ now \in Nat
  /\ pc \in {"ready", "sent", "renewing", "returned", "raised"}
  /\ rateRetries \in 0 .. 3 /\ serverRetries \in 0 .. 1 /\ authRetried \in BOOLEAN
  /\ pollInterval \in PollInterval .. MaxPollInterval
  /\ job \in BOOLEAN
  /\ sent \in Nat /\ effects \in 0 .. 2

Init ==
  /\ method \in {"read", "write"} /\ renewable \in BOOLEAN
  /\ now = 0 /\ pc = "ready"
  /\ rateRetries = 0 /\ serverRetries = 0 /\ authRetried = FALSE
  /\ pollInterval = PollInterval
  /\ job = FALSE /\ sent = 0 /\ effects = 0

Remaining == Budget - now

-----------------------------------------------------------------------------
(* The top of the loop: send, unless the budget is spent. *)
Send ==
  /\ pc = "ready" /\ Remaining > 0
  /\ pc' = "sent"
  /\ sent' = IF sent < MaxSent THEN sent + 1 ELSE sent
  /\ UNCHANGED <<method, renewable, now, rateRetries, serverRetries, authRetried,
                 pollInterval, job, effects>>

(* TimeoutError becomes EsetApiError 504, any other httpx.RequestError 502. *)
Raise == pc' = "raised"

BudgetSpent ==
  /\ pc = "ready" /\ Remaining <= 0
  /\ Raise
  /\ UNCHANGED <<method, renewable, now, rateRetries, serverRetries, authRetried,
                 pollInterval, job, sent, effects>>

(* When an answer may arrive: after one of the latencies, or at the last       *)
(* moment before asyncio.timeout fires.                                        *)
Arrivals == {now + latency : latency \in {l \in Latencies : l <= Remaining}} \cup {Budget}

Arrives == now' \in Arrivals

(* Operators commented as a fault are the bugs the mutation checks seed in     *)
(* place of the operator that follows; no action uses them.                    *)

(* Fault: the call sleeps without looking at the deadline. *)
SleepAnyway(delay) == \E arrival \in Arrivals : pc' = "ready" /\ now' = arrival + delay

(* The answer is in; `if delay >= deadline - time.monotonic()` gives up, else  *)
(* the call sleeps and goes round again.                                       *)
Sleep(delay) ==
  \E arrival \in Arrivals :
    IF delay >= Budget - arrival
    THEN Raise /\ now' = arrival
    ELSE pc' = "ready" /\ now' = arrival + delay

(* A request that names a pending job only asks for its result. *)
TakesEffect(n) == effects' = IF job \/ effects = 2 THEN effects ELSE effects + n

(* 2 ** n seconds, n < 3. *)
Backoff(n) == <<1, 2, 4>>[n + 1] * Second

Unauthorized ==
  /\ pc = "sent"
  /\ Arrives
  /\ IF renewable /\ ~authRetried
     THEN authRetried' = TRUE /\ pc' = "renewing"
     ELSE UNCHANGED authRetried /\ pc' = "returned"
  /\ UNCHANGED <<method, renewable, rateRetries, serverRetries, pollInterval, job, sent, effects>>

(* `await refresh()` returns the renewed token, or raises what the handshake raised. *)
Renewed ==
  /\ pc = "renewing"
  /\ Arrives
  /\ \/ pc' = "ready"
     \/ Raise
  /\ UNCHANGED <<method, renewable, rateRetries, serverRetries, authRetried,
                 pollInterval, job, sent, effects>>

RateRetryLeft == rateRetries < 3

RateLimited ==
  /\ pc = "sent"
  /\ IF RateRetryLeft
     THEN /\ rateRetries' = rateRetries + 1
          /\ \E after \in RetryAfters :
               Sleep(IF after = NoDelay THEN Backoff(rateRetries) ELSE after)
     ELSE pc' = "returned" /\ Arrives /\ UNCHANGED rateRetries
  /\ UNCHANGED <<method, renewable, serverRetries, authRetried, pollInterval, job, sent, effects>>

(* Faults: the interval does not grow; it grows without a cap. *)
SamePoll == pollInterval
UncappedPoll == (pollInterval * 3) \div 2

(* min(poll_interval * 1.5, 30.0) *)
NextPoll == IF (pollInterval * 3) \div 2 < MaxPollInterval
            THEN (pollInterval * 3) \div 2
            ELSE MaxPollInterval

(* Fault: polls follow each other at once. *)
NoPollDelay == 0

PollDelay == pollInterval

(* 202: the first one must name the job, which later requests then carry. *)
Pending ==
  /\ pc = "sent"
  /\ TakesEffect(1)
  /\ \/ /\ job' = TRUE
        /\ pollInterval' = NextPoll
        /\ Sleep(PollDelay)
     \/ ~job /\ Raise /\ Arrives /\ UNCHANGED <<job, pollInterval>>
  /\ UNCHANGED <<method, renewable, rateRetries, serverRetries, authRetried, sent>>

(* Fault: any method is retried. *)
RetriesWrites == serverRetries < 1

ServerRetryLeft == method = "read" /\ serverRetries < 1

(* A 5xx leaves open whether the request took effect. *)
ServerError ==
  /\ pc = "sent"
  /\ \E n \in {0, 1} : TakesEffect(n)
  /\ IF ServerRetryLeft
     THEN serverRetries' = serverRetries + 1 /\ Sleep(Second)
     ELSE pc' = "returned" /\ Arrives /\ UNCHANGED serverRetries
  /\ UNCHANGED <<method, renewable, rateRetries, authRetried, pollInterval, job, sent>>

(* Any other status is returned; only a success took effect. *)
Answered ==
  /\ pc = "sent"
  /\ \E n \in {0, 1} : TakesEffect(n)
  /\ pc' = "returned"
  /\ Arrives
  /\ UNCHANGED <<method, renewable, rateRetries, serverRetries, authRetried,
                 pollInterval, job, sent>>

(* The connection fails, the socket timeout expires, or asyncio.timeout fires  *)
(* at the deadline; the request may have taken effect.                         *)
Lost ==
  /\ pc \in {"sent", "renewing"}
  /\ \E n \in IF pc = "sent" THEN {0, 1} ELSE {0} : TakesEffect(n)
  /\ Raise
  /\ Arrives
  /\ UNCHANGED <<method, renewable, rateRetries, serverRetries, authRetried,
                 pollInterval, job, sent>>

Next == \/ Send \/ BudgetSpent
        \/ Unauthorized \/ Renewed \/ RateLimited \/ Pending \/ ServerError
        \/ Answered \/ Lost

(* Whatever the call waits for ends: at the latest asyncio.timeout ends it. *)
Spec == Init /\ [][Next]_vars

FairSpec == Spec /\ WF_vars(Next)

-----------------------------------------------------------------------------
Ended == pc \in {"returned", "raised"}

(* A write takes effect at most once, however often it is retried, polled or    *)
(* renewed (the docstring: only GET/HEAD may retry 5xx, transport failures are  *)
(* never replayed).                                                             *)
WritesAtMostOnce == method = "write" => effects <= 1

(* The requests one call can cost the upstream: the first, one renewed, three   *)
(* rate-limited, one after a 5xx, and as many polls as the growing interval     *)
(* fits into the budget (seven of them in the 64 s before the interval is       *)
(* capped).                                                                     *)
MaxPolls == 7 + (Budget - 64 * Second) \div MaxPollInterval
RequestsBounded == sent <= 6 + MaxPolls

(* No wait, and no answer waited for, outlives the budget. *)
WithinBudget == now <= Budget

(* A rate-limited request is tried at most three times ("exponential backoff,   *)
(* max 3 tries", http_client.py).  It does not hold: rate_retries counts the    *)
(* retries, so the fourth try is still made.                                    *)
RateLimitedTries ==
  ~authRetried /\ ~job /\ serverRetries = 0 => sent <= 3

(* Every call returns or raises: no answer keeps it going past its budget.      *)
Terminates == <>Ended
=============================================================================
