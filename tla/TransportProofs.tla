--------------------------- MODULE TransportProofs ---------------------------
(* Safety of send_request for every clock rate, budget and set of latencies. *)
EXTENDS Transport, TLAPS

(* The poll interval stays between POLL_INTERVAL_S and its cap. *)
LEMMA NextPollBounded ==
  ASSUME pollInterval \in PollInterval .. MaxPollInterval
  PROVE  NextPoll \in PollInterval .. MaxPollInterval
  BY TimeAssumption DEF NextPoll, PollInterval, MaxPollInterval

(* An answer arrives no earlier than it was asked for, and within the budget. *)
LEMMA ArrivalsBounded ==
  ASSUME now \in Nat, now <= Budget, NEW arrival \in Arrivals
  PROVE  arrival \in Nat /\ now <= arrival /\ arrival <= Budget
  BY TimeAssumption DEF Arrivals, Remaining

(* A wait ends within the budget, or is given up. *)
LEMMA SleepBounded ==
  ASSUME now \in Nat, now <= Budget, NEW delay \in Nat, Sleep(delay)
  PROVE  /\ now' \in Nat /\ now <= now' /\ now' <= Budget
         /\ pc' \in {"ready", "raised"}
         /\ pc' = "ready" => now + delay <= now'
<1>1. PICK arrival \in Arrivals :
        IF delay >= Budget - arrival
        THEN Raise /\ now' = arrival
        ELSE pc' = "ready" /\ now' = arrival + delay
  BY DEF Sleep
<1>2. arrival \in Nat /\ now <= arrival /\ arrival <= Budget
  BY ArrivalsBounded
<1>. QED
  BY <1>1, <1>2, TimeAssumption DEF Raise

LEMMA BackoffIsNat == ASSUME NEW n \in 0 .. 2 PROVE Backoff(n) \in Nat
<1>1. CASE n = 0 BY <1>1, TimeAssumption DEF Backoff
<1>2. CASE n = 1 BY <1>2, TimeAssumption DEF Backoff
<1>3. CASE n = 2 BY <1>3, TimeAssumption DEF Backoff
<1>. QED BY <1>1, <1>2, <1>3

-----------------------------------------------------------------------------
Timed == TypeOK /\ WithinBudget

LEMMA InitTimed == Init => Timed
<1>1. PollInterval \in PollInterval .. MaxPollInterval
  BY TimeAssumption DEF PollInterval, MaxPollInterval
<1>2. 0 <= Budget
  BY TimeAssumption
<1>3. Init => pollInterval \in PollInterval .. MaxPollInterval
  BY <1>1, Zenon DEF Init
<1>4. Init => TypeOK
  <2>. SUFFICES ASSUME Init PROVE TypeOK
    OBVIOUS
  <2>1. renewable \in BOOLEAN /\ authRetried \in BOOLEAN /\ job \in BOOLEAN
    BY Zenon DEF Init
  <2>2. now \in Nat /\ sent \in Nat /\ effects \in 0 .. 2
    BY DEF Init
  <2>3. rateRetries \in 0 .. 3 /\ serverRetries \in 0 .. 1
    BY DEF Init
  <2>4. pollInterval \in PollInterval .. MaxPollInterval
    BY <1>3
  <2>5. /\ method \in {"read", "write"}
        /\ pc \in {"ready", "sent", "renewing", "returned", "raised"}
    BY Zenon DEF Init
  <2>. QED BY <2>1, <2>2, <2>3, <2>4, <2>5, Zenon DEF TypeOK
<1>5. Init => WithinBudget
  BY <1>2 DEF Init, WithinBudget
<1>. QED BY <1>4, <1>5 DEF Timed

LEMMA EffectBounded ==
  ASSUME effects \in 0 .. 2, job \in BOOLEAN, NEW n \in {0, 1}, TakesEffect(n)
  PROVE  effects' \in 0 .. 2
  BY DEF TakesEffect

LEMMA StepTimed == Timed /\ [Next]_vars => Timed'
<1>. SUFFICES ASSUME Timed, [Next]_vars PROVE Timed'
  OBVIOUS
<1>. USE DEF Timed
<1>1. CASE Send
  BY <1>1, TimeAssumption DEF Send, TypeOK, WithinBudget
<1>2. CASE BudgetSpent
  BY <1>2 DEF BudgetSpent, Raise, TypeOK, WithinBudget
<1>3. CASE Unauthorized
  <2>1. now' \in Nat /\ now' <= Budget
    BY <1>3, ArrivalsBounded DEF Unauthorized, Arrives, TypeOK, WithinBudget
  <2>. QED BY <1>3, <2>1 DEF Unauthorized, TypeOK, WithinBudget
<1>4. CASE Renewed
  <2>1. now' \in Nat /\ now' <= Budget
    BY <1>4, ArrivalsBounded DEF Renewed, Arrives, TypeOK, WithinBudget
  <2>. QED BY <1>4, <2>1 DEF Renewed, Raise, TypeOK, WithinBudget
<1>5. CASE RateLimited
  <2>1. CASE RateRetryLeft
    <3>1. PICK after \in RetryAfters :
            Sleep(IF after = NoDelay THEN Backoff(rateRetries) ELSE after)
      BY <1>5, <2>1 DEF RateLimited
    <3>2. rateRetries \in 0 .. 2
      BY <2>1 DEF RateRetryLeft, TypeOK
    <3>3. (IF after = NoDelay THEN Backoff(rateRetries) ELSE after) \in Nat
      BY <3>2, BackoffIsNat, RetryAfterAssumption DEF NoDelay
    <3>4. now' \in Nat /\ now' <= Budget /\ pc' \in {"ready", "raised"}
      BY <3>1, <3>3, SleepBounded DEF TypeOK, WithinBudget
    <3>. QED BY <1>5, <2>1, <3>2, <3>4 DEF RateLimited, TypeOK, WithinBudget
  <2>2. CASE ~RateRetryLeft
    <3>1. now' \in Nat /\ now' <= Budget
      BY <1>5, <2>2, ArrivalsBounded DEF RateLimited, Arrives, TypeOK, WithinBudget
    <3>. QED BY <1>5, <2>2, <3>1 DEF RateLimited, TypeOK, WithinBudget
  <2>. QED BY <2>1, <2>2
<1>6. CASE Pending
  <2>0. effects' \in 0 .. 2
    BY <1>6, EffectBounded DEF Pending, TypeOK
  <2>1. CASE job' = TRUE /\ pollInterval' = NextPoll /\ Sleep(PollDelay)
    <3>1. PollDelay \in Nat
      BY TimeAssumption DEF PollDelay, TypeOK, PollInterval, MaxPollInterval
    <3>2. now' \in Nat /\ now' <= Budget /\ pc' \in {"ready", "raised"}
      BY <2>1, <3>1, SleepBounded DEF TypeOK, WithinBudget
    <3>3. pollInterval' \in PollInterval .. MaxPollInterval
      BY <2>1, NextPollBounded DEF TypeOK
    <3>. QED BY <1>6, <2>0, <2>1, <3>2, <3>3 DEF Pending, TypeOK, WithinBudget, PollInterval, MaxPollInterval
  <2>2. CASE ~job /\ Raise /\ Arrives /\ UNCHANGED <<job, pollInterval>>
    <3>1. now' \in Nat /\ now' <= Budget
      BY <2>2, ArrivalsBounded DEF Arrives, TypeOK, WithinBudget
    <3>. QED BY <1>6, <2>0, <2>2, <3>1 DEF Pending, Raise, TypeOK, WithinBudget
  <2>. QED BY <1>6, <2>1, <2>2 DEF Pending
<1>7. CASE ServerError
  <2>0. effects' \in 0 .. 2
    BY <1>7, EffectBounded DEF ServerError, TypeOK
  <2>1. CASE ServerRetryLeft
    <3>1. Second \in Nat
      BY TimeAssumption
    <3>2. now' \in Nat /\ now' <= Budget /\ pc' \in {"ready", "raised"}
      BY <1>7, <2>1, <3>1, SleepBounded DEF ServerError, TypeOK, WithinBudget
    <3>. QED BY <1>7, <2>0, <2>1, <3>2 DEF ServerError, ServerRetryLeft, TypeOK, WithinBudget
  <2>2. CASE ~ServerRetryLeft
    <3>1. now' \in Nat /\ now' <= Budget
      BY <1>7, <2>2, ArrivalsBounded DEF ServerError, Arrives, TypeOK, WithinBudget
    <3>. QED BY <1>7, <2>0, <2>2, <3>1 DEF ServerError, TypeOK, WithinBudget
  <2>. QED BY <2>1, <2>2
<1>8. CASE Answered
  <2>0. effects' \in 0 .. 2
    BY <1>8, EffectBounded DEF Answered, TypeOK
  <2>1. now' \in Nat /\ now' <= Budget
    BY <1>8, ArrivalsBounded DEF Answered, Arrives, TypeOK, WithinBudget
  <2>. QED BY <1>8, <2>0, <2>1 DEF Answered, TypeOK, WithinBudget
<1>9. CASE Lost
  <2>0. effects' \in 0 .. 2
    BY <1>9, EffectBounded DEF Lost, TypeOK
  <2>1. now' \in Nat /\ now' <= Budget
    BY <1>9, ArrivalsBounded DEF Lost, Arrives, TypeOK, WithinBudget
  <2>. QED BY <1>9, <2>0, <2>1 DEF Lost, Raise, TypeOK, WithinBudget
<1>10. CASE UNCHANGED vars
  BY <1>10 DEF vars, TypeOK, WithinBudget
<1>. QED
  BY <1>1, <1>2, <1>3, <1>4, <1>5, <1>6, <1>7, <1>8, <1>9, <1>10 DEF Next

(* Every variable of a call keeps its type. *)
THEOREM TypeCorrect == Spec => []TypeOK
<1>1. Spec => []Timed
  BY InitTimed, StepTimed, PTL DEF Spec
<1>. QED BY <1>1, PTL DEF Timed

(* No call outlives its time budget, whatever Retry-After headers, poll         *)
(* intervals and latencies it meets: what send_request's deadline is for.       *)
THEOREM BudgetKept == Spec => []WithinBudget
<1>1. Spec => []Timed
  BY InitTimed, StepTimed, PTL DEF Spec
<1>. QED BY <1>1, PTL DEF Timed
-----------------------------------------------------------------------------
(* WritesAtMostOnce is not inductive: a write that took effect and is still     *)
(* under way must never be sent again as a new request.  It is not, because it  *)
(* is then a pending job.                                                       *)
EffectSettled ==
  method = "write" /\ ~job /\ pc \in {"ready", "sent", "renewing"} => effects = 0

WriteInv == TypeOK /\ WritesAtMostOnce /\ EffectSettled

LEMMA StepWrite == WriteInv /\ TypeOK' /\ [Next]_vars => WriteInv'
<1>. SUFFICES ASSUME WriteInv, TypeOK', [Next]_vars
              PROVE  WritesAtMostOnce' /\ EffectSettled'
  BY DEF WriteInv
<1>. USE DEF WriteInv, TypeOK, WritesAtMostOnce, EffectSettled
<1>1. CASE Send
  BY <1>1 DEF Send
<1>2. CASE BudgetSpent
  BY <1>2 DEF BudgetSpent, Raise
<1>3. CASE Unauthorized
  BY <1>3 DEF Unauthorized
<1>4. CASE Renewed
  BY <1>4 DEF Renewed, Raise
<1>5. CASE RateLimited
  BY <1>5 DEF RateLimited
<1>6. CASE Pending
  <2>1. CASE method = "write"
    <3>1. effects' <= 1
      BY <1>6, <2>1 DEF Pending, TakesEffect
    <3>2. job' = TRUE \/ pc' = "raised"
      BY <1>6 DEF Pending, Raise
    <3>. QED BY <1>6, <3>1, <3>2 DEF Pending
  <2>2. CASE method # "write"
    BY <1>6, <2>2 DEF Pending
  <2>. QED BY <2>1, <2>2
<1>7. CASE ServerError
  <2>1. CASE method = "write"
    <3>1. effects' <= 1
      BY <1>7, <2>1 DEF ServerError, TakesEffect
    <3>2. pc' = "returned"
      BY <1>7, <2>1 DEF ServerError, ServerRetryLeft
    <3>. QED BY <1>7, <3>1, <3>2 DEF ServerError
  <2>2. CASE method # "write"
    BY <1>7, <2>2 DEF ServerError
  <2>. QED BY <2>1, <2>2
<1>8. CASE Answered
  BY <1>8 DEF Answered, TakesEffect
<1>9. CASE Lost
  BY <1>9 DEF Lost, Raise, TakesEffect
<1>10. CASE UNCHANGED vars
  BY <1>10 DEF vars
<1>. QED
  BY <1>1, <1>2, <1>3, <1>4, <1>5, <1>6, <1>7, <1>8, <1>9, <1>10 DEF Next

(* A write takes effect at most once, however often send_request retries,       *)
(* renews or polls: for every budget, latency and Retry-After.                  *)
THEOREM WritesAreNotReplayed == Spec => []WritesAtMostOnce
<1>1. Init /\ TypeOK => WriteInv
  BY DEF Init, WriteInv, WritesAtMostOnce, EffectSettled
<1>2. Spec => []TypeOK
  BY TypeCorrect
<1>3. WriteInv => WritesAtMostOnce
  BY DEF WriteInv
<1>. QED BY <1>1, <1>2, <1>3, StepWrite, PTL DEF Spec
-----------------------------------------------------------------------------
(* How many polls a call made can be read off its poll interval and its clock.  *)
(* The interval is 2 s * 1.5^n until it is capped after seven polls, and each   *)
(* poll waited for the interval before it; in units of Second / 32:             *)
Interval == <<64, 96, 144, 216, 324, 486, 729>>
Waited == <<0, 64, 160, 304, 520, 844, 1330>>

PollsTook(n) ==
  \/ /\ n \in 0 .. 6
     /\ 32 * pollInterval = Interval[n + 1] * Second
     /\ 32 * now >= Waited[n + 1] * Second
  \/ /\ n \in Nat /\ n >= 7
     /\ pollInterval = MaxPollInterval
     /\ now >= 64 * Second + (n - 7) * MaxPollInterval

(* Waiting alone changes no count of polls. *)
LEMMA PollsKept ==
  ASSUME NEW n \in Nat, PollsTook(n), now \in Nat, now' \in Nat, now' >= now,
         pollInterval' = pollInterval
  PROVE  PollsTook(n)'
<1>1. CASE n \in 0 .. 6
  <2>1. 32 * pollInterval' = Interval[n + 1] * Second
    BY <1>1 DEF PollsTook
  <2>2. Interval[n + 1] \in Nat /\ Waited[n + 1] \in Nat
    BY <1>1 DEF Interval, Waited
  <2>3. PICK w \in Nat : w = Waited[n + 1]
    BY <2>2
  <2>4. 32 * now >= w * Second
    BY <1>1, <2>3 DEF PollsTook
  <2>5. 32 * now' >= w * Second
    <3>1. w * Second \in Nat
      BY TimeAssumption
    <3>. QED BY <2>4, <3>1
  <2>. QED BY <1>1, <2>1, <2>3, <2>5 DEF PollsTook
<1>2. CASE n >= 7
  <2>1. pollInterval = MaxPollInterval /\ now >= 64 * Second + (n - 7) * MaxPollInterval
    BY <1>2 DEF PollsTook
  <2>2. MaxPollInterval \in Nat /\ MaxPollInterval' = MaxPollInterval
    BY TimeAssumption DEF MaxPollInterval
  <2>3. now' >= 64 * Second + (n - 7) * MaxPollInterval
    BY <2>1, <2>2, <1>2, TimeAssumption
  <2>. QED BY <1>2, <2>1, <2>3 DEF PollsTook
<1>. QED BY <1>1, <1>2

(* A poll waits for the interval, and the interval grows. *)
LEMMA PollCounted ==
  ASSUME NEW n \in Nat, PollsTook(n), now \in Nat, now' \in Nat, pollInterval \in Nat,
         now' >= now + pollInterval, pollInterval' = NextPoll
  PROVE  PollsTook(n + 1)'
<1>1. PICK k \in Nat : Second = 32 * k /\ k > 0
  BY TimeAssumption
<1>2. CASE n = 0
  <2>0. 32 * pollInterval = 64 * Second /\ 32 * now >= 0 * Second
    <3>1. Interval[n + 1] = 64 /\ Waited[n + 1] = 0
      BY <1>2 DEF Interval, Waited
    <3>. QED BY <1>2, <3>1 DEF PollsTook
  <2>1. pollInterval = 64 * k /\ now >= 0 * k
    BY <1>1, <2>0
  <2>2. pollInterval' = 96 * k /\ now' >= 64 * k
    BY <1>1, <2>1 DEF NextPoll, MaxPollInterval
  <2>3. Interval[n + 2] = 96 /\ Waited[n + 2] = 64
    BY <1>2 DEF Interval, Waited
  <2>4. 32 * pollInterval' = 96 * Second
    BY <1>1, <2>2
  <2>5. 32 * now' >= 64 * Second
    <3>1. 64 * Second = 32 * (64 * k)
      BY <1>1
    <3>. QED BY <2>2, <3>1
  <2>. QED BY <1>2, <2>3, <2>4, <2>5 DEF PollsTook
<1>3. CASE n = 1
  <2>0. 32 * pollInterval = 96 * Second /\ 32 * now >= 64 * Second
    <3>1. Interval[n + 1] = 96 /\ Waited[n + 1] = 64
      BY <1>3 DEF Interval, Waited
    <3>. QED BY <1>3, <3>1 DEF PollsTook
  <2>1. pollInterval = 96 * k /\ now >= 64 * k
    BY <1>1, <2>0
  <2>2. pollInterval' = 144 * k /\ now' >= 160 * k
    BY <1>1, <2>1 DEF NextPoll, MaxPollInterval
  <2>3. Interval[n + 2] = 144 /\ Waited[n + 2] = 160
    BY <1>3 DEF Interval, Waited
  <2>4. 32 * pollInterval' = 144 * Second
    BY <1>1, <2>2
  <2>5. 32 * now' >= 160 * Second
    <3>1. 160 * Second = 32 * (160 * k)
      BY <1>1
    <3>. QED BY <2>2, <3>1
  <2>. QED BY <1>3, <2>3, <2>4, <2>5 DEF PollsTook
<1>4. CASE n = 2
  <2>0. 32 * pollInterval = 144 * Second /\ 32 * now >= 160 * Second
    <3>1. Interval[n + 1] = 144 /\ Waited[n + 1] = 160
      BY <1>4 DEF Interval, Waited
    <3>. QED BY <1>4, <3>1 DEF PollsTook
  <2>1. pollInterval = 144 * k /\ now >= 160 * k
    BY <1>1, <2>0
  <2>2. pollInterval' = 216 * k /\ now' >= 304 * k
    BY <1>1, <2>1 DEF NextPoll, MaxPollInterval
  <2>3. Interval[n + 2] = 216 /\ Waited[n + 2] = 304
    BY <1>4 DEF Interval, Waited
  <2>4. 32 * pollInterval' = 216 * Second
    BY <1>1, <2>2
  <2>5. 32 * now' >= 304 * Second
    <3>1. 304 * Second = 32 * (304 * k)
      BY <1>1
    <3>. QED BY <2>2, <3>1
  <2>. QED BY <1>4, <2>3, <2>4, <2>5 DEF PollsTook
<1>5. CASE n = 3
  <2>0. 32 * pollInterval = 216 * Second /\ 32 * now >= 304 * Second
    <3>1. Interval[n + 1] = 216 /\ Waited[n + 1] = 304
      BY <1>5 DEF Interval, Waited
    <3>. QED BY <1>5, <3>1 DEF PollsTook
  <2>1. pollInterval = 216 * k /\ now >= 304 * k
    BY <1>1, <2>0
  <2>2. pollInterval' = 324 * k /\ now' >= 520 * k
    BY <1>1, <2>1 DEF NextPoll, MaxPollInterval
  <2>3. Interval[n + 2] = 324 /\ Waited[n + 2] = 520
    BY <1>5 DEF Interval, Waited
  <2>4. 32 * pollInterval' = 324 * Second
    BY <1>1, <2>2
  <2>5. 32 * now' >= 520 * Second
    <3>1. 520 * Second = 32 * (520 * k)
      BY <1>1
    <3>. QED BY <2>2, <3>1
  <2>. QED BY <1>5, <2>3, <2>4, <2>5 DEF PollsTook
<1>6. CASE n = 4
  <2>0. 32 * pollInterval = 324 * Second /\ 32 * now >= 520 * Second
    <3>1. Interval[n + 1] = 324 /\ Waited[n + 1] = 520
      BY <1>6 DEF Interval, Waited
    <3>. QED BY <1>6, <3>1 DEF PollsTook
  <2>1. pollInterval = 324 * k /\ now >= 520 * k
    BY <1>1, <2>0
  <2>2. pollInterval' = 486 * k /\ now' >= 844 * k
    BY <1>1, <2>1 DEF NextPoll, MaxPollInterval
  <2>3. Interval[n + 2] = 486 /\ Waited[n + 2] = 844
    BY <1>6 DEF Interval, Waited
  <2>4. 32 * pollInterval' = 486 * Second
    BY <1>1, <2>2
  <2>5. 32 * now' >= 844 * Second
    <3>1. 844 * Second = 32 * (844 * k)
      BY <1>1
    <3>. QED BY <2>2, <3>1
  <2>. QED BY <1>6, <2>3, <2>4, <2>5 DEF PollsTook
<1>7. CASE n = 5
  <2>0. 32 * pollInterval = 486 * Second /\ 32 * now >= 844 * Second
    <3>1. Interval[n + 1] = 486 /\ Waited[n + 1] = 844
      BY <1>7 DEF Interval, Waited
    <3>. QED BY <1>7, <3>1 DEF PollsTook
  <2>1. pollInterval = 486 * k /\ now >= 844 * k
    BY <1>1, <2>0
  <2>2. pollInterval' = 729 * k /\ now' >= 1330 * k
    BY <1>1, <2>1 DEF NextPoll, MaxPollInterval
  <2>3. Interval[n + 2] = 729 /\ Waited[n + 2] = 1330
    BY <1>7 DEF Interval, Waited
  <2>4. 32 * pollInterval' = 729 * Second
    BY <1>1, <2>2
  <2>5. 32 * now' >= 1330 * Second
    <3>1. 1330 * Second = 32 * (1330 * k)
      BY <1>1
    <3>. QED BY <2>2, <3>1
  <2>. QED BY <1>7, <2>3, <2>4, <2>5 DEF PollsTook
<1>8. CASE n = 6
  <2>0. 32 * pollInterval = 729 * Second /\ 32 * now >= 1330 * Second
    <3>1. Interval[n + 1] = 729 /\ Waited[n + 1] = 1330
      BY <1>8 DEF Interval, Waited
    <3>. QED BY <1>8, <3>1 DEF PollsTook
  <2>1. pollInterval = 729 * k /\ now >= 1330 * k
    BY <1>1, <2>0
  <2>2. pollInterval' = MaxPollInterval /\ now' >= 2059 * k
    BY <1>1, <2>1 DEF NextPoll, MaxPollInterval
  <2>. QED BY <1>1, <1>8, <2>2 DEF PollsTook, MaxPollInterval
<1>9. CASE n >= 7
  <2>1. pollInterval = 960 * k /\ now >= 2048 * k + (n - 7) * (960 * k)
    BY <1>1, <1>9 DEF PollsTook, MaxPollInterval
  <2>2. pollInterval' = MaxPollInterval
    BY <1>1, <2>1 DEF NextPoll, MaxPollInterval
  <2>3. (n + 1 - 7) * (960 * k) = (n - 7) * (960 * k) + 960 * k
    BY <1>1
  <2>4. (n - 7) * (960 * k) \in Int /\ 960 * k \in Int /\ 2048 * k \in Int
    BY <1>1
  <2>5. now' >= 2048 * k + (n + 1 - 7) * (960 * k)
    BY <2>1, <2>3, <2>4
  <2>. QED BY <1>1, <1>9, <2>2, <2>5 DEF PollsTook, MaxPollInterval
<1>. QED
  BY <1>2, <1>3, <1>4, <1>5, <1>6, <1>7, <1>8, <1>9

(* The budget bounds the polls. *)
LEMMA PollsBounded ==
  ASSUME NEW n \in Nat, PollsTook(n), now \in Nat, now <= Budget
  PROVE  n <= MaxPolls
<1>1. MaxPollInterval \in Nat /\ MaxPollInterval > 0 /\ Budget - 64 * Second \in Nat
  BY TimeAssumption, BudgetAssumption DEF MaxPollInterval
<1>2. (Budget - 64 * Second) \div MaxPollInterval \in Nat
  BY <1>1
<1>3. CASE n \in 0 .. 6
  BY <1>2, <1>3 DEF MaxPolls
<1>4. CASE n >= 7
  <2>1. (n - 7) * MaxPollInterval <= Budget - 64 * Second
    <3>1. now >= 64 * Second + (n - 7) * MaxPollInterval
      BY <1>4 DEF PollsTook
    <3>2. (n - 7) * MaxPollInterval \in Int
      BY <1>1
    <3>. QED BY <3>1, <3>2, TimeAssumption
  <2>2. n - 7 <= (Budget - 64 * Second) \div MaxPollInterval
    <3>. DEFINE q == n - 7
                b == Budget - 64 * Second
    <3>1. q \in Nat /\ b \in Nat /\ q * MaxPollInterval <= b
      BY <1>1, <1>4, <2>1
    <3>. HIDE DEF q, b
    <3>2. q <= b \div MaxPollInterval
      BY <1>1, <3>1, Z3
    <3>. QED BY <3>2 DEF q, b
  <2>. QED BY <1>1, <1>2, <2>2 DEF MaxPolls
<1>. QED BY <1>3, <1>4 DEF PollsTook
(* Every request but the first was paid for: by a renewal, a retry or a poll.   *)
Paid == (IF authRetried THEN 1 ELSE 0) + rateRetries + serverRetries

Outstanding == IF pc = "sent" THEN 1 ELSE 0

RequestsPaid ==
  IF Ended
  THEN RequestsBounded
  ELSE \E polls \in Nat : PollsTook(polls) /\ sent <= Paid + polls + Outstanding

LEMMA PaidBounded == TypeOK => Paid \in 0 .. 5
<1>. SUFFICES ASSUME TypeOK PROVE Paid \in 0 .. 5
  OBVIOUS
<1>1. (IF authRetried THEN 1 ELSE 0) \in 0 .. 1
  OBVIOUS
<1>2. rateRetries \in 0 .. 3 /\ serverRetries \in 0 .. 1
  BY DEF TypeOK
<1>. QED BY <1>1, <1>2 DEF Paid

LEMMA MaxPollsIsNat == MaxPolls \in Nat
<1>1. MaxPollInterval \in Nat /\ MaxPollInterval > 0 /\ Budget - 64 * Second \in Nat
  BY TimeAssumption, BudgetAssumption DEF MaxPollInterval
<1>. QED BY <1>1 DEF MaxPolls

LEMMA RequestsPaidBounds ==
  ASSUME Timed, RequestsPaid PROVE RequestsBounded
<1>1. CASE Ended
  BY <1>1 DEF RequestsPaid
<1>2. CASE ~Ended
  <2>1. PICK polls \in Nat : PollsTook(polls) /\ sent <= Paid + polls + Outstanding
    BY <1>2 DEF RequestsPaid
  <2>2. polls <= MaxPolls
    BY <2>1, PollsBounded DEF Timed, TypeOK, WithinBudget
  <2>3. Outstanding \in 0 .. 1
    BY DEF Outstanding
  <2>4. Paid \in 0 .. 5 /\ sent \in Nat
    BY PaidBounded DEF Timed, TypeOK
  <2>. QED BY <2>1, <2>2, <2>3, <2>4, MaxPollsIsNat DEF RequestsBounded
<1>. QED BY <1>1, <1>2

(* A step that does not send keeps the count while the clock moves on. *)
LEMMA StillPaid ==
  ASSUME Timed, Timed', NEW polls \in Nat, PollsTook(polls),
         sent <= Paid + polls + Outstanding,
         now' >= now, pollInterval' = pollInterval,
         sent' <= Paid' + polls + Outstanding'
  PROVE  ~Ended' => RequestsPaid'
<1>1. PollsTook(polls)'
  BY PollsKept DEF Timed, TypeOK
<1>2. (\E n \in Nat : PollsTook(n) /\ sent <= Paid + n + Outstanding)'
  BY <1>1
<1>. QED BY <1>2 DEF RequestsPaid

LEMMA StepPaid == Timed /\ Timed' /\ RequestsPaid /\ [Next]_vars => RequestsPaid'
<1>. SUFFICES ASSUME Timed, Timed', RequestsPaid, [Next]_vars
              PROVE  RequestsPaid'
  OBVIOUS
<1>1. RequestsBounded
  BY RequestsPaidBounds
<1>2. ASSUME sent' = sent, Ended' PROVE RequestsPaid'
  BY <1>1, <1>2 DEF RequestsPaid, RequestsBounded, MaxPolls, MaxPollInterval
<1>3. CASE UNCHANGED vars
  BY <1>3, Zenon DEF vars, RequestsPaid, RequestsBounded, PollsTook, Paid, Outstanding, Ended,
                     MaxPolls, MaxPollInterval
<1>4. CASE Next
  <2>0. ~Ended
    BY <1>4 DEF Next, Send, BudgetSpent, Unauthorized, Renewed, RateLimited, Pending,
                ServerError, Answered, Lost, Ended
  <2>1. PICK polls \in Nat : PollsTook(polls) /\ sent <= Paid + polls + Outstanding
    BY <2>0 DEF RequestsPaid
  <2>2. Paid \in 0 .. 5 /\ Paid' \in 0 .. 5 /\ sent \in Nat /\ sent' \in Nat
    <3>1. TypeOK /\ TypeOK'
      BY DEF Timed
    <3>2. Paid \in 0 .. 5
      BY <3>1, PaidBounded
    <3>3. PICK renewal \in 0 .. 1 : renewal = IF authRetried' THEN 1 ELSE 0
      OBVIOUS
    <3>4. rateRetries' \in 0 .. 3 /\ serverRetries' \in 0 .. 1
      BY <3>1 DEF TypeOK
    <3>5. Paid' \in 0 .. 5
      <4>1. Paid' = renewal + rateRetries' + serverRetries'
        BY <3>3, Zenon DEF Paid
      <4>2. PICK rate \in 0 .. 3, server \in 0 .. 1 : rate = rateRetries' /\ server = serverRetries'
        BY <3>4
      <4>3. renewal + rate + server \in 0 .. 5
        OBVIOUS
      <4>. QED BY <4>1, <4>2, <4>3, Zenon
    <3>. QED BY <3>1, <3>2, <3>5 DEF TypeOK
  <2>3. now \in Nat /\ now' \in Nat /\ now <= Budget /\ pollInterval \in Nat
    BY TimeAssumption DEF Timed, TypeOK, WithinBudget, PollInterval, MaxPollInterval
  <2>4. ASSUME Arrives PROVE now' >= now
    BY <2>3, <2>4, ArrivalsBounded DEF Arrives
  <2>5. CASE Send
    <3>1. pc = "ready" /\ pc' = "sent" /\ sent' <= sent + 1 /\ Paid' = Paid
          /\ now' = now /\ pollInterval' = pollInterval
      BY <2>5, <2>2 DEF Send, Paid
    <3>2. Outstanding = 0 /\ Outstanding' = 1
      BY <3>1 DEF Outstanding
    <3>3. sent' <= Paid' + polls + Outstanding' /\ now' >= now
      BY <2>1, <2>2, <2>3, <3>1, <3>2
    <3>4. ~Ended'
      BY <3>1 DEF Ended
    <3>. QED BY <2>1, <3>1, <3>3, <3>4, StillPaid
  <2>6. CASE BudgetSpent
    BY <1>2, <2>6 DEF BudgetSpent, Raise, Ended
  <2>7. CASE Unauthorized
    <3>1. CASE renewable /\ ~authRetried
      <4>1. pc = "sent" /\ pc' = "renewing" /\ sent' = sent /\ pollInterval' = pollInterval
        BY <2>7, <3>1 DEF Unauthorized
      <4>2. Paid' = Paid + 1
        BY <2>7, <3>1 DEF Unauthorized, Paid, Timed, TypeOK
      <4>3. Outstanding = 1 /\ Outstanding' = 0
        BY <4>1 DEF Outstanding
      <4>4. sent' <= Paid' + polls + Outstanding'
        BY <2>1, <2>2, <4>1, <4>2, <4>3
      <4>5. now' >= now /\ ~Ended'
        BY <2>4, <2>7, <4>1 DEF Unauthorized, Ended
      <4>. QED BY <2>1, <4>1, <4>4, <4>5, StillPaid
    <3>2. CASE ~(renewable /\ ~authRetried)
      BY <1>2, <2>7, <3>2 DEF Unauthorized, Ended
    <3>. QED BY <3>1, <3>2
  <2>8. CASE Renewed
    <3>1. CASE pc' = "ready"
      <4>1. pc = "renewing" /\ sent' = sent /\ pollInterval' = pollInterval /\ Paid' = Paid
        BY <2>8 DEF Renewed, Paid
      <4>2. Outstanding = 0 /\ Outstanding' = 0
        BY <3>1, <4>1 DEF Outstanding
      <4>3. sent' <= Paid' + polls + Outstanding' /\ now' >= now /\ ~Ended'
        BY <2>1, <2>4, <2>8, <3>1, <4>1, <4>2 DEF Renewed, Ended
      <4>. QED BY <2>1, <4>1, <4>3, StillPaid
    <3>2. CASE pc' # "ready"
      BY <1>2, <2>8, <3>2 DEF Renewed, Raise, Ended
    <3>. QED BY <3>1, <3>2
  <2>9. CASE RateLimited
    <3>1. CASE RateRetryLeft /\ pc' = "ready"
      <4>1. pc = "sent" /\ sent' = sent /\ pollInterval' = pollInterval
        BY <2>9 DEF RateLimited
      <4>2. Paid' = Paid + 1
        BY <2>9, <3>1 DEF RateLimited, Paid, Timed, TypeOK
      <4>3. Outstanding = 1 /\ Outstanding' = 0
        BY <3>1, <4>1 DEF Outstanding
      <4>4. sent' <= Paid' + polls + Outstanding'
        BY <2>1, <2>2, <4>1, <4>2, <4>3
      <4>5. now' >= now
        <5>1. PICK after \in RetryAfters :
                Sleep(IF after = NoDelay THEN Backoff(rateRetries) ELSE after)
          BY <2>9, <3>1 DEF RateLimited
        <5>2. rateRetries \in 0 .. 2
          BY <3>1 DEF RateRetryLeft, Timed, TypeOK
        <5>3. (IF after = NoDelay THEN Backoff(rateRetries) ELSE after) \in Nat
          BY <5>2, BackoffIsNat, RetryAfterAssumption DEF NoDelay
        <5>. QED BY <2>3, <5>1, <5>3, SleepBounded
      <4>6. ~Ended'
        BY <3>1 DEF Ended
      <4>. QED BY <2>1, <4>1, <4>4, <4>5, <4>6, StillPaid
    <3>2. CASE ~(RateRetryLeft /\ pc' = "ready")
      BY <1>2, <2>9, <3>2 DEF RateLimited, Sleep, Raise, Ended
    <3>. QED BY <3>1, <3>2
  <2>10. CASE Pending
    <3>1. CASE pollInterval' = NextPoll /\ Sleep(PollDelay) /\ pc' = "ready"
      <4>1. pc = "sent" /\ sent' = sent /\ Paid' = Paid
        BY <2>10 DEF Pending, Paid
      <4>2. now' >= now + pollInterval
        BY <2>3, <3>1, SleepBounded DEF PollDelay
      <4>3. PollsTook(polls + 1)'
        BY <2>1, <2>3, <3>1, <4>2, PollCounted
      <4>4. Outstanding = 1 /\ Outstanding' = 0
        BY <3>1, <4>1 DEF Outstanding
      <4>5. sent' <= Paid' + (polls + 1) + Outstanding'
        BY <2>1, <2>2, <4>1, <4>4
      <4>6. polls + 1 \in Nat /\ ~Ended'
        BY <3>1 DEF Ended
      <4>7. (\E n \in Nat : PollsTook(n) /\ sent <= Paid + n + Outstanding)'
        BY <4>3, <4>5, <4>6
      <4>. QED BY <4>6, <4>7 DEF RequestsPaid
    <3>2. CASE pc' = "raised"
      BY <1>2, <2>10, <3>2 DEF Pending, Ended
    <3>. QED BY <2>10, <3>1, <3>2 DEF Pending, Sleep, Raise
  <2>11. CASE ServerError
    <3>1. CASE ServerRetryLeft /\ pc' = "ready"
      <4>1. pc = "sent" /\ sent' = sent /\ pollInterval' = pollInterval
        BY <2>11 DEF ServerError
      <4>2. Paid' = Paid + 1
        BY <2>11, <3>1 DEF ServerError, Paid, Timed, TypeOK
      <4>3. Outstanding = 1 /\ Outstanding' = 0
        BY <3>1, <4>1 DEF Outstanding
      <4>4. sent' <= Paid' + polls + Outstanding'
        BY <2>1, <2>2, <4>1, <4>2, <4>3
      <4>5. now' >= now
        <5>1. Second \in Nat
          BY TimeAssumption
        <5>. QED BY <2>3, <2>11, <3>1, <5>1, SleepBounded DEF ServerError
      <4>6. ~Ended'
        BY <3>1 DEF Ended
      <4>. QED BY <2>1, <4>1, <4>4, <4>5, <4>6, StillPaid
    <3>2. CASE ~(ServerRetryLeft /\ pc' = "ready")
      BY <1>2, <2>11, <3>2 DEF ServerError, Sleep, Raise, Ended
    <3>. QED BY <3>1, <3>2
  <2>12. CASE Answered
    BY <1>2, <2>12 DEF Answered, Ended
  <2>13. CASE Lost
    BY <1>2, <2>13 DEF Lost, Raise, Ended
  <2>. QED
    BY <1>4, <2>5, <2>6, <2>7, <2>8, <2>9, <2>10, <2>11, <2>12, <2>13 DEF Next
<1>. QED BY <1>3, <1>4

LEMMA InitPaid == Init => RequestsPaid
<1>. SUFFICES ASSUME Init PROVE RequestsPaid
  OBVIOUS
<1>1. pc = "ready" /\ sent = 0 /\ authRetried = FALSE /\ rateRetries = 0 /\ serverRetries = 0
  BY Zenon DEF Init
<1>2. Paid = 0 /\ Outstanding = 0 /\ ~Ended
  BY <1>1 DEF Paid, Outstanding, Ended
<1>3. PollsTook(0)
  <2>1. pollInterval = 2 * Second /\ now = 0
    BY Zenon DEF Init, PollInterval
  <2>2. Interval[0 + 1] = 64 /\ Waited[0 + 1] = 0
    BY DEF Interval, Waited
  <2>3. 32 * pollInterval = 64 * Second /\ 32 * now >= 0 * Second
    BY <2>1, TimeAssumption
  <2>. QED BY <2>2, <2>3 DEF PollsTook
<1>. QED BY <1>1, <1>2, <1>3 DEF RequestsPaid

(* One call costs the upstream at most six requests more than the polls its     *)
(* budget has room for, whatever mix of 202, 401, 429 and 5xx it is answered.   *)
THEOREM RequestsAreBounded == Spec => []RequestsBounded
<1>1. Spec => []Timed
  BY InitTimed, StepTimed, PTL DEF Spec
<1>2. Timed /\ RequestsPaid => RequestsBounded
  BY RequestsPaidBounds
<1>. QED BY <1>1, <1>2, InitPaid, StepPaid, PTL DEF Spec
=============================================================================
