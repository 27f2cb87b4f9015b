--------------------------- MODULE ClientPoolHistory ---------------------------
(***************************************************************************)
(* ClientPool with two history variables, for what its state alone does    *)
(* not say: in which order clients were used, and who held a lease when    *)
(* the pool was shut down.                                                 *)
(***************************************************************************)
EXTENDS ClientPool

VARIABLES touched,  \* keys looked up since the last lookup of each client
          spared    \* clients close() left to the calls that held them

historyVars == <<vars, touched, spared>>

HistoryInit == /\ Init
               /\ touched = [c \in Client |-> {}]
               /\ spared = {}

Looked(key, c) ==
  touched' = [d \in Client |-> IF d = c THEN {} ELSE touched[d] \cup {key}]

HistoryNext ==
  \/ \E key \in Key, c \in Client : Get(key, c) /\ Looked(key, c) /\ UNCHANGED spared
  \/ \E k \in Call, key \in Key, c \in Client :
       Acquire(k, key, c) /\ Looked(key, c) /\ UNCHANGED spared
  \/ \E k \in Call, key \in Key : AcquireRaises(k, key) /\ UNCHANGED <<touched, spared>>
  \/ \E k \in Call : Release(k) /\ UNCHANGED <<touched, spared>>
  \/ \E c \in Client : (TaskStarts(c) \/ TaskEnds(c)) /\ UNCHANGED <<touched, spared>>
  \/ Close /\ spared' = {c \in Client : Holders(c) # {}} /\ UNCHANGED touched
  \/ CloseReturns /\ UNCHANGED <<touched, spared>>

HistorySpec == HistoryInit /\ [][HistoryNext]_historyVars

(* Eviction is least-recently-used: a client leaves an open pool only after     *)
(* MaxClients other keys were looked up since its own last lookup, whether the  *)
(* lookup was a hit, a miss, leased or not (OrderedDict.move_to_end and         *)
(* popitem(last=False)).                                                        *)
EvictsLeastRecentlyUsed ==
  [][\A c \in Cached \ Cached' :
       phase' = "open" => Cardinality(touched'[c]) >= MaxClients]_historyVars

(* When close() returns, the only clients still open are those a call held when *)
(* close() ran: everything idle was drained, the closings already under way     *)
(* included.                                                                    *)
DrainedAtShutdown ==
  phase = "drained" => \A c \in Client : http[c] = "open" => c \in spared
=============================================================================
