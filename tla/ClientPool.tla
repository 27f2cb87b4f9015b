------------------------------ MODULE ClientPool ------------------------------
(***************************************************************************)
(* src/eset_mcp/client_pool.py: the pool of EsetHttpClient instances that  *)
(* every tool call leases its client from.                                 *)
(*                                                                         *)
(* Every body under `async with self._lock` runs without suspending (the   *)
(* only await inside is _maybe_evict_locked, which awaits nothing), so one *)
(* asyncio step executes it: each is one action.  What does interleave is  *)
(* the calls between acquire and release, the background tasks that close  *)
(* clients, and the shutdown.                                              *)
(***************************************************************************)
EXTENDS Naturals, FiniteSets, SequencesExt

CONSTANTS Key,         \* Credentials.cache_key() values
          Client,      \* identities of the EsetHttpClient objects constructed
          Call,        \* tool calls that use acquire()
          MaxClients,  \* ClientPool(max_clients=...)
          NoKey,       \* the key of a client that was not constructed yet
          Idle,        \* a call that holds nothing
          Refused      \* a call whose acquire() raised

ASSUME MaxClientsAssumption == MaxClients \in Nat \ {0}  \* __init__ raises otherwise
ASSUME NoKeyAssumption == NoKey \notin Key
ASSUME CallAssumption == IsFiniteSet(Call)
ASSUME IdleAssumption == Idle \notin Client /\ Refused \notin Client /\ Idle # Refused

VARIABLES clients,     \* _clients: least recently used first
          keyOf,       \* the key each client was constructed for
          leases,      \* _leases, 0 for an absent entry
          retired,     \* _retired
          tasks,       \* _eviction_tasks: the clients whose aclose() task is not done
          http,        \* the httpx client of each EsetHttpClient
          phase,       \* "open", "draining" (close() awaits its gather) or "drained"
          awaited,     \* the tasks close() gathers
          held         \* what each call got from acquire() and has not released

vars == <<clients, keyOf, leases, retired, tasks, http, phase, awaited, held>>

TypeOK ==
  /\ clients \in Seq(Client)
  /\ keyOf \in [Client -> Key \cup {NoKey}]
  /\ leases \in [Client -> Nat]
  /\ retired \in SUBSET Client
  /\ tasks \in SUBSET Client
  /\ http \in [Client -> {"unborn", "open", "closed"}]
  /\ phase \in {"open", "draining", "drained"}
  /\ awaited \in SUBSET Client
  /\ held \in [Call -> Client \cup {Idle, Refused}]

Init ==
  /\ clients = <<>>
  /\ keyOf = [c \in Client |-> NoKey]
  /\ leases = [c \in Client |-> 0]
  /\ retired = {}
  /\ tasks = {}
  /\ http = [c \in Client |-> "unborn"]
  /\ phase = "open"
  /\ awaited = {}
  /\ held = [k \in Call |-> Idle]

-----------------------------------------------------------------------------
(* Operators commented as a fault are the bugs the mutation checks seed in     *)
(* place of the operator that follows; no action uses them.                    *)

(* Fault: the order is by insertion, not by use. *)
NeverMoved(order, i) == order

(* OrderedDict.move_to_end of the entry at position i. *)
MoveToEnd(order, i) == Append(RemoveAt(order, i), order[i])

(* Fault: the loop of _maybe_evict_locked stops one entry early. *)
ExcessOffByOne(order) == IF Len(order) > MaxClients + 1 THEN Len(order) - MaxClients - 1 ELSE 0

(* How many entries the loop of _maybe_evict_locked pops from the front. *)
Excess(order) == IF Len(order) > MaxClients THEN Len(order) - MaxClients ELSE 0

Kept(order) == SubSeq(order, Excess(order) + 1, Len(order))

Evicted(order) == {order[i] : i \in 1 .. Excess(order)}

(* Fault: a dropped client is closed at once, leased or not. *)
NeverLeased(c) == FALSE

Leased(c) == leases[c] > 0

(* Clients dropped from the cache: a leased one retires, any other is closed *)
(* by a task of its own.                                                     *)
LetGo(dropped) ==
  /\ retired' = retired \cup {c \in dropped : Leased(c)}
  /\ tasks' = tasks \cup {c \in dropped : ~Leased(c)}

CacheHit(key, c) ==
  /\ \E i \in DOMAIN clients :
       /\ clients[i] = c
       /\ keyOf[c] = key
       /\ clients' = MoveToEnd(clients, i)
  /\ UNCHANGED <<keyOf, http, retired, tasks>>

Missing(key) == \A i \in DOMAIN clients : keyOf[clients[i]] # key

CacheMiss(key, c) ==
  /\ Missing(key)
  /\ http[c] = "unborn"
  /\ http' = [http EXCEPT ![c] = "open"]
  /\ keyOf' = [keyOf EXCEPT ![c] = key]
  /\ clients' = Kept(Append(clients, c))
  /\ LetGo(Evicted(Append(clients, c)))

(* Fault: the pool still serves after close(). *)
AlwaysOpen == TRUE

(* not _closed *)
Open == phase = "open"

(* _get_locked returns client c for key. *)
GetLocked(key, c) ==
  /\ Open
  /\ CacheHit(key, c) \/ CacheMiss(key, c)
  /\ UNCHANGED <<phase, awaited>>

(* get(): the same lookup, without a lease. *)
Get(key, c) == GetLocked(key, c) /\ UNCHANGED <<leases, held>>

Holds(k) == held[k] \in Client

Acquire(k, key, c) ==
  /\ ~Holds(k)
  /\ GetLocked(key, c)
  /\ leases' = [leases EXCEPT ![c] = @ + 1]
  /\ held' = [held EXCEPT ![k] = c]

(* _get_locked raises: the pool is closed, or EsetHttpClient(creds) failed     *)
(* before the new client entered the pool.                                     *)
AcquireRaises(k, key) ==
  /\ ~Holds(k)
  /\ ~Open \/ Missing(key)
  /\ held' = [held EXCEPT ![k] = Refused]
  /\ UNCHANGED <<clients, keyOf, leases, retired, tasks, http, phase, awaited>>

(* Faults: the release counts twice; the first release drops every lease. *)
ReleasedTwice(c) == leases[c] - 2
ReleasedForAll(c) == 0

(* `remaining` in the finally of acquire(). *)
LeasesLeft(c) == leases[c] - 1

(* Faults: a retired client is closed by its first release, or by none. *)
ClosesEarly(c) == c \in retired
ClosesNever(c) == FALSE

(* This release has the retired client closed. *)
ClosesRetired(c) == LeasesLeft(c) = 0 /\ c \in retired

(* The finally of acquire(): the call returned, raised or was cancelled. *)
Release(k) ==
  /\ Holds(k)
  /\ LET c == held[k]
     IN  /\ leases' = [leases EXCEPT ![c] = LeasesLeft(c)]
         /\ retired' = IF ClosesRetired(c) THEN retired \ {c} ELSE retired
         /\ tasks' = IF ClosesRetired(c) THEN tasks \cup {c} ELSE tasks
  /\ held' = [held EXCEPT ![k] = Idle]
  /\ UNCHANGED <<clients, keyOf, http, phase, awaited>>

(* The task of _close_in_background runs aclose(): httpx marks the client      *)
(* closed first and then closes its connections, which may fail or take a while *)
TaskStarts(c) ==
  /\ c \in tasks
  /\ http[c] = "open"
  /\ http' = [http EXCEPT ![c] = "closed"]
  /\ UNCHANGED <<clients, keyOf, leases, retired, tasks, phase, awaited, held>>

(* The done callback: _eviction_tasks.discard, whatever the outcome. *)
TaskEnds(c) ==
  /\ c \in tasks
  /\ http[c] = "closed"
  /\ tasks' = tasks \ {c}
  /\ UNCHANGED <<clients, keyOf, leases, retired, http, phase, awaited, held>>

(* Faults: close() gathers the tasks it found, not those it started; or also   *)
(* waits for the clients that calls still hold.                                *)
GathersOldTasks == awaited' = tasks
GathersHeldClients == awaited' = tasks' \cup retired'

(* The tasks that asyncio.gather waits for. *)
GathersTasks == awaited' = tasks'

(* close() up to its gather. *)
Close ==
  /\ phase = "open"
  /\ phase' = "draining"
  /\ clients' = <<>>
  /\ LetGo(ToSet(clients))
  /\ GathersTasks
  /\ UNCHANGED <<keyOf, leases, http, held>>

(* The gather completes and close() returns. *)
CloseReturns ==
  /\ phase = "draining"
  /\ \A c \in awaited : http[c] = "closed" /\ c \notin tasks
  /\ phase' = "drained"
  /\ UNCHANGED <<clients, keyOf, leases, retired, tasks, http, awaited, held>>

Next ==
  \/ \E key \in Key, c \in Client : Get(key, c)
  \/ \E k \in Call, key \in Key, c \in Client : Acquire(k, key, c)
  \/ \E k \in Call, key \in Key : AcquireRaises(k, key)
  \/ \E k \in Call : Release(k)
  \/ \E c \in Client : TaskStarts(c) \/ TaskEnds(c)
  \/ Close
  \/ CloseReturns

(* The event loop runs every task that is ready. *)
LoopFairness ==
  /\ \A c \in Client : WF_vars(TaskStarts(c)) /\ WF_vars(TaskEnds(c))
  /\ WF_vars(CloseReturns)

Spec == Init /\ [][Next]_vars

LoopSpec == Spec /\ LoopFairness

-----------------------------------------------------------------------------
Cached == ToSet(clients)

Holders(c) == {k \in Call : held[k] = c}

(* A client is never closed, nor its closing scheduled, while a call that       *)
(* acquired it has not released it, whatever was evicted or shut down meanwhile *)
(* (the comment above _DEFAULT_MAX_CLIENTS).                                    *)
LeaseSafety ==
  \A k \in Call : Holds(k) => /\ http[held[k]] = "open"
                              /\ held[k] \notin tasks

(* _leases counts exactly the calls between acquire and release, so the count   *)
(* reaches zero with the last of them.                                          *)
LeasesCounted == \A c \in Client : leases[c] = Cardinality(Holders(c))

(* Who will close client c: its cache entry, a lease on a retired client, or a   *)
(* task, and only one of them; a closed client can be handed out no more.       *)
OwnerOf(c) ==
  /\ http[c] = "open" =>
       \/ c \in Cached /\ c \notin retired /\ c \notin tasks
       \/ c \notin Cached /\ c \in retired /\ c \notin tasks /\ leases[c] > 0
       \/ c \notin Cached /\ c \notin retired /\ c \in tasks /\ leases[c] = 0
  /\ http[c] = "closed" => c \notin Cached /\ c \notin retired
  /\ http[c] = "unborn" => c \notin Cached /\ c \notin retired /\ c \notin tasks

(* No open client is ever lost by the pool and none is closed twice.            *)
OneOwner == \A c \in Client : OwnerOf(c)

(* The cache is bounded, holds at most one client per key, each under the key   *)
(* it was built for, and nothing after close().                                 *)
CacheSound ==
  /\ Len(clients) <= MaxClients
  /\ \A i, j \in DOMAIN clients : keyOf[clients[i]] = keyOf[clients[j]] => i = j
  /\ \A i \in DOMAIN clients : keyOf[clients[i]] \in Key
  /\ phase # "open" => clients = <<>>

(* A client that left the cache and that no call holds any more is closed in     *)
(* the end, even when it left under a lease: no step of a call is needed for it. *)
DroppedClientsClose ==
  \A c \in Client :
    (http[c] = "open" /\ c \notin Cached /\ Holders(c) = {}) ~> http[c] = "closed"

(* close() always returns, also when a call never gives its client back.        *)
ShutdownReturns == phase = "draining" ~> phase = "drained"

(* The pool implements the promise of LeasedClients. *)
Stage(c) ==
  CASE http[c] = "unborn" -> "unborn"
    [] http[c] = "closed" -> "closed"
    [] http[c] = "open" /\ c \in Cached -> "serving"
    [] http[c] = "open" /\ c \notin Cached -> "leaving"

Lease == INSTANCE LeasedClients WITH
           Capacity <- MaxClients,
           status <- [c \in Client |-> Stage(c)],
           users <- [c \in Client |-> Holders(c)],
           open <- phase = "open"

(* The lookups, leases, evictions and closings of the pool are steps of         *)
(* LeasedClients under the mapping above.                                       *)
ImplementsLease == Lease!Spec
=============================================================================
