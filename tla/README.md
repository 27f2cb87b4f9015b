# Verification of the ESET MCP server

TLA+ models of the server under `src/eset_mcp`, checked with TLC on small
instances, and theorems about them proved with TLAPS. The models are read
from the code; docs, docstrings and tests are what some runs compare it with.

1. [The system](#1-the-system) - inventory
2. [Modules and the code they model](#2-modules-and-the-code-they-model)
3. [Runs](#3-runs), [bounds](#bounds), [fairness](#fairness)
4. [Theorems](#4-theorems)
5. [Disagreements found](#5-disagreements-found)
6. [What is not modelled, and the plan](#6-what-is-not-modelled-and-the-plan)

## 1. The system

One asyncio process serves MCP tool calls, over stdio or HTTP, and turns each
into requests to the ESET Connect (cloud) or ESET PROTECT (on-prem) API.

```
MCP client -> [middleware] -> SDK session manager -> server._call_tool
                 |                                        |
            session table                    resolver, mode gate, schema
                                                          |
                                           ClientPool.acquire (lease)
                                                          |
                              catalog tool | composite (asyncio.gather of requests)
                                                          |
                                 EsetHttpClient.request -> TokenManager -> send_request
                                                          |
                                  response_shaping (projection, byte cap) -> answer
```

| Component | State | Operations | Shared with | What is hard | What makes it correct |
|---|---|---|---|---|---|
| `client_pool.py` | LRU cache of clients, lease counts, retired set, closing tasks, closed flag | `get`, `acquire` and its release, eviction, `close` | every tool call, the shutdown | eviction and shutdown under a lease, closing tasks that interleave | no client is closed in use, none is lost or closed twice, the cache is bounded and LRU, `close` returns |
| `auth.py` | cached access and refresh token, `refresh_at`, one lock | `get_access_token`, `force_refresh` | the concurrent requests of one client, the token endpoint | bursts of 401s, rotation, cancellation under the lock | no needless handshake, no rejected token again, no failure inherited from another request |
| `transport.py` | counters, poll interval, deadline of one request | `send_request` | the upstream | four retry paths in one loop, a time budget, outcomes unknown | a write takes effect at most once, bounded requests, the budget holds |
| `http_client.py` | one httpx client and token manager | `request`, `paginate` | the composites | the 401 renewal is a callback of the transport; a page walk without a cap | as `auth` and `transport` |
| `server.py` (`_call_tool`) | none of its own; the lease | one call | pool, composites, shaping | errors and cancellation at every await | calls end, but for endless scans, give their client back, and fail for reasons of their own |
| `composite_tools.py` | none | four composites | one leased client | partial failure, gather with exceptions, cancellation after a raise, pages of a listing that moves or that are no object, scans without a cap, a second endpoint after half a walk | failed parts become stubs, the lease covers every request, an answer without a flag is of one endpoint and lacks nothing |
| `response_shaping.py` | none | projection, byte cap | every answer | byte arithmetic, previews cut by characters, trimmed pages | the answer fits; the trimmed rows can still be reached |
| `middleware.py` | session table: binding and expiry, LRU | `dispatch` | all HTTP requests, the SDK's own session table | two tables that drift, late answers, bound and clock | a session serves only the identity it was created for, keeps serving it, and stays closed |
| `middleware.py`, `credentials.py` | the credentials in a request's scope, and in the context its tasks inherit | the head of `dispatch`, resolvers, `cache_key`, header parsing | session task, pool | a session's task carries the credentials of the request that opened it; keys that must tell credentials apart | a request acts with what it asks for, and may have, whoever else is served |
| `tools_loader.py`, `modes.py` | the catalog, fixed after start | naming, on-prem overrides, mode gate | server | names that still collide after two rounds of suffixes | a name leads to its operation, RO sends nothing but GET |
| `config.py` | `Settings` | `from_env` | all | rules between fields, two spellings of one origin | no accepted settings leave a request without an origin |
| `regions.py`, `egress.py` | allowed networks | URL tables, `connect_tcp` | http client, httpx | several addresses per name, other ones at the next connection | only authorised origins and allowed addresses are connected to |
| `security.py` | secrets of the current call (context variable) | `secret_scope`, `clean_output` | server, http client, logging | scope inherited by tasks | no secret of a call in its answer |
| `errors.py`, `observability/` | none, or counters nobody reads | tables, logging | all | - | - |
| `__main__.py` | none | start, HTTP app, `pool.close()` on exit | pool, SDK | order of the shutdown | the pool is drained last |

The hazards of each part, at their lines and with the properties against
them, are in `PROJECT.json` ("hazards").

asyncio is the source of all interleaving: code between two awaits is one
atomic step, and so is one action. Uncontended `async with lock` bodies without
an await inside (all of the pool's) are part of such a step.

## 2. Modules and the code they model

`PROJECT.json` ("map") names the lines of each definition. In every module the
operators commented as a *fault* are not part of the model: each is a plausible
bug that is put in the place of the operator after it to see that a property
notices ("mutants").

**LeasedClients** - the promise of the pool: a client is born serving, may leave
the cache at any time, and is closed only after it left and nobody uses it.

**ClientPool** - `client_pool.py`. `clients` is the OrderedDict (a sequence, least
recently used first), `leases`, `retired` and `tasks` are `_leases`, `_retired` and
`_eviction_tasks`, `http` the state of each `httpx` client, `phase` and `awaited` the
progress of `close()`, `held` what a call has between acquire and release. The
actions are `Get`, `Acquire`, `AcquireRaises` (pool closed, or the constructor
fails), `Release`, `TaskStarts` and `TaskEnds` (the closing task), `Close` and
`CloseReturns`. It implements LeasedClients.
**ClientPoolHistory** adds two history variables to say what eviction order and
"drained at shutdown" mean.

**TokenManager** - `auth.py` with the part of `http_client.request` and
`send_request` that uses it: a request takes a token, is sent, and renews the token
once after a 401. The lock is FIFO and held across the handshake, so its waiters
are a queue; the handshake is a call and an answer, and the server may issue,
rotate, refuse, fail or revoke in between. Callers can be cancelled at each await.
Tokens are the number of the handshake that issued them. A token comes with a lifetime,
which decides how long it is fresh (`FreshFor`); afterwards the clock may pass its
`refresh_at` at any time. Both variants of `_refresh_locked` are one (`style`).

**Transport** - `send_request`, with the source's numbers: 3 retries after 429, 1
after a 5xx for reads, 1 after a 401, polls of a 202 every 2 s growing by half up
to 30 s, 600 s in all. One tick is 1/32 s, in which every interval is a whole
number until it is capped. Only waiting moves the clock.

**Sessions** - `middleware.py` from the session check on. The SDK's session manager
behind it is external; assumed of it: a session id is drawn once, a request without
a session may create one, only DELETE and the idle timeout end one, and a request of
the 2026-07-28 protocol is served whatever `mcp-session-id` it carries. A request is
`Dispatch` (up to `call_next`), the SDK's step, then `Respond` or `Abort`, with other
requests between them.

**ToolCalls** - `_call_tool` and the composites, EXTENDS ClientPool: a call leases a
client and its requests run on it, first a lead request (all that a catalog tool
has) or a gather at once (`eset_search`), then perhaps a gather. A request ends
answered, as a stub (EsetApiError, caught by `_safe_get`), raised (anything else) or
cut (its client was closed under it). `Raising` says which requests can raise,
`Endless` which are scans of a listing that gives a next page for ever. The pool's tasks
and shutdown interleave with all of it. What the requests return is abstracted.
A call can be cancelled as long as it has not resumed. What the cancellation reaches
(`Reached`) is up to asyncio: a gather passes it on to all that still run, but not once it is
done, and it is done when one of its coroutines has raised, a step or more before the
call resumes with the exception. Gathers are nested, so that after a raise any part of what
runs may be told to stop, and the call may still end with the exception (`Awaiting`).

**ResponseShaping** - the pure functions of `response_shaping.py` on the sizes a
result is made of, with the loop of `_truncate_paginated` as the longest prefix it
keeps. A result is an object with lists, or a bare list, which is the result that comes to
`_hard_truncate`. Its preview is cut by characters and sent as a string, so what its
characters cost there counts (`text`): one byte, two for a quote, which is escaped, or four.
**Listing** EXTENDS it with a catalog tool, ESET's paging (external) and an
agent that follows the hints of capped answers. The last page may be a bare list.

**PageWalk** - the page walks of `latest_detections` (`_paginate_detections` with its cap
and its second endpoint) and of one kind of `eset_search` (`_scan_endpoint` over
`EsetHttpClient.paginate`, with the second endpoint of "group"). `items`, `pages` and
`cursor` are the variables of the walk, `tenant` what the two endpoints list, and rows
appear anywhere in it meanwhile. Each action is a request with its outcome: a page, one that
is no object or empty (`ShapelessPage`, which ends the walk as if it were the last), an
EsetApiError with another endpoint to try, one without. ESET is external. Its tokens stand
for the place behind the last row they came with, or, if they are `shifting`, for an offset,
and then a row that appears before it makes another one come twice. Rows are assumed not to
vanish: with offsets, each that did would hide one from any client that pages. **Reading**
puts PageWalk and Listing side by side, the two ways to read a listing.

**Config** - `Settings.from_env` as a predicate (`Accepted`) and a function (`FromEnv`)
of the environment, with the normalisation of URLs, and the guard of
`create_http_app`.
**CredentialRouting** - `dispatch` up to the session check as operators on the
headers: the status a request is refused with, in the order of the checks, and the
credentials of one that is passed on; `cache_key` and what a client takes from its
credentials; `resolve_base_url`; `GuardedBackend`. A digest is what it is the digest of.
**Catalog** - from operations to tools: `_disambiguate_names`, the on-prem overrides, the
catalog shown, `tools_by_name`, the mode gate.
**Front** EXTENDS these into the way of a request: `Start` (or a refusal to), `Dispatch`
(basic mode) or `Receive` (env mode), `CallTool` up to the lease, `Send` with whatever
addresses the resolver gives, `ReadResource`, `End`, and `Evict` of a pool entry. `world` is
the surroundings: environment, operations, and the headers requests may come with; `hash` is
what Python's hash of the paths happens to be in this process. Of the pool it keeps the
client table, of the sessions one session, which is all a mix-up of credentials needs;
their lifetimes are in ClientPool and Sessions.

**SequenceLemmas**, **ClientPoolProofs**, **TokenManagerProofs**,
**TransportProofs**, **SessionsProofs**, **ToolCallsProofs**, **FrontProofs**,
**ReadingProofs** hold the theorems.
The **MC** modules give TLC values and symmetry.

## 3. Runs

| Run | Question | Result |
|---|---|---|
| `pool_safety` | Is a client ever closed under a lease, lost or closed twice? Do lease counts drift? Does the cache exceed its bound, hold a key twice or evict another than the least recently used entry? Does `close()` return with an unleased client open? | never |
| `pool_live` | Is every client that left the cache and is not held closed in the end? Does `close()` return although a call may keep its client for ever? Is the pool a LeasedClients? | yes |
| `token` | Can a request fail for what another left behind? Is a good token ever replaced, or a rejected or refused one reused? Can a request wait for ever for the lock? | no |
| `transport` | Can a write take effect twice? Can a call exceed 30 requests or its budget, or never end? | no |
| `transport_tries` | Is a rate-limited request tried at most three times, as documented? | no, four times |
| `sessions` | Can a session serve another identity? Can its owner lose it while using it? Can a closed one come back into the cache? | no; no; only by the answer to a request that was under way when its DELETE was answered, once for each |
| `calls` | Can evictions, other calls or the shutdown fail a call? Does a call leave requests running when none of its own raised? Do calls use the pool as specified? Do they end? | no; no; yes; yes, but for a scan of an endless listing |
| `calls_orphans` | Does the lease cover every request of a composite when one of them may raise something else than EsetApiError? | no |
| `listing` | By how much can a capped answer, before it is indented, exceed the cap, and why? Does an agent that only continues after whole pages get every row? Can an answer of `latest_detections` or `eset_search` without `truncated`, `error` or `skipped` mix two endpoints, have a row twice or lack one? Does a walk end? | as `OverrunIsBounded` says; yes; never mixed, a row twice only with shifting tokens, rows missing only after a page that was no object; yes, but that of a search needs a server that ends its listing |
| `listing_budget` | Does a capped answer fit the cap? | no |
| `listing_hinted` | Does an agent that continues with the token of a capped page, as the hint says first, get every row? | no |
| `front` | Can a request act with another request's account, place or Cloudflare pair, by a shared client, a session or an eviction? Can secrets go where nobody authorised them? Can a read-only server write, or a tool name lead to another's operation? Can a call lack an origin? | no |

Deadlock is not checked anywhere: requests and calls are made once, or the pool
is closed for good, so every model may really stop. That nothing stops too early is
what the liveness properties show.

### Bounds

- *Pool*: three keys, four clients and three calls over a cache of two (`pool_live`: two,
  three and two over a cache of one) make every combination of hit, miss, eviction under a
  lease, a second client for an evicted key, and shutdown with some clients leased and
  some closing. A client identity is used once, which bounds the number of misses.
- *Token*: three requests (a holder, a waiter, and one that comes back late) and two
  completed handshakes, the first and one renewal; the other renewals fail, are refused or
  are abandoned. Lifetimes below, at and above the margin. The theorems cover any number of both.
- *Transport*: no bound on the loop but the code's own budget; `MaxSent` only stops a
  counter above what the property allows. Latencies and Retry-After are small sets that
  contain nothing, a second, the socket timeout, and more than the whole budget; an answer
  may also come at the deadline itself.
- *Sessions*: two requests under way, two identities, three sessions over a table of
  two; a binding lives for one tick, so that expiry, renewal and the bound all occur.
- *Calls*: two calls of up to three requests each, two keys over a pool of one, so that
  the second call evicts the first one's client at any moment. A call is made once; one
  of its requests may raise and the other of a gather may be an endless scan.
- *Listing*: rows of 1 and 9 bytes, at most eight of them, read in pages of 1, 3 or 8, with
  one of three second lists; a cap of 20 bytes with 6 reserved of which 5 are needed, so
  that pages fit, are trimmed, lose all rows, and overrun for either reason. Bare lists of up
  to eight rows are up to 88 bytes, of characters of each cost, and a preview has up to 14.
- *PageWalk*: pages of two rows and a cap of two pages, over listings of up to four rows that
  grow by at most two, so that walks end with the listing, at the cap, and between the two;
  limits 1 and 2 leave rows out; two rows are of one time and one is not wanted. Either
  endpoint may fail, or give a page that is no object, after any page; tokens may shift, and
  a stubborn server never ends a listing.
- *Front*: 29 surroundings: three basic-mode configurations, each with four groups of
  headers chosen to collide (a rotated password, a session carried on with another
  password or region, one origin in two spellings, own and server Cloudflare pairs, seven
  requests to turn away); three env-mode ones, each with the shipped kind of catalog, one of
  names that collide for good and one where suffixed names collide; eight to refuse. Two
  requests at once and two clients suffice for one to meet what another left; the
  resolver answers with allowed, forbidden, mapped, mixed and no addresses, of which any may
  be dead. With one hash for all paths and with one each.

### Fairness

- *Pool*: weak fairness of closing tasks and of `close()` after its gather: the event
  loop runs what is ready. Calls are not assumed to give their client back.
- *Token*: the lock wakes its next waiter, the token endpoint's exchange ends (by an
  answer or by the budget of `send_request`), the holder and the sent requests resume.
- *Transport*: weak fairness of the whole step: `asyncio.timeout` ends each wait.
- *Calls*: each request ends, as it is one HTTP request or a bounded number of them
  (Transport's `Terminates`), but for the `Endless` scans: `paginate` has no cap, so nothing
  is assumed of those. A call resumes when what it awaits is over. Cancellation, eviction
  and shutdown are never assumed to happen.
- *Reading*: each page request of a composite ends (again `Terminates`), with a page that is
  an object unless it fails or has another page; neither is assumed to happen, two
  failures or one such page end any walk.
- *Sessions, Listing, Front*: none; clients and agents may stop at any time.

## 4. Theorems

TLC shows a property on one instance; the theorems hold for every value of the
constants, under the named ASSUMEs of each module, which TLC evaluates in every run: positive
bounds, model values that are distinct, a finite set of calls, times that are whole ticks,
and what the code's own checks or its data guarantee of the inputs:

- TokenManager: a lifetime is positive (`_set_token` refuses others).
- PageWalk: each endpoint lists a row once, a limit is positive (`"minimum": 1` in both
  schemas), an `occurTime` is a number. Listing: sizes are numbers. ToolCalls: an endless
  scan is a part of a gather.
- Catalog: the composites read, and no prefix of a generated name is the first word of one of
  theirs (`composite_tools.py`, `_SERVICE_PREFIX`). Front: an OpenAPI document names an
  operation by service, path and method (they are keys of its `paths`), no word of an id
  is one of the four-digit hashes, and an override has a path.

**ClientPoolProofs.** `LeaseSafety` is not inductive: that a closing task closes no
held client needs `OneOwner` (a client with a task has no lease), this needs
`LeasesCounted` (the count reaches zero with the last holder, by cardinality), and
that a cache hit hands out an open client needs `CacheSound`. `IInv` is their
conjunction with `TypeOK`; one lemma per action preserves it. From it follow
`TypeCorrect`, `LeasesAreSafe`, `LeasesAreCounted`, `NoClientLeaks`, `CacheStaysSound`
and the refinement `RefinesLease` (`Spec => LeasedClients`).

**TokenManagerProofs.** `NoCollateralFailure` needs to know why a request in a password
handshake is there: the invariant adds that tokens come from the past, that the lock
holder and its handshake agree, that a refused refresh token stays dead, that who
renews had reason to, and that an answer under way is newer than anything cached.

**TransportProofs.** `WritesAreNotReplayed` strengthens `effects <= 1` with where the
effect may have happened (`EffectSettled`): before the job exists a write that may
have taken effect is never sent again. `RequestsAreBounded` pays for each request:
polls with time (`PollsTook` says how much the growing interval must have used), the
others with the retry counters.

**SessionsProofs.** `OwnersOnly` is inductive with the type invariant and with the
answers under way carrying the owner's sessions. `History` adds what the other two need:
a key is in the cache once; a key behind another was used since (`Recent`), so that the
entries cut off at the bound have `Cap` later ones, counted by cardinality; time left and
time idle add up to the lifetime (`Timed`); and the answer that names a new session is the
first to name it (`OnlyAnswersOpen`), so that it is no closed one.
`ClosedSessionsComeBackLate` then says what is left: `late` has the requests that were under
way at a session's DELETE, the answer to each of them is the only step that registers the
session again, and takes it off.

**ClientPoolProofs, history.** `HInv` adds to `IInv` that of two cached clients the one
further back was used later (`InOrderOfUse`: its key is among those `touched` since the
other's use), whence `EvictionIsLeastRecentlyUsed`, and that after `close()` an open client
is spared or still awaited, whence `ShutdownDrains`. `HistoryWatches` says that the two
history variables change no step of the pool.

**ToolCallsProofs.** `CallsImplementPool` maps each call step to a pool step or a
stutter, so all of the above holds below the tools. `FailuresStayOwn` then uses
`LeaseSafety`: a waiting call holds the client it works on, hence that client is open,
hence none of its requests is cut. With that, `NothingStaysBehind` need only follow what runs:
a call returns when nothing of it runs, and a cancellation leaves something running only
after a raise (`CancelStep`). `LeaseCoversComposites` assumes `Raising = {}`, and
`calls_orphans` shows that it must.

**FrontProofs.** What a request does is a function of the settings and of its own scope.
`Inv` says that nothing on its way adds to that: the scope is what its headers ask for
(`Routed`), the client it leases is the one its credentials would build, up to what the cache
key leaves out (`StandsFor`; `Pooled` says it of every entry), and the connection is that
client's (`SentBy`). The properties follow from `Inv` and lemmas about the operators:
`ConnectionsAreOwn` from equal keys giving equal connections, `DestinationsAreAuthorized`
from the order of the checks in `Status` and from the addresses `GuardedBackend` dials,
`ReadOnlyServer` from the gate and the fixed settings. `ToolsReachTheirOperation` needs that
two rounds of suffixes leave unique names (`TwoRoundsLemma`): a name that collides after the
first is one word longer, and with `Distinguishable` the second word tells the paths apart.

**ReadingProofs.** Three parts.
(1) `OverrunIsBounded`: sums over lists of sizes, then projection and truncation case by
case. The list that is trimmed is a longest one (`MainListLemma`: there is one, as their
sizes have a least bound), so that emptying another one leaves no less (`EmptiedLemma`). A
preview has at most `PreviewRoom` characters of at most four bytes (`PreviewLemma`). `Total`
is a recursive function; that the recursion has a solution, and what it computes, is proved
by the least number of elements for which it would fail (`LeastLemma`), as no induction
theorem can be cited.
(2) `EveryRowIsRead`: `ReadSoFar` says that the rows before the next page were all seen.
(3) `UnflaggedAnswersAreComplete`: `WalkInv` says that until it answers a walk holds every
wanted row that was listed from the start and lies before its cursor, none twice unless the
tokens shift, all of them rows before the cursor, and that a search still has fewer than its
limit. A page that is no object ends the walk where it stands, so that of a `shapeless`
answer only the rest is claimed. A page extends both sides by the same rows
(`FetchedLemma`), a row that appears is new and moves the cursor with the rows it has read
(`AppearedLemma`), a second endpoint starts from nothing. The sort is given by the place of
each row (`Ahead`, `Arranged`), a bijection by cardinality, so that what the limit cuts off
is never newer than what it keeps.

Only model-checked: liveness (`DroppedClientsClose`, `ShutdownReturns`, `EveryRequestEnds`,
`Terminates`, `CallsEnd`, `WalkEnds`), as fairness and ENABLED are beyond the prover. Every
invariant and every other action property of a passing run is also a theorem, of the same
specification without its fairness or with it. `EveryRowIsRead` states `FullAccess` under
`~UsesToken`, which is a constant of the run: with the other value `listing_hinted` refutes it.

`ToolsReachTheirOperation` has a precondition, `Distinguishable`: tools that share a path have
ids none of which begins another, and different paths hash differently. The operations in
`openapi/` satisfy its first half (a method and a path determine an id there); the second is
luck, as Python's string hash is random per process, but needed only where names collide
after the version suffix, which none of the shipped ones do. `ReadOnlyServer` needs neither:
the gate looks at the tool that will run, not at the one that was shown.

## 5. Disagreements found

Each has a run whose counterexample shows it (`PROJECT.json`, "findings").

1. *Requests outlive their lease* (`calls_orphans`). When one coroutine of a gather
   raises something other than EsetApiError, the call ends and gives its client back
   while the other requests run on; `acquire` promises a lease for the complete call
   including its composites. `FailuresAreOwn` shows that the damage stays in that call.
2. *Trimmed rows are skipped* (`listing_hinted`). The `nextPageToken` of a capped page
   stands behind the whole page; `listing` shows the advice that does work.
3. *A capped answer can exceed the cap* (`listing_budget`), by a second list or by the
   separators. `listing` shows how far that goes: a trimmed object exceeds the cap by a byte for
   each row it kept but two, one that kept nothing is as large as its other parts; and a
   preview, which is cut by characters, may have four bytes for each. All of it is the size
   `cap_response_size` counts; `_to_text` (`server.py:511`) sends the result indented,
   which adds more.
4. *Four tries instead of three* of a rate-limited request (`transport_tries`).

Seen on the way, without a run of their own:

- The docstring of `modes.py` (lines 7-8) says that in RO mode the RW tools remain visible in
  the catalog; `server.py:207-208` leaves them out, and `tests/test_mode_gate.py` expects that.
- A page that is no object, or an empty one (`transport.py:98-99` makes `{}` of it), ends a
  walk without a flag although rows are missing (`composite_tools.py:451-452`,
  `http_client.py:194-197`). `UnflaggedIsComplete` excludes it by name (`shapeless`).
- A call that is cancelled after one of its parts raised may leave the others running on a
  client it gave back, as a crash does (finding 1). `NothingLeftBehind` says that this is
  the only way.
- `_disambiguate_names` promises that "every t.name is unique" (`tools_loader.py:152`). Its two
  rounds of suffixes reach that only for operations that are `Distinguishable` (section 4).
  No shipped names collide beyond the first round; the surroundings of `front` have some that do,
  and some of those are told apart by nothing.
- A late answer registers a closed session again (`middleware.py:211-213`), which then takes a
  place in the cache until it expires. The SDK serves it no more.

## 6. What is not modelled, and the plan

Not modelled:

- `security.py`: replacing text in text. Its set of secrets belongs to one call and only grows.
- `errors.py` and `observability/`: texts, log records and counters that nothing reads.
- the schemas, descriptions and `$ref`s of `tools_loader.py`: a translation of static files
  once at start; `_SERVICE_PREFIX` is a constant of Catalog.
- of `config.py`: trimming, letter case and comments of single values, ports, log and metrics
  settings; of `middleware.py`: base64, and the skipped `/metrics` path, which serves no tool.
- resources and prompts with static texts, or with the settings and the catalog alone.
- the wiring of uvicorn and the SDK, whose allowed hosts and origins it checks itself.
- of `composite_tools.py`: how a query is matched with fields, and the severity names; both
  are the set of rows a walk is after. The kinds of a search walk side by side and share nothing,
  so one is modelled. `device_full_profile` and `incident_full_context` put the
  outcomes of their requests side by side: ToolCalls.
- packaging and deployment. Token payload validation is one outcome of a handshake (valid or
  not).

TokenManager and Transport abstract each other and are not composed: Transport's 401
renewal is one wait of any length within the budget, TokenManager's exchanges end in any of
Transport's outcomes. The first wait for the token's lock lies before the budget starts
(`http_client.py:149`), so that a request may outlast it by the handshakes it waits for;
`EveryRequestEnds` says only that it ends.

Plan for the proofs. Every safety property of a passing run is a theorem. What is left:

1. Variants for the liveness properties, as action properties: what decreases with every step
   of a walk, of a call of `send_request` and of a closing task, so that fairness is the
   only thing TLC still has to add.
2. An abstract session table (who may use which session) that Sessions implements, as
   LeasedClients is for the pool, and its refinement.
3. The client table of Front and the cache of ClientPool: that each change of the one is a
   hit, a miss, an eviction or a release of the other is said in words only.
