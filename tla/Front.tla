-------------------------------- MODULE Front --------------------------------
(***************************************************************************)
(* The way of a request through the server: startup (Config), the          *)
(* middleware and the resolvers (CredentialRouting), the catalog and the   *)
(* gate (Catalog), the client of the pool it runs on, and the connection.  *)
(* src/eset_mcp/__main__.py: _run, server.py: _resolve, _call_tool,        *)
(* _execute_tool and read_resource.                                        *)
(*                                                                         *)
(* Requests are under way at once.  Two things outlive one: the client     *)
(* table of the pool, whose lifetimes ClientPool models, and the task of a *)
(* legacy session, which runs the handlers of all its requests in the      *)
(* context of the one that opened it; Sessions models the session table,   *)
(* here one session suffices.  /metrics serves no MCP request.             *)
(***************************************************************************)
EXTENDS CredentialRouting, Catalog

CONSTANTS Request,     \* places for requests under way at once
          World,       \* [env, specs, requests]: surroundings the program meets (bound)
          Overrides,   \* onprem-path-overrides.json
          Hash,        \* the hashes of paths a process may draw
          Resolution,  \* what the resolver may answer: sequences of addresses
          MaxClients   \* the bound of the pool

(* Settings are stripped: one that holds nothing but spaces is not set. *)
IsEnvironment(env) ==
  env.cf = <<env.cf[1], env.cf[2]>> /\ Blank \notin {env.cf[1], env.cf[2]}

IsList(list) == Len(list) \in Nat /\ DOMAIN list = 1 .. Len(list)

(* OpenAPI documents: a service, a path and a method name one operation.  The  *)
(* words of a name are none of the four digits a path hashes to.               *)
AreDocuments(specs) ==
  /\ IsList(specs)
  /\ \A i \in DOMAIN specs :
       LET op == specs[i]
       IN  /\ op.service \in DOMAIN Prefix \/ ~IsTool(op)
           /\ op.id \in Seq(STRING) /\ VersionWord(op) \in STRING
           /\ \A hashes \in Hash, j \in DOMAIN specs :
                /\ hashes[specs[j].path] \in STRING
                /\ hashes[specs[j].path] \notin ToSet(op.id) \cup {VersionWord(op)}
  /\ \A i, j \in DOMAIN specs :
       /\ specs[i].service = specs[j].service
       /\ specs[i].method = specs[j].method
       /\ specs[i].path = specs[j].path
       => i = j

IsHeaders(headers) ==
  headers.authorization # None =>
    headers.authorization = <<headers.authorization[1], headers.authorization[2]>>

ASSUME WorldAssumption ==
  \A w \in World :
    /\ IsEnvironment(w.env) /\ AreDocuments(w.specs)
    /\ \A headers \in w.requests : IsHeaders(headers)

(* A URL of the cloud is <<region, service>>. *)
ASSUME NoneIsNoCloudUrl ==
  None \notin VALID_REGIONS \X ({"business-account"} \cup DOMAIN Prefix)

(* Entries without a path are no overrides. *)
ASSUME OverridesAssumption ==
  /\ IsList(Overrides)
  /\ \A e \in DOMAIN Overrides : Overrides[e].onprem_path # NoPath

ASSUME ResolutionAssumption == \A addresses \in Resolution : IsList(addresses)

VARIABLES world,     \* never changes
          hash,      \* the hash of this process
          process,   \* "starting", "up" or "refused"
          settings,  \* Settings
          tools,     \* load_all_tools()
          clients,   \* pool: cache key -> client
          session,   \* the legacy session: [binding, context], or None
          request    \* the requests under way

vars == <<world, hash, process, settings, tools, clients, session, request>>

Nobody == [at |-> "none", headers |-> None, scope |-> None, context |-> None,
           name |-> None, client |-> None, sent |-> None, shown |-> None]

Init ==
  /\ world \in World
  /\ hash \in Hash
  /\ process = "starting"
  /\ settings = None
  /\ tools = <<>>
  /\ clients = <<>>
  /\ session = None
  /\ request = [r \in Request |-> Nobody]

(* main: the settings, the catalog, the transport; or a RuntimeError. *)
Start ==
  /\ process = "starting"
  /\ IF Accepted(world.env) /\ MayServe(FromEnv(world.env))
     THEN /\ process' = "up"
          /\ settings' = FromEnv(world.env)
          /\ tools' = LoadAllTools(world.specs, Overrides, hash)
     ELSE /\ process' = "refused"
          /\ UNCHANGED <<settings, tools>>
  /\ UNCHANGED <<world, hash, clients, session, request>>

-----------------------------------------------------------------------------
InSession(headers, creds) ==
  headers.session = "in" => session # None /\ session.binding = CacheKey(creds)

(* dispatch, in basic mode: refused, or passed on with its credentials.  The   *)
(* SDK opens the session a request asks for.                                   *)
Dispatch(r, headers) ==
  /\ process = "up" /\ settings.auth_mode = "basic"
  /\ request[r].at = "none"
  /\ Status(settings, headers) = 200
  /\ LET creds == RequestCredentials(settings, headers)
     IN  /\ InSession(headers, creds)
         /\ request' = [request EXCEPT ![r] =
              [Nobody EXCEPT !.at = "routed", !.headers = headers, !.scope = creds,
                 !.context = IF headers.session = "in" THEN session.context ELSE creds]]
         /\ session' = IF headers.session = "opens"
                       THEN [binding |-> CacheKey(creds), context |-> creds]
                       ELSE session
  /\ UNCHANGED <<world, hash, process, settings, tools, clients>>

(* In env mode there is no middleware, over stdio no header at all. *)
Receive(r, headers) ==
  /\ process = "up" /\ settings.auth_mode = "env"
  /\ request[r].at = "none"
  /\ request' = [request EXCEPT ![r] = [Nobody EXCEPT !.at = "routed", !.headers = headers]]
  /\ UNCHANGED <<world, hash, process, settings, tools, clients, session>>

(* Fault: the handler asks the context it runs in. *)
ResolveFromContext(r) ==
  IF settings.auth_mode = "env" THEN EnvCredentials(settings) ELSE request[r].context

(* _resolve: the settings', or those in the scope of the request itself. *)
Resolve(r) ==
  IF settings.auth_mode = "env" THEN EnvCredentials(settings) ELSE request[r].scope

(* acquire: the client of the key, or a new one; only the bound is modelled.   *)
Acquire(creds) ==
  IF CacheKey(creds) \in DOMAIN clients THEN clients
  ELSE [k \in DOMAIN clients \cup {CacheKey(creds)} |->
         IF k = CacheKey(creds) THEN HttpClient(creds) ELSE clients[k]]

(* _call_tool up to the first request on the client. *)
CallTool(r, name) ==
  /\ request[r].at = "routed"
  /\ Allowed(tools, name, settings.mode)
  /\ clients' = Acquire(Resolve(r))
  /\ Cardinality(DOMAIN clients') <= MaxClients
  /\ request' = [request EXCEPT ![r].at = "leased", ![r].name = name,
                   ![r].client = clients'[CacheKey(Resolve(r))]]
  /\ UNCHANGED <<world, hash, process, settings, tools, session>>

(* What a call asks of ESET: a composite reads, a tool does its operation. *)
Operation(name) ==
  IF name \in DOMAIN Composites THEN Composites[name] ELSE ToolsByName(tools, name).op

PathOf(name, deployment) ==
  IF name \in DOMAIN Composites THEN Composites[name].path
  ELSE PathFor(ToolsByName(tools, name), deployment)

(* The guard of EsetHttpClient.request: token endpoints are not for tools.      *)
IsBusinessPath(service, path) ==
  /\ service # "business-account"
  /\ path \notin {<<"", "/GetTokens">>, <<"", "/oauth/token">>}

(* The token request and the request itself, once a connection stands.         *)
Send(r, addresses, dead) ==
  /\ request[r].at = "leased"
  /\ LET client == request[r].client
         creds == client.credentials
         op == Operation(request[r].name)
         address == IF client.guarded
                    THEN ConnectTcp(creds.allowed_networks, addresses, dead)
                    ELSE IF addresses = <<>> THEN None ELSE addresses[1]
     IN  /\ address # None
         /\ IsBusinessPath(op.service, PathOf(request[r].name, creds.deployment))
         /\ BaseUrl(creds, op.service) # None
         /\ request' = [request EXCEPT ![r].at = "sent", ![r].sent =
              [account |-> <<creds.user, creds.password>>,
               to |-> BaseUrl(creds, op.service),
               guarded |-> client.guarded,
               address |-> address,
               cf_access |-> client.cf_access,
               verify |-> client.verify,
               method |-> op.method,
               path |-> PathOf(request[r].name, creds.deployment)]]
  /\ UNCHANGED <<world, hash, process, settings, tools, clients, session>>

(* eset://config/region and eset://config/deployment. *)
ReadResource(r) ==
  /\ request[r].at = "routed"
  /\ LET creds == Resolve(r)
     IN  request' = [request EXCEPT ![r].at = "shown", ![r].shown =
           [region |-> creds.region,
            server |-> IF creds.deployment = "onprem" THEN creds.server_url ELSE None]]
  /\ UNCHANGED <<world, hash, process, settings, tools, clients, session>>

(* A request ends: answered, refused by the gate, failed or given up. *)
End(r) ==
  /\ request[r].at # "none"
  /\ request' = [request EXCEPT ![r] = Nobody]
  /\ UNCHANGED <<world, hash, process, settings, tools, clients, session>>

(* The pool drops an idle client; a request that has leased it keeps it. *)
Evict(key) ==
  /\ clients' = [k \in DOMAIN clients \ {key} |-> clients[k]]
  /\ UNCHANGED <<world, hash, process, settings, tools, session, request>>

Next ==
  \/ Start
  \/ \E r \in Request :
       \/ \E headers \in world.requests : Dispatch(r, headers) \/ Receive(r, headers)
       \/ \E name \in DOMAIN Composites \cup {tools[i].name : i \in DOMAIN tools} :
            CallTool(r, name)
       \/ \E addresses \in Resolution : \E dead \in SUBSET ToSet(addresses) : Send(r, addresses, dead)
       \/ ReadResource(r)
       \/ End(r)
  \/ \E key \in DOMAIN clients : Evict(key)

Spec == Init /\ [][Next]_vars

-----------------------------------------------------------------------------
IsPair(pair) == pair = NoPair \/ {pair[1], pair[2]} \cap {None, Blank} = {}

IsCredentials(creds) ==
  /\ creds.user # None /\ creds.password # None
  /\ creds.region \in VALID_REGIONS
  /\ creds.deployment \in {"cloud", "onprem"}
  /\ creds.server_url \in Origin \cup {None}
  /\ creds.verify_ssl \in BOOLEAN
  /\ IsPair(creds.cf_access)
  /\ creds.allowed_networks \subseteq DOMAIN NetworkOf

(* The type invariant: credentials are complete wherever they are kept, and the *)
(* client table is indexed by the keys of its clients' credentials.             *)
FrontTypeOK ==
  /\ world \in World /\ hash \in Hash
  /\ process \in {"starting", "up", "refused"}
  /\ process = "up" => /\ settings.onprem_server_url \in Origin \cup {None}
                       /\ IsPair(settings.onprem_cf_access)
  /\ \A k \in DOMAIN clients : /\ IsCredentials(clients[k].credentials)
                               /\ k = CacheKey(clients[k].credentials)
  /\ session # None => IsCredentials(session.context)
  /\ \A r \in Request :
       /\ request[r].at \in {"none", "routed", "leased", "sent", "shown"}
       /\ \A creds \in {request[r].scope, request[r].context} : creds # None => IsCredentials(creds)
       /\ request[r].at \in {"leased", "sent"} => IsCredentials(request[r].client.credentials)

Sent == {r \in Request : request[r].at = "sent"}

Basic == settings.auth_mode = "basic"

(* What a request asks for, read off its headers and the environment; no       *)
(* server is the cloud.                                                        *)
AskedAccount(headers) ==
  IF Basic THEN headers.authorization ELSE <<world.env.user, world.env.password>>

AskedServer(headers) ==
  IF Basic /\ headers.server_url # None THEN NormalizeServerUrl(headers.server_url)
  ELSE IF world.env.deployment = "onprem" THEN NormalizeServerUrl(world.env.server_url)
  ELSE None

AskedRegion(headers) ==
  IF Basic /\ headers.region # None THEN headers.region ELSE world.env.region

AskedPair(headers) == Basic /\ headers.cf_id # None

(* Whoever else is served meanwhile, by the same client, in the same session or *)
(* before it: a request acts with the account it asks for, at the place it asks *)
(* for, behind its own Cloudflare pair (or the server's, at the server's own    *)
(* origin only, and none in the cloud), and is told its own region and server.  *)
ConnectionsAreOwn ==
  \A r \in Request :
    LET headers == request[r].headers
        sent == request[r].sent
        server == AskedServer(headers)
    IN  /\ request[r].at = "sent" =>
             /\ sent.account = AskedAccount(headers)
             /\ sent.guarded = (server # None)
             /\ sent.to = IF server # None THEN server
                          ELSE <<AskedRegion(headers), Operation(request[r].name).service>>
             /\ sent.cf_access =
                  IF server = None THEN NoPair
                  ELSE IF AskedPair(headers) THEN <<headers.cf_id, headers.cf_secret>>
                  ELSE IF world.env.server_url # None
                          /\ server = NormalizeServerUrl(world.env.server_url)
                  THEN world.env.cf ELSE NoPair
        /\ request[r].at = "shown" =>
             request[r].shown = [region |-> AskedRegion(headers), server |-> server]

(* "Authorizes the destination" (middleware.py): secrets go to the cloud, over  *)
(* verified TLS, or to an on-prem origin the operator configured as the default *)
(* or for this very user, at an address the operator's networks contain (any    *)
(* but the special ones when none is configured).                               *)
DestinationsAreAuthorized ==
  \A r \in Sent :
    LET sent == request[r].sent
        user == sent.account[1]
        origins == world.env.origins
        known == {world.env.server_url} \ {None}
        granted == IF user \in DOMAIN origins THEN origins[user] ELSE {}
    IN  IF ~sent.guarded THEN sent.to[1] \in VALID_REGIONS /\ sent.verify
        ELSE /\ \E url \in known \cup granted : NormalizeServerUrl(url) = sent.to
             /\ IF world.env.networks = {} THEN Plain(sent.address) \notin Special
                ELSE Plain(sent.address) \in UNION {NetworkOf[n] : n \in world.env.networks}

(* "RO/RW gate - independent of the API account's permissions" (modes.py): a    *)
(* server in RO mode sends nothing but GET, even when names of tools collide.   *)
ReadOnlyServer == world.env.mode = "RO" => \A r \in Sent : request[r].sent.method = "GET"

(* Operations that share a path have ids of their own, and hashes differ. *)
Distinguishable ==
  /\ \A i, j \in DOMAIN tools :
       i # j /\ tools[i].op.path = tools[j].op.path => ~IsPrefix(tools[i].op.id, tools[j].op.id)
  /\ \A i, j \in DOMAIN tools :
       hash[tools[i].op.path] = hash[tools[j].op.path] => tools[i].op.path = tools[j].op.path

(* "Invariant after the call: every t.name is unique" (_disambiguate_names): a   *)
(* tool that is called is the one the catalog shows under that name, and it     *)
(* reaches its own operation, under the on-prem path where there is one.        *)
ToolsReachTheirOperation ==
  Distinguishable =>
    \A r \in Sent : \A i \in Listed(tools, settings.mode) :
      tools[i].name = request[r].name =>
        /\ request[r].sent.method = tools[i].op.method
        /\ request[r].sent.path \in
             IF request[r].sent.guarded
             THEN LET own == {e \in DOMAIN Overrides :
                                /\ Overrides[e].service = tools[i].op.service
                                /\ Overrides[e].method = tools[i].op.method
                                /\ Overrides[e].path = tools[i].op.path}
                  IN  IF own = {} THEN {tools[i].op.path}
                      ELSE {Overrides[e].onprem_path : e \in own}
             ELSE {tools[i].op.path}

(* A configuration that is accepted and a request that is passed on always name *)
(* an origin: "On-prem credentials without a server URL" (regions.py) is never  *)
(* raised in the middle of a call.                                              *)
EveryRequestHasAnOrigin ==
  \A r \in Request :
    request[r].at = "leased" =>
      /\ BaseUrl(request[r].client.credentials, Operation(request[r].name).service) # None
      /\ AuthUrl(request[r].client.credentials) # None
=============================================================================
