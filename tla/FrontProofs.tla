----------------------------- MODULE FrontProofs -----------------------------
(***************************************************************************)
(* The invariants of Front, for any surroundings and any requests.         *)
(*                                                                         *)
(* What a request does is a function of the settings and of its own scope  *)
(* (Resolve).  Inv says that nothing on its way adds to that: the scope is *)
(* what its headers ask for, the client it leases is the one its           *)
(* credentials would build, up to what the cache key leaves out, and the   *)
(* connection is that client's.  The properties then follow from Inv and   *)
(* from lemmas about the operators of CredentialRouting and Catalog.       *)
(***************************************************************************)
EXTENDS Front, SequenceLemmas

Fields == DOMAIN Nobody

(* Once up, the program runs on an environment it accepted. *)
Ready ==
  process = "up" => /\ Accepted(world.env)
                    /\ settings = FromEnv(world.env)
                    /\ tools = LoadAllTools(world.specs, Overrides, hash)

(* A request under way was passed on, with the credentials its headers ask for. *)
Routed(r) ==
  request[r].at # "none" =>
    /\ process = "up"
    /\ request[r].headers \in world.requests
    /\ settings.auth_mode = "basic" =>
         /\ Status(settings, request[r].headers) = 200
         /\ request[r].scope = RequestCredentials(settings, request[r].headers)

(* A client that stands for creds, whoever's credentials built it. *)
StandsFor(client, creds) ==
  /\ client = HttpClient(client.credentials)
  /\ IsCredentials(client.credentials)
  /\ CacheKey(client.credentials) = CacheKey(creds)

Leased(r) ==
  request[r].at \in {"leased", "sent"} =>
    /\ StandsFor(request[r].client, Resolve(r))
    /\ Allowed(tools, request[r].name, settings.mode)

SentBy(sent, client, name) ==
  LET creds == client.credentials
  IN  /\ sent.account = <<creds.user, creds.password>>
      /\ sent.to = BaseUrl(creds, Operation(name).service)
      /\ sent.guarded = client.guarded
      /\ sent.guarded => Allows(creds.allowed_networks, sent.address)
      /\ sent.cf_access = client.cf_access
      /\ sent.verify = client.verify
      /\ sent.method = Operation(name).method
      /\ sent.path = PathOf(name, creds.deployment)

Outcome(r) ==
  /\ request[r].at = "sent" => SentBy(request[r].sent, request[r].client, request[r].name)
  /\ request[r].at = "shown" =>
       request[r].shown =
         [region |-> Resolve(r).region,
          server |-> IF Resolve(r).deployment = "onprem" THEN Resolve(r).server_url ELSE None]

(* The pool finds under a key a client built from credentials of that key. *)
Pooled ==
  \A k \in DOMAIN clients : /\ clients[k] = HttpClient(clients[k].credentials)
                            /\ IsCredentials(clients[k].credentials)
                            /\ k = CacheKey(clients[k].credentials)

Known(creds) == creds # None => IsCredentials(creds)

Good(r) ==
  /\ DOMAIN request[r] = Fields
  /\ request[r].at \in {"none", "routed", "leased", "sent", "shown"}
  /\ Known(request[r].scope) /\ Known(request[r].context)
  /\ Routed(r) /\ Leased(r) /\ Outcome(r)

Inv ==
  /\ world \in World /\ hash \in Hash
  /\ process \in {"starting", "up", "refused"}
  /\ Ready
  /\ Pooled
  /\ session # None => IsCredentials(session.context)
  /\ DOMAIN request = Request
  /\ \A r \in Request : Good(r)

-----------------------------------------------------------------------------
(* Settings and credentials. *)

LEMMA SettingsLemma ==
  ASSUME NEW env, Accepted(env), IsEnvironment(env), NEW s, s = FromEnv(env)
  PROVE  /\ s.auth_mode = env.auth_mode /\ s.auth_mode \in {"env", "basic"}
         /\ s.mode = env.mode
         /\ s.user = env.user /\ s.password = env.password
         /\ s.auth_mode = "env" => s.user # None /\ s.password # None
         /\ s.region = env.region /\ s.region \in VALID_REGIONS
         /\ s.deployment = env.deployment /\ s.deployment \in {"cloud", "onprem"}
         /\ s.onprem_verify_ssl \in BOOLEAN
         /\ s.onprem_networks = env.networks /\ s.onprem_networks \subseteq DOMAIN NetworkOf
         /\ s.onprem_cf_access = env.cf /\ IsPair(s.onprem_cf_access)
         /\ s.onprem_origins = ParseOrigins(env.origins)
<1>1. Parses(env) /\ EnvNeedsAccount(env) /\ PairComplete(env)  BY DEF Accepted
<1>2. /\ s.auth_mode = env.auth_mode /\ s.mode = env.mode
      /\ s.user = env.user /\ s.password = env.password /\ s.region = env.region
      /\ s.deployment = env.deployment /\ s.onprem_networks = env.networks
      /\ s.onprem_cf_access = env.cf /\ s.onprem_origins = ParseOrigins(env.origins)
  BY DEF FromEnv
<1>3. s.onprem_verify_ssl \in BOOLEAN  BY DEF FromEnv
<1>4. IsPair(env.cf)  BY <1>1 DEF PairComplete, IsEnvironment, IsPair, NoPair
<1>5. /\ env.auth_mode \in {"env", "basic"} /\ env.region \in VALID_REGIONS
      /\ env.deployment \in {"cloud", "onprem"} /\ env.networks \subseteq DOMAIN NetworkOf
  BY <1>1 DEF Parses, AreNetworks
<1>6. env.auth_mode = "env" => env.user # None /\ env.password # None
  BY <1>1 DEF EnvNeedsAccount
<1> QED  BY <1>2, <1>3, <1>4, <1>5, <1>6

(* What a URL that passes is normalized to. *)
LEMMA UrlLemma ==
  ASSUME NEW raw, IsServerUrl(raw)
  PROVE  NormalizeServerUrl(raw) \in Origin /\ NormalizeServerUrl(raw) # None
<1> DEFINE port == IF raw.port = 443 THEN None ELSE raw.port
<1>1. Canonical[raw.host] \in {Canonical[h] : h \in DOMAIN Canonical}
  BY DEF IsServerUrl
<1>2. port \in Port \cup {None}  BY DEF IsServerUrl
<1>3. NormalizeServerUrl(raw) = [host |-> Canonical[raw.host], port |-> port]
  BY DEF NormalizeServerUrl
<1> HIDE DEF port
<1>4. NormalizeServerUrl(raw) \in Origin  BY <1>1, <1>2, <1>3 DEF Origin
<1> QED  BY <1>4, NoneIsNoOrigin

(* The server of the settings is the normalized one of the environment. *)
LEMMA ServerLemma ==
  ASSUME NEW env, Accepted(env), NEW s, s = FromEnv(env)
  PROVE  /\ s.onprem_server_url \in Origin \cup {None}
         /\ env.server_url = None => s.onprem_server_url = None
         /\ env.server_url # None =>
              /\ s.onprem_server_url = NormalizeServerUrl(env.server_url)
              /\ s.onprem_server_url # None
         /\ s.auth_mode = "env" /\ s.deployment = "onprem" => s.onprem_server_url # None
<1>1. env.server_url # None => IsServerUrl(env.server_url)  BY DEF Accepted, Parses
<1>2. s.onprem_server_url = IF env.server_url = None THEN None ELSE NormalizeServerUrl(env.server_url)
  BY DEF FromEnv
<1>3. env.server_url # None =>
        NormalizeServerUrl(env.server_url) \in Origin /\ NormalizeServerUrl(env.server_url) # None
  BY <1>1, UrlLemma
<1>4. s.auth_mode = "env" /\ s.deployment = "onprem" => env.server_url # None
  BY DEF FromEnv, Accepted, OnPremNeedsUrl
<1> QED  BY <1>2, <1>3, <1>4

LEMMA EnvLemma ==
  ASSUME NEW env, Accepted(env), IsEnvironment(env), NEW s, s = FromEnv(env),
         s.auth_mode = "env"
  PROVE  IsCredentials(EnvCredentials(s))
<1> DEFINE creds == EnvCredentials(s)
<1>1. /\ creds.user = s.user /\ creds.password = s.password /\ creds.region = s.region
      /\ creds.deployment = s.deployment /\ creds.server_url = s.onprem_server_url
      /\ creds.verify_ssl = s.onprem_verify_ssl /\ creds.cf_access = s.onprem_cf_access
      /\ creds.allowed_networks = s.onprem_networks
  BY DEF EnvCredentials
<1> HIDE DEF creds
<1> QED  BY <1>1, SettingsLemma, ServerLemma DEF IsCredentials, creds

(* What a request that is passed on has, and where its override may point. *)
LEMMA StatusLemma ==
  ASSUME NEW s, NEW headers, Status(s, headers) = 200
  PROVE  /\ HasBasicAuth(headers) /\ ~Malformed(headers) /\ ~HalfPair(headers)
         /\ ~IsForeign(s, headers) /\ ~HasNoOrigin(s, headers)
BY DEF Status

LEMMA OverrideLemma ==
  ASSUME NEW headers, ~Malformed(headers)
  PROVE  /\ OverrideUrl(headers) \in Origin \cup {None}
         /\ headers.server_url = None <=> OverrideUrl(headers) = None
         /\ headers.server_url # None => OverrideUrl(headers) = NormalizeServerUrl(headers.server_url)
<1>1. headers.server_url # None => IsServerUrl(headers.server_url)  BY DEF Malformed
<1>2. headers.server_url # None =>
        NormalizeServerUrl(headers.server_url) \in Origin /\ NormalizeServerUrl(headers.server_url) # None
  BY <1>1, UrlLemma
<1> QED  BY <1>2 DEF OverrideUrl

(* The server whose account the request uses: None is the cloud. *)
ServerOf(s, headers) ==
  IF OverrideUrl(headers) # None THEN OverrideUrl(headers)
  ELSE IF s.deployment = "onprem" THEN s.onprem_server_url ELSE None

(* The credentials of a request, field by field. *)
Describes(creds, s, headers, server) ==
  /\ creds.user = headers.authorization[1]
  /\ creds.password = headers.authorization[2]
  /\ creds.region = Region(s, headers)
  /\ server # None =>
       /\ creds.deployment = "onprem" /\ creds.server_url = server
       /\ creds.verify_ssl = s.onprem_verify_ssl
       /\ creds.cf_access = CfPair(s, headers)
       /\ creds.allowed_networks = s.onprem_networks
  /\ server = None =>
       /\ creds.deployment = "cloud" /\ creds.server_url = None
       /\ creds.verify_ssl = TRUE /\ creds.cf_access = NoPair
       /\ creds.allowed_networks = {}

LEMMA RequestLemma ==
  ASSUME NEW s, NEW headers, Status(s, headers) = 200
  PROVE  Describes(RequestCredentials(s, headers), s, headers, ServerOf(s, headers))
<1> DEFINE creds == RequestCredentials(s, headers)
           server == ServerOf(s, headers)
<1>1. CASE server # None
  <2>1. creds = OnPremCredentials(s, headers, server)
    BY <1>1 DEF RequestCredentials, ServerOf
  <2> QED  BY <1>1, <2>1 DEF OnPremCredentials, Describes
<1>2. CASE server = None
  <2>1. ~HasNoOrigin(s, headers)  BY StatusLemma
  <2>2. OverrideUrl(headers) = None /\ s.deployment # "onprem"
    BY <1>2, <2>1 DEF ServerOf, HasNoOrigin
  <2>3. creds = CloudCredentials(s, headers)  BY <2>2 DEF RequestCredentials
  <2> QED  BY <1>2, <2>3 DEF CloudCredentials, Describes
<1> QED  BY <1>1, <1>2

(* The Cloudflare pair is a pair or nothing. *)
LEMMA CfLemma ==
  ASSUME NEW env, Accepted(env), IsEnvironment(env), NEW s, s = FromEnv(env),
         NEW headers, ~HalfPair(headers)
  PROVE  IsPair(CfPair(s, headers))
<1>1. IsPair(s.onprem_cf_access)  BY SettingsLemma
<1>2. headers.cf_id # None => {headers.cf_id, headers.cf_secret} \cap {None, Blank} = {}
  BY DEF HalfPair
<1>3. IsPair(NoPair)  BY DEF IsPair
<1>4. CASE headers.cf_id # None
  BY <1>2, <1>4 DEF CfPair, IsPair
<1>5. CASE headers.cf_id = None
  BY <1>1, <1>3, <1>5 DEF CfPair
<1> QED  BY <1>4, <1>5

LEMMA RequestCredentialsLemma ==
  ASSUME NEW env, Accepted(env), IsEnvironment(env), NEW s, s = FromEnv(env),
         NEW headers, Status(s, headers) = 200
  PROVE  IsCredentials(RequestCredentials(s, headers))
<1> DEFINE creds == RequestCredentials(s, headers)
           server == ServerOf(s, headers)
<1>0. creds = RequestCredentials(s, headers) /\ server = ServerOf(s, headers)
  OBVIOUS
<1>1. /\ HasBasicAuth(headers) /\ ~Malformed(headers) /\ ~HalfPair(headers)
  BY StatusLemma
<1> HIDE DEF creds, server
<1>2. Describes(creds, s, headers, server)  BY RequestLemma DEF creds, server
<1>3. creds.user # None /\ creds.password # None  BY <1>1, <1>2 DEF HasBasicAuth, Describes
<1>4. s.region \in VALID_REGIONS  BY SettingsLemma
<1>5. creds.region \in VALID_REGIONS  BY <1>1, <1>2, <1>4 DEF Region, Malformed, Describes
<1>6. server \in Origin \cup {None}  BY <1>1, OverrideLemma, ServerLemma DEF ServerOf, server
<1>7. IsPair(CfPair(s, headers)) /\ IsPair(NoPair)  BY <1>1, CfLemma DEF IsPair
<1>8. s.onprem_verify_ssl \in BOOLEAN /\ s.onprem_networks \subseteq DOMAIN NetworkOf
  BY SettingsLemma
<1>9. creds.deployment \in {"cloud", "onprem"} /\ creds.server_url \in Origin \cup {None}
  BY <1>2, <1>6 DEF Describes
<1>10. IsPair(creds.cf_access)
  <2>1. CASE server # None  BY <1>2, <1>7, <2>1 DEF Describes
  <2>2. CASE server = None  BY <1>2, <1>7, <2>2 DEF Describes
  <2> QED  BY <2>1, <2>2
<1>12. creds.allowed_networks \subseteq DOMAIN NetworkOf  BY <1>2, <1>8 DEF Describes
<1>11. creds.verify_ssl \in BOOLEAN
  <2>1. CASE server # None  BY <1>2, <1>8, <2>1 DEF Describes
  <2>2. CASE server = None
    <3>1. creds.verify_ssl = TRUE  BY <1>2, <2>2 DEF Describes
    <3> QED  BY <3>1
  <2> QED  BY <2>1, <2>2
<1> QED  BY <1>3, <1>5, <1>9, <1>10, <1>11, <1>12 DEF IsCredentials, creds

-----------------------------------------------------------------------------
(* Inv is inductive. *)

(* Where the credentials of a request come from. *)
LEMMA ResolveLemma ==
  ASSUME Inv, NEW r \in Request, request[r].at # "none"
  PROVE  /\ process = "up" /\ world \in World
         /\ Accepted(world.env) /\ IsEnvironment(world.env) /\ settings = FromEnv(world.env)
         /\ IsCredentials(Resolve(r))
<1>1. /\ process = "up" /\ world \in World
      /\ Accepted(world.env) /\ settings = FromEnv(world.env)
      /\ settings.auth_mode = "basic" =>
           /\ Status(settings, request[r].headers) = 200
           /\ request[r].scope = RequestCredentials(settings, request[r].headers)
  BY DEF Inv, Good, Routed, Ready
<1>2. IsEnvironment(world.env)  BY <1>1, WorldAssumption
<1>3. settings.auth_mode \in {"env", "basic"}  BY <1>1, <1>2, SettingsLemma
<1>4. CASE settings.auth_mode = "env"  BY <1>1, <1>2, <1>4, EnvLemma DEF Resolve
<1>5. CASE settings.auth_mode = "basic"
  BY <1>1, <1>2, <1>5, RequestCredentialsLemma DEF Resolve
<1> QED  BY <1>1, <1>2, <1>3, <1>4, <1>5

(* A step that leaves a request and the program alone leaves it as good as it was. *)
LEMMA FrameLemma ==
  ASSUME NEW r, Good(r), request'[r] = request[r],
         UNCHANGED <<world, process, settings, tools>>
  PROVE  Good(r)'
<1>1. Routed(r)'  BY DEF Good, Routed
<1>2. Leased(r)'  BY DEF Good, Leased, Resolve
<1>3. Outcome(r)'
  BY DEF Good, Outcome, Resolve, SentBy, Operation, PathOf
<1> QED  BY <1>1, <1>2, <1>3 DEF Good

(* Nobody is good. *)
LEMMA NobodyLemma ==
  ASSUME NEW r, request[r] = Nobody
  PROVE  Good(r)
BY DEF Good, Nobody, Fields, Known, Routed, Leased, Outcome

LEMMA InitInv == Init => Inv
<1> SUFFICES ASSUME Init PROVE Inv  OBVIOUS
<1>1. \A r \in Request : request[r] = Nobody  BY DEF Init
<1>2. \A r \in Request : Good(r)  BY <1>1, NobodyLemma
<1>3. Pooled  BY DEF Init, Pooled
<1>4. DOMAIN request = Request  BY DEF Init
<1> QED  BY <1>2, <1>3, <1>4 DEF Init, Inv, Ready

LEMMA StartStep == Inv /\ Start => Inv'
<1> SUFFICES ASSUME Inv, Start PROVE Inv'  OBVIOUS
<1>1. /\ process = "starting" /\ process' \in {"up", "refused"}
      /\ UNCHANGED <<world, hash, clients, session, request>>
  BY DEF Start
<1>2. Ready'  BY DEF Start, Ready
<1>3. \A r \in Request : request[r].at = "none"  BY <1>1 DEF Inv, Good, Routed
<1>4. \A r \in Request : Good(r)'
  <2> TAKE r \in Request
  <2>1. Good(r) /\ request[r].at = "none" /\ request'[r] = request[r]
    BY <1>1, <1>3 DEF Inv
  <2>2. Routed(r)' /\ Leased(r)' /\ Outcome(r)'
    BY <2>1 DEF Routed, Leased, Outcome
  <2> QED  BY <2>1, <2>2 DEF Good
<1>5. Pooled'  BY <1>1 DEF Inv, Pooled
<1> QED  BY <1>1, <1>2, <1>4, <1>5 DEF Inv

(* A step touches no other request. *)
OnlyAt(r) ==
  /\ DOMAIN request' = Request
  /\ \A other \in Request \ {r} : request'[other] = request[other]

(* What an action on one request leaves to be shown. *)
LEMMA OneRequestLemma ==
  ASSUME Inv, NEW r \in Request, OnlyAt(r),
         UNCHANGED <<world, hash, process, settings, tools>>,
         Good(r)', Pooled', session' # None => IsCredentials(session'.context)
  PROVE  Inv'
<1>1. Ready'  BY DEF Inv, Ready
<1>2. DOMAIN request' = Request  BY DEF OnlyAt
<1>3. \A other \in Request : Good(other)'
  <2> TAKE other \in Request
  <2>1. CASE other = r  BY <2>1
  <2>2. CASE other # r
    <3>1. request'[other] = request[other] /\ Good(other)  BY <2>2 DEF Inv, OnlyAt
    <3> QED  BY <3>1, FrameLemma
  <2> QED  BY <2>1, <2>2
<1> QED  BY <1>1, <1>2, <1>3 DEF Inv

LEMMA DispatchStep ==
  ASSUME Inv, NEW r \in Request, NEW headers \in world.requests, Dispatch(r, headers)
  PROVE  Inv'
<1> DEFINE creds == RequestCredentials(settings, headers)
           context == IF headers.session = "in" THEN session.context ELSE creds
           q == [Nobody EXCEPT !.at = "routed", !.headers = headers, !.scope = creds,
                               !.context = context]
<1>1. /\ process = "up" /\ settings.auth_mode = "basic"
      /\ Status(settings, headers) = 200
      /\ InSession(headers, creds)
      /\ request' = [request EXCEPT ![r] = q]
      /\ session' = IF headers.session = "opens"
                    THEN [binding |-> CacheKey(creds), context |-> creds] ELSE session
      /\ UNCHANGED <<world, hash, process, settings, tools, clients>>
  BY DEF Dispatch
<1>2. IsCredentials(creds)
  <2>1. Accepted(world.env) /\ settings = FromEnv(world.env) /\ world \in World
    BY <1>1 DEF Inv, Ready
  <2>2. IsEnvironment(world.env)  BY <2>1, WorldAssumption
  <2> HIDE DEF q
  <2> QED  BY <1>1, <2>1, <2>2, RequestCredentialsLemma
<1> HIDE DEF creds
<1>3. IsCredentials(context)  BY <1>1, <1>2 DEF Inv, InSession
<1> HIDE DEF context
<1>4. /\ DOMAIN q = Fields /\ q.at = "routed" /\ q.headers = headers
      /\ q.scope = creds /\ q.context = context
  BY DEF Nobody, Fields
<1> HIDE DEF q
<1>5. OnlyAt(r) /\ request'[r] = q  BY <1>1 DEF Inv, OnlyAt
<1>6. Good(r)'
  <2>1. Routed(r)'  BY <1>1, <1>4, <1>5 DEF Routed, creds
  <2>2. Leased(r)' /\ Outcome(r)'  BY <1>4, <1>5 DEF Leased, Outcome
  <2> QED  BY <1>2, <1>3, <1>4, <1>5, <2>1, <2>2 DEF Good, Known
<1>7. Pooled'  BY <1>1 DEF Inv, Pooled
<1>8. session' # None => IsCredentials(session'.context)  BY <1>1, <1>2 DEF Inv
<1> QED  BY <1>1, <1>5, <1>6, <1>7, <1>8, OneRequestLemma

LEMMA ReceiveStep ==
  ASSUME Inv, NEW r \in Request, NEW headers \in world.requests, Receive(r, headers)
  PROVE  Inv'
<1> DEFINE q == [Nobody EXCEPT !.at = "routed", !.headers = headers]
<1>1. /\ process = "up" /\ settings.auth_mode = "env"
      /\ request' = [request EXCEPT ![r] = q]
      /\ UNCHANGED <<world, hash, process, settings, tools, clients, session>>
  BY DEF Receive
<1>2. /\ DOMAIN q = Fields /\ q.at = "routed" /\ q.headers = headers
      /\ q.scope = None /\ q.context = None
  BY DEF Nobody, Fields
<1> HIDE DEF q
<1>3. OnlyAt(r) /\ request'[r] = q  BY <1>1 DEF Inv, OnlyAt
<1>4. Good(r)'
  <2>1. Routed(r)'  BY <1>1, <1>2, <1>3 DEF Routed
  <2>2. Leased(r)' /\ Outcome(r)'  BY <1>2, <1>3 DEF Leased, Outcome
  <2> QED  BY <1>2, <1>3, <2>1, <2>2 DEF Good, Known
<1>5. Pooled'  BY <1>1 DEF Inv, Pooled
<1>6. session' # None => IsCredentials(session'.context)  BY <1>1 DEF Inv
<1> QED  BY <1>1, <1>3, <1>4, <1>5, <1>6, OneRequestLemma

(* The pool hands out a client of the key it is asked for. *)
LEMMA AcquireLemma ==
  ASSUME Pooled, NEW creds, IsCredentials(creds), clients' = Acquire(creds)
  PROVE  Pooled' /\ StandsFor(clients'[CacheKey(creds)], creds)
<1> DEFINE key == CacheKey(creds)
<1>1. HttpClient(creds).credentials = creds  BY DEF HttpClient
<1>2. CASE key \in DOMAIN clients
  <2>1. clients' = clients  BY <1>2 DEF Acquire
  <2> QED  BY <1>2, <2>1 DEF Pooled, StandsFor
<1>3. CASE key \notin DOMAIN clients
  <2>1. /\ DOMAIN clients' = DOMAIN clients \cup {key}
        /\ clients'[key] = HttpClient(creds)
        /\ \A k \in DOMAIN clients : clients'[k] = clients[k]
    BY <1>3 DEF Acquire
  <2> HIDE DEF key
  <2>2. Pooled'  BY <1>1, <2>1 DEF Pooled, key
  <2> QED  BY <1>1, <2>1, <2>2 DEF StandsFor, key
<1> QED  BY <1>2, <1>3

LEMMA CallToolStep ==
  ASSUME Inv, NEW r \in Request, NEW name, CallTool(r, name)
  PROVE  Inv'
<1> DEFINE creds == Resolve(r)
           client == clients'[CacheKey(creds)]
<1>1. /\ request[r].at = "routed"
      /\ Allowed(tools, name, settings.mode)
      /\ clients' = Acquire(creds)
      /\ request' = [request EXCEPT ![r].at = "leased", ![r].name = name, ![r].client = client]
      /\ UNCHANGED <<world, hash, process, settings, tools, session>>
  BY DEF CallTool
<1>2. IsCredentials(creds)  BY <1>1, ResolveLemma
<1> HIDE DEF creds
<1>3. Pooled' /\ StandsFor(client, creds)  BY <1>1, <1>2, AcquireLemma DEF Inv
<1> HIDE DEF client
<1>4. Good(r)  BY DEF Inv
<1>5. OnlyAt(r)  BY <1>1 DEF Inv, OnlyAt
<1>6. /\ DOMAIN request'[r] = Fields
      /\ request'[r].at = "leased" /\ request'[r].name = name /\ request'[r].client = client
      /\ request'[r].headers = request[r].headers
      /\ request'[r].scope = request[r].scope /\ request'[r].context = request[r].context
  BY <1>1, <1>4 DEF Inv, Good, Fields, Nobody
<1>7. Good(r)'
  <2>1. Routed(r)'  BY <1>1, <1>4, <1>6 DEF Good, Routed
  <2>2. Resolve(r)' = creds  BY <1>1, <1>6 DEF Resolve, creds
  <2>3. Leased(r)'  BY <1>1, <1>3, <1>6, <2>2 DEF Leased
  <2>4. Outcome(r)'  BY <1>6 DEF Outcome
  <2> QED  BY <1>4, <1>6, <2>1, <2>3, <2>4 DEF Good
<1>8. session' # None => IsCredentials(session'.context)  BY <1>1 DEF Inv
<1> QED  BY <1>1, <1>3, <1>5, <1>7, <1>8, OneRequestLemma

LEMMA ReadResourceStep ==
  ASSUME Inv, NEW r \in Request, ReadResource(r)
  PROVE  Inv'
<1> DEFINE creds == Resolve(r)
           shown == [region |-> creds.region,
                     server |-> IF creds.deployment = "onprem" THEN creds.server_url ELSE None]
<1>1. /\ request[r].at = "routed"
      /\ request' = [request EXCEPT ![r].at = "shown", ![r].shown = shown]
      /\ UNCHANGED <<world, hash, process, settings, tools, clients, session>>
  BY DEF ReadResource
<1> HIDE DEF creds, shown
<1>2. Good(r)  BY DEF Inv
<1>3. OnlyAt(r)  BY <1>1 DEF Inv, OnlyAt
<1>4. /\ DOMAIN request'[r] = Fields
      /\ request'[r].at = "shown" /\ request'[r].shown = shown
      /\ request'[r].headers = request[r].headers
      /\ request'[r].scope = request[r].scope /\ request'[r].context = request[r].context
  BY <1>1, <1>2 DEF Inv, Good, Fields, Nobody
<1>5. Good(r)'
  <2>1. Routed(r)'  BY <1>1, <1>2, <1>4 DEF Good, Routed
  <2>2. Resolve(r)' = creds  BY <1>1, <1>4 DEF Resolve, creds
  <2>3. Leased(r)'  BY <1>4 DEF Leased
  <2>4. Outcome(r)'  BY <1>4, <2>2 DEF Outcome, shown
  <2> QED  BY <1>2, <1>4, <2>1, <2>3, <2>4 DEF Good
<1>6. Pooled'  BY <1>1 DEF Inv, Pooled
<1>7. session' # None => IsCredentials(session'.context)  BY <1>1 DEF Inv
<1> QED  BY <1>1, <1>3, <1>5, <1>6, <1>7, OneRequestLemma

LEMMA EndStep ==
  ASSUME Inv, NEW r \in Request, End(r)
  PROVE  Inv'
<1>1. /\ request' = [request EXCEPT ![r] = Nobody]
      /\ UNCHANGED <<world, hash, process, settings, tools, clients, session>>
  BY DEF End
<1>2. OnlyAt(r) /\ request'[r] = Nobody  BY <1>1 DEF Inv, OnlyAt
<1>3. Good(r)'  BY <1>2 DEF Good, Nobody, Fields, Known, Routed, Leased, Outcome
<1>4. Pooled'  BY <1>1 DEF Inv, Pooled
<1>5. session' # None => IsCredentials(session'.context)  BY <1>1 DEF Inv
<1> QED  BY <1>1, <1>2, <1>3, <1>4, <1>5, OneRequestLemma

LEMMA EvictStep ==
  ASSUME Inv, NEW key, Evict(key)
  PROVE  Inv'
<1>1. UNCHANGED <<world, hash, process, settings, tools, session, request>>  BY DEF Evict
<1>2. Pooled'  BY DEF Inv, Pooled, Evict
<1>3. \A r \in Request : Good(r)'
  <2> TAKE r \in Request
  <2>1. Good(r) /\ request'[r] = request[r]  BY <1>1 DEF Inv
  <2> QED  BY <1>1, <2>1, FrameLemma
<1> QED  BY <1>1, <1>2, <1>3 DEF Inv, Ready

(* The address of a guarded connection is one the networks allow. *)
LEMMA ConnectLemma ==
  ASSUME NEW networks, NEW addresses \in Resolution, NEW dead,
         ConnectTcp(networks, addresses, dead) # None
  PROVE  Allows(networks, ConnectTcp(networks, addresses, dead))
<1> DEFINE live == {i \in DOMAIN addresses : addresses[i] \notin dead}
           first == CHOOSE i \in live : \A j \in live : i <= j
<1>1. AllAllowed(networks, addresses) /\ live # {}  BY DEF ConnectTcp
<1>2. ConnectTcp(networks, addresses, dead) = addresses[first]  BY <1>1 DEF ConnectTcp
<1>3. live \subseteq Nat  BY ResolutionAssumption DEF IsList
<1>4. \E m \in live : \A j \in live : m <= j  BY <1>1, <1>3, LeastLemma
<1>5. first \in live  BY <1>4, Zenon
<1> QED  BY <1>1, <1>2, <1>5 DEF AllAllowed

LEMMA SendStep ==
  ASSUME Inv, NEW r \in Request, NEW addresses \in Resolution, NEW dead,
         Send(r, addresses, dead)
  PROVE  Inv'
<1> DEFINE client == request[r].client
           creds == client.credentials
           name == request[r].name
           op == Operation(name)
           address == IF client.guarded
                      THEN ConnectTcp(creds.allowed_networks, addresses, dead)
                      ELSE IF addresses = <<>> THEN None ELSE addresses[1]
           sent == [account |-> <<creds.user, creds.password>>,
                    to |-> BaseUrl(creds, op.service),
                    guarded |-> client.guarded,
                    address |-> address,
                    cf_access |-> client.cf_access,
                    verify |-> client.verify,
                    method |-> op.method,
                    path |-> PathOf(name, creds.deployment)]
<1>1. /\ request[r].at = "leased" /\ address # None
      /\ request' = [request EXCEPT ![r].at = "sent", ![r].sent = sent]
      /\ UNCHANGED <<world, hash, process, settings, tools, clients, session>>
  BY DEF Send
<1>2. client.guarded => Allows(creds.allowed_networks, address)
  BY <1>1, ConnectLemma
<1> HIDE DEF address
<1>3. SentBy(sent, client, name)  BY <1>2 DEF SentBy
<1> HIDE DEF sent
<1>4. Good(r)  BY DEF Inv
<1>5. OnlyAt(r)  BY <1>1 DEF Inv, OnlyAt
<1>6. /\ DOMAIN request'[r] = Fields
      /\ request'[r].at = "sent" /\ request'[r].sent = sent
      /\ request'[r].headers = request[r].headers
      /\ request'[r].scope = request[r].scope /\ request'[r].context = request[r].context
      /\ request'[r].name = name /\ request'[r].client = client
  BY <1>1, <1>4 DEF Inv, Good, Fields, Nobody
<1>7. Good(r)'
  <2>1. Routed(r)'  BY <1>1, <1>4, <1>6 DEF Good, Routed
  <2>2. Resolve(r)' = Resolve(r)  BY <1>1, <1>6 DEF Resolve
  <2>3. Leased(r)'  BY <1>1, <1>4, <1>6, <2>2 DEF Good, Leased
  <2>4. UNCHANGED tools  BY <1>1
  <2>5. Outcome(r)'
    BY <1>3, <1>6, <2>4 DEF Outcome, SentBy, Operation, PathOf
  <2> QED  BY <1>4, <1>6, <2>1, <2>3, <2>5 DEF Good
<1>8. Pooled'  BY <1>1 DEF Inv, Pooled
<1>9. session' # None => IsCredentials(session'.context)  BY <1>1 DEF Inv
<1> QED  BY <1>1, <1>5, <1>7, <1>8, <1>9, OneRequestLemma

LEMMA StepInv == Inv /\ [Next]_vars => Inv'
<1> SUFFICES ASSUME Inv, [Next]_vars PROVE Inv'  OBVIOUS
<1>1. CASE Start  BY <1>1, StartStep
<1>2. ASSUME NEW r \in Request, NEW headers \in world.requests,
             Dispatch(r, headers) \/ Receive(r, headers)
      PROVE  Inv'
  BY <1>2, DispatchStep, ReceiveStep
<1>3. ASSUME NEW r \in Request, NEW name, CallTool(r, name) PROVE Inv'
  BY <1>3, CallToolStep
<1>4. ASSUME NEW r \in Request, NEW addresses \in Resolution, NEW dead, Send(r, addresses, dead)
      PROVE  Inv'
  BY <1>4, SendStep
<1>5. ASSUME NEW r \in Request, ReadResource(r) \/ End(r) PROVE Inv'
  BY <1>5, ReadResourceStep, EndStep
<1>6. ASSUME NEW key, Evict(key) PROVE Inv'  BY <1>6, EvictStep
<1>7. CASE UNCHANGED vars
  <2>1. UNCHANGED <<world, hash, process, settings, tools, clients, session, request>>
    BY <1>7 DEF vars
  <2>2. \A r \in Request : Good(r)'
    <3> TAKE r \in Request
    <3>1. Good(r) /\ request'[r] = request[r]  BY <2>1 DEF Inv
    <3> QED  BY <2>1, <3>1, FrameLemma
  <2> QED  BY <2>1, <2>2 DEF Inv, Ready, Pooled
<1> QED  BY <1>1, <1>2, <1>3, <1>4, <1>5, <1>6, <1>7 DEF Next

THEOREM Invariant == Spec => []Inv
<1> QED  BY InitInv, StepInv, PTL DEF Spec

-----------------------------------------------------------------------------
(* What follows from Inv. *)

(* FrontTypeOK holds in every reachable state: credentials are complete in the  *)
(* scope of a request, in the session and in the pool, for any environment that *)
(* is accepted and any headers that are passed on.                              *)
THEOREM FrontTypeCorrect == Spec => []FrontTypeOK
<1>1. ASSUME Inv PROVE FrontTypeOK
  <2>1. process = "up" => /\ settings.onprem_server_url \in Origin \cup {None}
                          /\ IsPair(settings.onprem_cf_access)
    <3>1. SUFFICES ASSUME process = "up"
                   PROVE  /\ settings.onprem_server_url \in Origin \cup {None}
                          /\ IsPair(settings.onprem_cf_access)
      OBVIOUS
    <3>2. world \in World /\ Accepted(world.env) /\ settings = FromEnv(world.env)
      BY <1>1, <3>1 DEF Inv, Ready
    <3>3. IsEnvironment(world.env)  BY <3>2, WorldAssumption
    <3> QED  BY <3>2, <3>3, ServerLemma, SettingsLemma
  <2>2. \A k \in DOMAIN clients : /\ IsCredentials(clients[k].credentials)
                                  /\ k = CacheKey(clients[k].credentials)
    BY <1>1 DEF Inv, Pooled
  <2>3. \A r \in Request :
          /\ request[r].at \in {"none", "routed", "leased", "sent", "shown"}
          /\ \A creds \in {request[r].scope, request[r].context} : creds # None => IsCredentials(creds)
          /\ request[r].at \in {"leased", "sent"} => IsCredentials(request[r].client.credentials)
    BY <1>1 DEF Inv, Good, Known, Leased, StandsFor
  <2> QED  BY <1>1, <2>1, <2>2, <2>3 DEF Inv, FrontTypeOK
<1> QED  BY <1>1, Invariant, PTL

(* A name the gate lets through in RO mode reads. *)
LEMMA GateLemma ==
  ASSUME NEW name, Allowed(tools, name, "RO")
  PROVE  Operation(name).method = "GET"
<1>1. CASE name \in DOMAIN Composites
  BY <1>1, CompositesAssumption DEF Operation, ReadOnly
<1>2. CASE name \notin DOMAIN Composites
  <2>1. IsToolName(tools, name)  BY <1>2 DEF Allowed, Names, Listed, IsToolName
  <2>2. RequiredMode(ToolsByName(tools, name).op) # "RW"  BY <2>1 DEF Allowed
  <2> QED  BY <1>2, <2>2 DEF RequiredMode, ReadOnly, Operation
<1> QED  BY <1>1, <1>2

(* A server in RO mode sends nothing but GET: whatever the documents name their *)
(* operations, however names collide and whatever hashes the process draws.     *)
THEOREM ReadOnlyServerSendsNoWrites == Spec => []ReadOnlyServer
<1>1. ASSUME Inv PROVE ReadOnlyServer
  <2>1. SUFFICES ASSUME world.env.mode = "RO", NEW r \in Request, request[r].at = "sent"
                 PROVE  request[r].sent.method = "GET"
    BY DEF ReadOnlyServer, Sent
  <2>2. Good(r)  BY <1>1 DEF Inv
  <2>3. settings = FromEnv(world.env)  BY <1>1, <2>1, ResolveLemma
  <2>4. settings.mode = "RO"  BY <2>1, <2>3 DEF FromEnv
  <2>5. Allowed(tools, request[r].name, "RO")  BY <2>1, <2>2, <2>4 DEF Good, Leased
  <2>6. Operation(request[r].name).method = "GET"  BY <2>5, GateLemma
  <2>7. request[r].sent.method = Operation(request[r].name).method
    BY <2>1, <2>2 DEF Good, Outcome, SentBy
  <2> QED  BY <2>6, <2>7
<1> QED  BY <1>1, Invariant, PTL

(* The key leaves out nothing of a client that its connections show. *)
LEMMA KeyLemma ==
  ASSUME NEW client, NEW creds, StandsFor(client, creds), IsCredentials(creds)
  PROVE  /\ client.credentials.user = creds.user
         /\ client.credentials.password = creds.password
         /\ client.credentials.deployment = creds.deployment
         /\ client.credentials.allowed_networks = creds.allowed_networks
         /\ \A service : BaseUrl(client.credentials, service) = BaseUrl(creds, service)
         /\ client.cf_access = IF creds.deployment = "onprem" THEN creds.cf_access ELSE NoPair
         /\ client.guarded = (creds.deployment = "onprem")
         /\ client.verify = (creds.deployment = "cloud" \/ creds.verify_ssl)
<1> DEFINE own == client.credentials
<1>1. client = HttpClient(own) /\ CacheKey(own) = CacheKey(creds)  BY DEF StandsFor
<1>2. /\ client.verify = (own.deployment = "cloud" \/ own.verify_ssl)
      /\ client.guarded = (own.deployment = "onprem")
      /\ client.cf_access = IF own.deployment = "onprem" THEN own.cf_access ELSE NoPair
  BY <1>1 DEF HttpClient
<1>3. /\ own.user = creds.user /\ own.password = creds.password
      /\ own.deployment = creds.deployment /\ Endpoint(own) = Endpoint(creds)
      /\ own.cf_access = creds.cf_access /\ own.verify_ssl = creds.verify_ssl
      /\ own.allowed_networks = creds.allowed_networks
  BY <1>1 DEF CacheKey
<1> HIDE DEF own
<1>4. \A service : BaseUrl(own, service) = BaseUrl(creds, service)
  BY <1>3 DEF BaseUrl, Endpoint
<1> QED  BY <1>2, <1>3, <1>4 DEF own

-----------------------------------------------------------------------------
(* A request acts as it asks to. *)

(* The properties read what is asked for off the headers and the environment;   *)
(* the middleware and the resolvers put the same into the credentials.          *)
Asks(creds, headers) ==
  /\ <<creds.user, creds.password>> = AskedAccount(headers)
  /\ creds.region = AskedRegion(headers)
  /\ AskedServer(headers) = None => creds.deployment = "cloud"
  /\ AskedServer(headers) # None =>
       /\ creds.deployment = "onprem" /\ creds.server_url = AskedServer(headers)
       /\ creds.allowed_networks = world.env.networks
       /\ creds.cf_access =
            IF AskedPair(headers) THEN <<headers.cf_id, headers.cf_secret>>
            ELSE IF world.env.server_url # None
                    /\ AskedServer(headers) = NormalizeServerUrl(world.env.server_url)
            THEN world.env.cf ELSE NoPair

LEMMA EnvAsksLemma ==
  ASSUME Accepted(world.env), IsEnvironment(world.env), settings = FromEnv(world.env),
         settings.auth_mode = "env", NEW headers
  PROVE  Asks(EnvCredentials(settings), headers)
<1> DEFINE creds == EnvCredentials(settings)
           env == world.env
<1>1. /\ creds.user = settings.user /\ creds.password = settings.password
      /\ creds.region = settings.region /\ creds.deployment = settings.deployment
      /\ creds.server_url = settings.onprem_server_url
      /\ creds.cf_access = settings.onprem_cf_access
      /\ creds.allowed_networks = settings.onprem_networks
  BY DEF EnvCredentials
<1>2. /\ settings.user = env.user /\ settings.password = env.password
      /\ settings.region = env.region
      /\ settings.deployment = env.deployment /\ settings.deployment \in {"cloud", "onprem"}
      /\ settings.onprem_networks = env.networks /\ settings.onprem_cf_access = env.cf
  BY SettingsLemma
<1>3. settings.deployment = "onprem" =>
        /\ settings.onprem_server_url # None
        /\ settings.onprem_server_url = NormalizeServerUrl(env.server_url)
        /\ env.server_url # None
  BY ServerLemma
<1>4. /\ AskedAccount(headers) = <<env.user, env.password>>
      /\ AskedServer(headers) = IF env.deployment = "onprem"
                                THEN NormalizeServerUrl(env.server_url) ELSE None
      /\ AskedRegion(headers) = env.region
      /\ ~AskedPair(headers)
  BY DEF Basic, AskedAccount, AskedServer, AskedRegion, AskedPair
<1> HIDE DEF creds
<1> QED  BY <1>1, <1>2, <1>3, <1>4 DEF Asks, creds

LEMMA BasicAsksLemma ==
  ASSUME Accepted(world.env), IsEnvironment(world.env), settings = FromEnv(world.env),
         settings.auth_mode = "basic",
         NEW headers, IsHeaders(headers), Status(settings, headers) = 200
  PROVE  Asks(RequestCredentials(settings, headers), headers)
<1> DEFINE creds == RequestCredentials(settings, headers)
           server == ServerOf(settings, headers)
           env == world.env
<1>1. Describes(creds, settings, headers, server)  BY RequestLemma
<1>2. HasBasicAuth(headers) /\ ~Malformed(headers) /\ ~HasNoOrigin(settings, headers)
  BY StatusLemma
<1>3. /\ OverrideUrl(headers) \in Origin \cup {None}
      /\ headers.server_url = None <=> OverrideUrl(headers) = None
      /\ headers.server_url # None => OverrideUrl(headers) = NormalizeServerUrl(headers.server_url)
  BY <1>2, OverrideLemma
<1>4. /\ env.server_url = None => settings.onprem_server_url = None
      /\ env.server_url # None =>
           /\ settings.onprem_server_url = NormalizeServerUrl(env.server_url)
           /\ settings.onprem_server_url # None
  BY ServerLemma
<1>5. /\ settings.region = env.region /\ settings.deployment = env.deployment
      /\ settings.onprem_networks = env.networks /\ settings.onprem_cf_access = env.cf
  BY SettingsLemma
<1>6. Basic  BY DEF Basic
<1>7. server = AskedServer(headers)
  BY <1>2, <1>3, <1>4, <1>5, <1>6 DEF ServerOf, HasNoOrigin, AskedServer
<1>8. <<creds.user, creds.password>> = AskedAccount(headers)
  BY <1>1, <1>2, <1>6 DEF Describes, HasBasicAuth, IsHeaders, AskedAccount
<1>9. creds.region = AskedRegion(headers)
  BY <1>1, <1>5, <1>6 DEF Describes, Region, AskedRegion
<1>10. server # None =>
         CfPair(settings, headers) =
           IF AskedPair(headers) THEN <<headers.cf_id, headers.cf_secret>>
           ELSE IF env.server_url # None /\ server = NormalizeServerUrl(env.server_url)
           THEN env.cf ELSE NoPair
  <2>1. SUFFICES ASSUME server # None, headers.cf_id = None
                 PROVE  CfPair(settings, headers) =
                          IF env.server_url # None /\ server = NormalizeServerUrl(env.server_url)
                          THEN env.cf ELSE NoPair
    BY <1>6 DEF CfPair, AskedPair
  <2>2. IsDefault(settings, headers) <=>
          env.server_url # None /\ server = NormalizeServerUrl(env.server_url)
    BY <1>3, <1>4, <2>1 DEF IsDefault, ServerOf
  <2> QED  BY <1>5, <2>1, <2>2 DEF CfPair
<1> HIDE DEF creds, server
<1> QED  BY <1>1, <1>5, <1>7, <1>8, <1>9, <1>10 DEF Asks, Describes, creds

LEMMA AsksLemma ==
  ASSUME Inv, NEW r \in Request, request[r].at # "none"
  PROVE  Asks(Resolve(r), request[r].headers)
<1>1. /\ process = "up" /\ world \in World
      /\ Accepted(world.env) /\ IsEnvironment(world.env) /\ settings = FromEnv(world.env)
  BY ResolveLemma
<1>2. /\ request[r].headers \in world.requests
      /\ settings.auth_mode = "basic" =>
           /\ Status(settings, request[r].headers) = 200
           /\ request[r].scope = RequestCredentials(settings, request[r].headers)
  BY DEF Inv, Good, Routed
<1>3. IsHeaders(request[r].headers)  BY <1>1, <1>2, WorldAssumption
<1>4. settings.auth_mode \in {"env", "basic"}  BY <1>1, SettingsLemma
<1>5. CASE settings.auth_mode = "env"  BY <1>1, <1>5, EnvAsksLemma DEF Resolve
<1>6. CASE settings.auth_mode = "basic"
  BY <1>1, <1>2, <1>3, <1>6, BasicAsksLemma DEF Resolve
<1> QED  BY <1>4, <1>5, <1>6

(* A leased client connects as the request's own credentials would. *)
LEMMA ClientLemma ==
  ASSUME Inv, NEW r \in Request, request[r].at \in {"leased", "sent"}
  PROVE  LET creds == Resolve(r)
             client == request[r].client
         IN  /\ client.credentials.user = creds.user
             /\ client.credentials.password = creds.password
             /\ client.credentials.deployment = creds.deployment
             /\ client.credentials.allowed_networks = creds.allowed_networks
             /\ \A service : BaseUrl(client.credentials, service) = BaseUrl(creds, service)
             /\ client.cf_access = IF creds.deployment = "onprem" THEN creds.cf_access ELSE NoPair
             /\ client.guarded = (creds.deployment = "onprem")
             /\ client.verify = (creds.deployment = "cloud" \/ creds.verify_ssl)
<1>1. StandsFor(request[r].client, Resolve(r))  BY DEF Inv, Good, Leased
<1>2. IsCredentials(Resolve(r))  BY ResolveLemma
<1> QED  BY <1>1, <1>2, KeyLemma

(* Whoever else is served meanwhile, a request acts with the account, at the    *)
(* place and behind the Cloudflare pair it asks for, and is told its own region *)
(* and server: for any number of requests, any pool and any session.            *)
THEOREM RequestsActAsTheyAsk == Spec => []ConnectionsAreOwn
<1>1. ASSUME Inv PROVE ConnectionsAreOwn
  <2> SUFFICES ASSUME NEW r \in Request
               PROVE  LET headers == request[r].headers
                          sent == request[r].sent
                          server == AskedServer(headers)
                      IN  /\ request[r].at = "sent" =>
                               /\ sent.account = AskedAccount(headers)
                               /\ sent.guarded = (server # None)
                               /\ sent.to = IF server # None THEN server
                                            ELSE <<AskedRegion(headers), Operation(request[r].name).service>>
                               /\ sent.cf_access =
                                    IF server = None THEN NoPair
                                    ELSE IF AskedPair(headers) THEN <<headers.cf_id, headers.cf_secret>>
                                    ELSE IF world.env.server_url # None
                                            /\ server = NormalizeServerUrl(world.env.server_url)
                                    THEN world.env.cf ELSE NoPair
                          /\ request[r].at = "shown" =>
                               request[r].shown = [region |-> AskedRegion(headers), server |-> server]
    BY DEF ConnectionsAreOwn
  <2> DEFINE headers == request[r].headers
             sent == request[r].sent
             client == request[r].client
             server == AskedServer(headers)
             creds == Resolve(r)
             service == Operation(request[r].name).service
  <2>1. Good(r)  BY <1>1 DEF Inv
  <2>2. CASE request[r].at = "sent"
    <3>1. /\ sent.account = <<client.credentials.user, client.credentials.password>>
          /\ sent.to = BaseUrl(client.credentials, service)
          /\ sent.guarded = client.guarded
          /\ sent.cf_access = client.cf_access
      BY <2>1, <2>2 DEF Good, Outcome, SentBy
    <3>2. /\ client.credentials.user = creds.user
          /\ client.credentials.password = creds.password
          /\ BaseUrl(client.credentials, service) = BaseUrl(creds, service)
          /\ client.cf_access = IF creds.deployment = "onprem" THEN creds.cf_access ELSE NoPair
          /\ client.guarded = (creds.deployment = "onprem")
      BY <1>1, <2>2, ClientLemma
    <3>3. Asks(creds, headers)  BY <1>1, <2>2, AsksLemma
    <3> HIDE DEF headers, sent, client, server, creds, service
    <3>4. sent.account = AskedAccount(headers)  BY <3>1, <3>2, <3>3 DEF Asks
    <3>5. CASE server = None
      <4>1. creds.deployment = "cloud" /\ creds.region = AskedRegion(headers)
        BY <3>3, <3>5 DEF Asks, server
      <4>2. sent.guarded = FALSE  BY <3>1, <3>2, <4>1
      <4>3. sent.to = <<AskedRegion(headers), service>> /\ sent.cf_access = NoPair
        BY <3>1, <3>2, <4>1 DEF BaseUrl
      <4> QED  BY <2>2, <3>4, <3>5, <4>2, <4>3 DEF headers, sent, server, service
    <3>6. CASE server # None
      <4>1. /\ creds.deployment = "onprem" /\ creds.server_url = server
            /\ creds.cf_access =
                 IF AskedPair(headers) THEN <<headers.cf_id, headers.cf_secret>>
                 ELSE IF world.env.server_url # None
                         /\ server = NormalizeServerUrl(world.env.server_url)
                 THEN world.env.cf ELSE NoPair
        BY <3>3, <3>6 DEF Asks, server
      <4>2. sent.guarded = TRUE  BY <3>1, <3>2, <4>1
      <4>3. sent.to = server /\ sent.cf_access = creds.cf_access
        BY <3>1, <3>2, <4>1 DEF BaseUrl
      <4> QED  BY <2>2, <3>4, <3>6, <4>1, <4>2, <4>3 DEF headers, sent, server, service
    <3> QED  BY <3>5, <3>6
  <2>3. CASE request[r].at = "shown"
    <3>1. request[r].shown =
            [region |-> creds.region,
             server |-> IF creds.deployment = "onprem" THEN creds.server_url ELSE None]
      BY <2>1, <2>3 DEF Good, Outcome
    <3>2. Asks(creds, headers)  BY <1>1, <2>3, AsksLemma
    <3> HIDE DEF headers, server, creds
    <3>3. request[r].shown = [region |-> AskedRegion(headers), server |-> server]
      BY <3>1, <3>2 DEF Asks, server
    <3> QED  BY <2>3, <3>3 DEF headers, server
  <2> QED  BY <2>2, <2>3
<1> QED  BY <1>1, Invariant, PTL

(* A server that is asked for is the default one or listed for the user. *)
LEMMA OverridesAreConfigured ==
  ASSUME Accepted(world.env), settings = FromEnv(world.env), settings.auth_mode = "basic",
         NEW headers, Status(settings, headers) = 200, AskedServer(headers) # None
  PROVE  \/ /\ world.env.server_url # None
            /\ NormalizeServerUrl(world.env.server_url) = AskedServer(headers)
         \/ /\ headers.authorization[1] \in DOMAIN world.env.origins
            /\ \E url \in world.env.origins[headers.authorization[1]] :
                 NormalizeServerUrl(url) = AskedServer(headers)
<1> DEFINE user == headers.authorization[1]
           origins == world.env.origins
<1>1. ~Malformed(headers) /\ ~IsForeign(settings, headers) /\ ~HasNoOrigin(settings, headers)
  BY StatusLemma
<1>2. /\ headers.server_url = None <=> OverrideUrl(headers) = None
      /\ headers.server_url # None => OverrideUrl(headers) = NormalizeServerUrl(headers.server_url)
  BY <1>1, OverrideLemma
<1>3. /\ world.env.server_url = None => settings.onprem_server_url = None
      /\ world.env.server_url # None =>
           settings.onprem_server_url = NormalizeServerUrl(world.env.server_url)
  BY ServerLemma
<1>4. settings.deployment = world.env.deployment /\ settings.onprem_origins = ParseOrigins(origins)
  BY DEF FromEnv
<1>5. CASE headers.server_url = None
  BY <1>1, <1>2, <1>3, <1>4, <1>5 DEF AskedServer, HasNoOrigin
<1>6. CASE headers.server_url # None
  <2>1. AskedServer(headers) = OverrideUrl(headers)  BY <1>2, <1>6 DEF AskedServer, Basic
  <2>2. CASE IsDefault(settings, headers)  BY <1>3, <2>1, <2>2 DEF IsDefault
  <2>3. CASE ~IsDefault(settings, headers)
    <3>1. OverrideUrl(headers) \in AllowedOrigins(settings, user)
      BY <1>1, <2>3 DEF IsForeign
    <3>2. user \in DOMAIN origins
      BY <1>4, <3>1 DEF AllowedOrigins, ParseOrigins
    <3>3. OverrideUrl(headers) \in {NormalizeServerUrl(url) : url \in origins[user]}
      BY <1>4, <3>1, <3>2 DEF AllowedOrigins, ParseOrigins
    <3> QED  BY <2>1, <3>2, <3>3
  <2> QED  BY <2>2, <2>3
<1> QED  BY <1>5, <1>6

(* Secrets go to the cloud over verified TLS, or to an origin the operator      *)
(* configured as the default or for this very user, at an address its networks  *)
(* contain: for any headers, and whatever the resolver answers.                 *)
THEOREM SecretsStayWithinTheConfiguration == Spec => []DestinationsAreAuthorized
<1>1. ASSUME Inv PROVE DestinationsAreAuthorized
  <2> SUFFICES ASSUME NEW r \in Request, request[r].at = "sent"
               PROVE  LET sent == request[r].sent
                          user == sent.account[1]
                          origins == world.env.origins
                          known == {world.env.server_url} \ {None}
                          granted == IF user \in DOMAIN origins THEN origins[user] ELSE {}
                      IN  IF ~sent.guarded THEN sent.to[1] \in VALID_REGIONS /\ sent.verify
                          ELSE /\ \E url \in known \cup granted : NormalizeServerUrl(url) = sent.to
                               /\ IF world.env.networks = {} THEN Plain(sent.address) \notin Special
                                  ELSE Plain(sent.address) \in UNION {NetworkOf[n] : n \in world.env.networks}
    BY DEF DestinationsAreAuthorized, Sent
  <2> DEFINE headers == request[r].headers
             sent == request[r].sent
             client == request[r].client
             server == AskedServer(headers)
             creds == Resolve(r)
             service == Operation(request[r].name).service
             user == sent.account[1]
             known == {world.env.server_url} \ {None}
             granted == IF user \in DOMAIN world.env.origins THEN world.env.origins[user] ELSE {}
  <2>1. SentBy(sent, client, request[r].name)  BY <1>1 DEF Inv, Good, Outcome
  <2>2. /\ client.credentials.user = creds.user
        /\ client.credentials.deployment = creds.deployment
        /\ client.credentials.allowed_networks = creds.allowed_networks
        /\ BaseUrl(client.credentials, service) = BaseUrl(creds, service)
        /\ client.guarded = (creds.deployment = "onprem")
        /\ client.verify = (creds.deployment = "cloud" \/ creds.verify_ssl)
    BY <1>1, ClientLemma
  <2>3. Asks(creds, headers)  BY <1>1, AsksLemma
  <2>4. /\ world \in World /\ Accepted(world.env) /\ IsEnvironment(world.env)
        /\ settings = FromEnv(world.env) /\ IsCredentials(creds)
    BY <1>1, ResolveLemma
  <2>5. CASE server = None
    <3> HIDE DEF headers, sent, client, creds, service
    <3>1. creds.deployment = "cloud"  BY <2>3, <2>5 DEF Asks
    <3>2. ~sent.guarded  BY <2>1, <2>2, <3>1 DEF SentBy
    <3>3. sent.verify  BY <2>1, <2>2, <3>1 DEF SentBy
    <3>4. sent.to = <<creds.region, service>>
      BY <2>1, <2>2, <3>1 DEF SentBy, BaseUrl, service
    <3>5. sent.to[1] \in VALID_REGIONS  BY <2>4, <3>4 DEF IsCredentials
    <3> QED  BY <3>2, <3>3, <3>5 DEF sent
  <2>6. CASE server # None
    <3>1. user = creds.user  BY <2>1, <2>2 DEF SentBy
    <3>2. ASSUME settings.auth_mode = "basic"
          PROVE  \E url \in known \cup granted : NormalizeServerUrl(url) = server
      <4>1. /\ Status(settings, headers) = 200
            /\ headers \in world.requests
        BY <1>1, <3>2 DEF Inv, Good, Routed
      <4>2. IsHeaders(headers) /\ HasBasicAuth(headers)
        BY <2>4, <4>1, StatusLemma, WorldAssumption
      <4>3. <<creds.user, creds.password>> = headers.authorization
        BY <2>3, <3>2 DEF Asks, AskedAccount, Basic
      <4>4. user = headers.authorization[1]  BY <3>1, <4>3
      <4>5. \/ /\ world.env.server_url # None
               /\ NormalizeServerUrl(world.env.server_url) = server
            \/ /\ headers.authorization[1] \in DOMAIN world.env.origins
               /\ \E url \in world.env.origins[headers.authorization[1]] :
                    NormalizeServerUrl(url) = server
        BY <2>4, <2>6, <3>2, <4>1, OverridesAreConfigured
      <4> HIDE DEF headers, server, user
      <4> QED  BY <4>4, <4>5
    <3>3. ASSUME settings.auth_mode # "basic"
          PROVE  \E url \in known \cup granted : NormalizeServerUrl(url) = server
      <4>1. settings.auth_mode = "env"  BY <2>4, <3>3, SettingsLemma
      <4>2. world.env.deployment = "onprem" /\ server = NormalizeServerUrl(world.env.server_url)
        BY <2>6, <3>3 DEF AskedServer, Basic
      <4>3. settings.deployment = "onprem"  BY <2>4, <4>2, SettingsLemma
      <4>4. world.env.server_url # None  BY <2>4, <4>1, <4>3, ServerLemma
      <4> HIDE DEF server
      <4> QED  BY <4>2, <4>4
    <3>4. \E url \in known \cup granted : NormalizeServerUrl(url) = server
      BY <3>2, <3>3
    <3> HIDE DEF headers, sent, client, creds, service, server, user, known, granted
    <3>5. /\ creds.deployment = "onprem" /\ creds.server_url = server
          /\ creds.allowed_networks = world.env.networks
      BY <2>3, <2>6 DEF Asks, server
    <3>6. sent.guarded /\ Allows(world.env.networks, sent.address)
      BY <2>1, <2>2, <3>5 DEF SentBy
    <3>7. sent.to = server  BY <2>1, <2>2, <3>5 DEF SentBy, BaseUrl, service
    <3>8. IF world.env.networks = {} THEN Plain(sent.address) \notin Special
          ELSE Plain(sent.address) \in UNION {NetworkOf[n] : n \in world.env.networks}
      BY <3>6 DEF Allows
    <3> QED  BY <3>4, <3>6, <3>7, <3>8 DEF sent, user, known, granted
  <2> QED  BY <2>5, <2>6
<1> QED  BY <1>1, Invariant, PTL

-----------------------------------------------------------------------------
(* The catalog. *)

AreTools(all) == \A i \in DOMAIN all : DOMAIN all[i] = {"op", "name", "onprem_path"}

(* An override renames nothing: the last entry for a tool sets its on-prem path. *)
KeepsNames(new, all) ==
  /\ DOMAIN new = DOMAIN all
  /\ \A i \in DOMAIN all :
       LET entries == {e \in DOMAIN Overrides : i \in Target(all, Overrides[e])}
       IN  /\ new[i].op = all[i].op
           /\ new[i].name = all[i].name
           /\ entries = {} => new[i].onprem_path = all[i].onprem_path
           /\ entries # {} =>
                \E e \in entries : new[i].onprem_path = Overrides[e].onprem_path

LEMMA OverriddenLemma ==
  ASSUME NEW all, AreTools(all)
  PROVE  KeepsNames(Overridden(all, Overrides), all)
<1>1. \A T \in SUBSET DOMAIN Overrides : T # {} => \E e \in T : \A f \in T : f <= e
  BY OverridesAssumption, GreatestLemma DEF IsList
<1> SUFFICES ASSUME NEW i \in DOMAIN all
             PROVE  LET entries == {e \in DOMAIN Overrides : i \in Target(all, Overrides[e])}
                    IN  /\ Overridden(all, Overrides)[i].op = all[i].op
                        /\ Overridden(all, Overrides)[i].name = all[i].name
                        /\ entries = {} =>
                             Overridden(all, Overrides)[i].onprem_path = all[i].onprem_path
                        /\ entries # {} =>
                             \E e \in entries :
                               Overridden(all, Overrides)[i].onprem_path = Overrides[e].onprem_path
  BY DEF Overridden, KeepsNames
<1> DEFINE entries == {e \in DOMAIN Overrides : i \in Target(all, Overrides[e])}
           last == CHOOSE e \in entries : \A f \in entries : f <= e
           tool == Overridden(all, Overrides)[i]
<1>2. tool = IF entries = {} THEN all[i] ELSE [all[i] EXCEPT !.onprem_path = Overrides[last].onprem_path]
  BY DEF Overridden
<1>3. entries \in SUBSET DOMAIN Overrides  OBVIOUS
<1>4. CASE entries = {}
  <2>1. tool = all[i]  BY <1>2, <1>4
  <2> QED  BY <1>4, <2>1
<1>5. CASE entries # {}
  <2>1. \E e \in entries : \A f \in entries : f <= e  BY <1>1, <1>3, <1>5
  <2>2. last \in entries  BY <2>1, Zenon
  <2>3. tool = [all[i] EXCEPT !.onprem_path = Overrides[last].onprem_path]  BY <1>2, <1>5
  <2> HIDE DEF entries, last, tool
  <2>4. /\ tool.op = all[i].op /\ tool.name = all[i].name
        /\ tool.onprem_path = Overrides[last].onprem_path
    BY <2>3 DEF AreTools
  <2> QED  BY <1>5, <2>2, <2>4 DEF entries, tool
<1> QED  BY <1>4, <1>5
(* What the words of the names of one set of documents are. *)
LEMMA WordsLemma ==
  ASSUME NEW w \in World, NEW hashes \in Hash, NEW i \in DOMAIN w.specs, IsTool(w.specs[i])
  PROVE  /\ Prefix[w.specs[i].service] \in STRING
         /\ w.specs[i].id \in Seq(STRING)
         /\ VersionWord(w.specs[i]) \in STRING
         /\ hashes[w.specs[i].path] \in STRING
         /\ \A j \in DOMAIN w.specs :
              hashes[w.specs[j].path] \notin ToSet(w.specs[i].id) \cup {VersionWord(w.specs[i])}
<1>1. AreDocuments(w.specs)  BY WorldAssumption
<1>2. w.specs[i].service \in DOMAIN Prefix  BY <1>1 DEF AreDocuments
<1> QED  BY <1>1, <1>2, PrefixAssumption DEF AreDocuments

(* Two rounds of suffixes leave no two equal names: first a version, which       *)
(* tells apart the names on one path, then a hash, which tells apart the paths. *)
TwoRounds(P, path, first, id, v, h, n0, n1, n2) ==
  /\ first \in [P -> STRING] /\ id \in [P -> Seq(STRING)]
  /\ v \in [P -> STRING] /\ h \in [P -> STRING]
  /\ n0 \in [P -> Seq(STRING)] /\ n1 \in [P -> Seq(STRING)]
  /\ \A i \in P : n0[i] = <<first[i]>> \o id[i]
  /\ \A i \in P : n1[i] = IF \E j \in P \ {i} : n0[j] = n0[i] THEN Append(n0[i], v[i]) ELSE n0[i]
  /\ \A i \in P : n2[i] = IF \E j \in P \ {i} : n1[j] = n1[i] THEN Append(n1[i], h[i]) ELSE n1[i]
  /\ \A i, j \in P : i # j /\ path[i] = path[j] => ~IsPrefix(id[i], id[j])
  /\ \A i, j \in P : h[i] = h[j] => path[i] = path[j]
  /\ \A i, j \in P : h[j] \notin ToSet(id[i]) /\ h[j] # v[i]

LEMMA TwoRoundsLemma ==
  ASSUME NEW P, NEW path, NEW first, NEW id, NEW v, NEW h, NEW n0, NEW n1, NEW n2,
         TwoRounds(P, path, first, id, v, h, n0, n1, n2)
  PROVE  \A i, j \in P : n2[i] = n2[j] => i = j
<1> USE DEF TwoRounds
<1>1. ASSUME NEW i \in P, NEW j \in P, i # j, path[i] = path[j]
      PROVE  n0[i] # n0[j]
  <2>1. /\ first[i] \in STRING /\ first[j] \in STRING
        /\ id[i] \in Seq(STRING) /\ id[j] \in Seq(STRING)
    OBVIOUS
  <2>2. n0[i] = <<first[i]>> \o id[i] /\ n0[j] = <<first[j]>> \o id[j]  OBVIOUS
  <2>3. n0[i] # n0[j] \/ IsPrefix(id[i], id[j])
    <3>1. <<first[i]>> \o id[i] # <<first[j]>> \o id[j] \/ IsPrefix(id[i], id[j])
      BY ONLY <2>1, EqualNameLemma, Zenon
    <3> QED  BY ONLY <2>2, <3>1, Zenon
  <2> QED  BY <1>1, <2>3
<1>2. ASSUME NEW i \in P, NEW j \in P, i # j, path[i] = path[j]
      PROVE  Append(n0[i], v[i]) # n0[j]
  <2>1. /\ first[i] \in STRING /\ first[j] \in STRING /\ v[i] \in STRING
        /\ id[i] \in Seq(STRING) /\ id[j] \in Seq(STRING)
    OBVIOUS
  <2>2. n0[i] = <<first[i]>> \o id[i] /\ n0[j] = <<first[j]>> \o id[j]  OBVIOUS
  <2>3. Append(n0[i], v[i]) # n0[j] \/ IsPrefix(id[i], id[j])
    <3>1. Append(<<first[i]>> \o id[i], v[i]) # <<first[j]>> \o id[j] \/ IsPrefix(id[i], id[j])
      BY ONLY <2>1, LongerNameLemma, Zenon
    <3> QED  BY ONLY <2>2, <3>1, Zenon
  <2> QED  BY <1>2, <2>3
<1>3. ASSUME NEW i \in P, NEW j \in P, i # j, path[i] = path[j]
      PROVE  n1[i] # n1[j]
  <2>1. n0[i] # n0[j] /\ Append(n0[i], v[i]) # n0[j] /\ Append(n0[j], v[j]) # n0[i]
    BY <1>1, <1>2, <1>3
  <2>2. Append(n0[i], v[i]) # Append(n0[j], v[j])
    <3>1. n0[i] \in Seq(STRING) /\ n0[j] \in Seq(STRING) /\ v[i] \in STRING /\ v[j] \in STRING
      OBVIOUS
    <3> QED  BY <2>1, <3>1, AppendInjective
  <2>3. n1[i] \in {n0[i], Append(n0[i], v[i])} /\ n1[j] \in {n0[j], Append(n0[j], v[j])}
    OBVIOUS
  <2> QED  BY <2>1, <2>2, <2>3
<1>4. ASSUME NEW i \in P, NEW j \in P, i # j
      PROVE  Append(n1[i], h[i]) # n1[j]
  <2>1. /\ n1[i] \in Seq(STRING) /\ n0[i] \in Seq(STRING) /\ n0[j] \in Seq(STRING)
        /\ h[i] \in STRING /\ v[j] \in STRING /\ first[i] \in STRING /\ first[j] \in STRING
        /\ id[j] \in Seq(STRING) /\ id[i] \in Seq(STRING) /\ v[i] \in STRING
        /\ h[i] \notin ToSet(id[j]) /\ h[i] # v[j]
    OBVIOUS
  <2>2. Len(n1[i]) >= 1
    <3>1. Len(n0[i]) = Len(id[i]) + 1 /\ Len(id[i]) \in Nat
      <4> DEFINE name == <<first[i]>> \o id[i]
      <4>1. n0[i] = name  OBVIOUS
      <4>2. first[i] \in STRING /\ id[i] \in Seq(STRING)  OBVIOUS
      <4>3. Len(name) = Len(id[i]) + 1 /\ Len(id[i]) \in Nat
        BY ONLY <4>2, NameLemma, Zenon
      <4> HIDE DEF name
      <4> QED  BY ONLY <4>1, <4>3
    <3>2. Len(Append(n0[i], v[i])) = Len(n0[i]) + 1  BY <2>1, AppendProperties
    <3>3. n1[i] \in {n0[i], Append(n0[i], v[i])}  OBVIOUS
    <3> QED  BY <3>1, <3>2, <3>3
  <2>3. Append(n1[i], h[i]) # n0[j]
    <3>1. n0[j] = <<first[j]>> \o id[j]  OBVIOUS
    <3>2. Append(n1[i], h[i]) # <<first[j]>> \o id[j]
      BY ONLY <2>1, <2>2, LastWordLemma, Zenon
    <3> QED  BY ONLY <3>1, <3>2, Zenon
  <2>4. Append(n1[i], h[i]) # Append(n0[j], v[j])  BY <2>1, AppendInjective
  <2>5. n1[j] \in {n0[j], Append(n0[j], v[j])}  OBVIOUS
  <2> QED  BY <2>3, <2>4, <2>5
<1> SUFFICES ASSUME NEW i \in P, NEW j \in P, i # j PROVE n2[i] # n2[j]
  OBVIOUS
<1>5. CASE n1[i] = n1[j]
  <2>1. path[i] # path[j]  BY <1>3, <1>5
  <2>2. h[i] # h[j]  BY <2>1
  <2>3. n2[i] = Append(n1[i], h[i]) /\ n2[j] = Append(n1[j], h[j])
    <3>1. (\E k \in P \ {i} : n1[k] = n1[i]) /\ (\E k \in P \ {j} : n1[k] = n1[j])  BY <1>5
    <3> QED  BY <3>1
  <2>4. n1[i] \in Seq(STRING) /\ n1[j] \in Seq(STRING) /\ h[i] \in STRING /\ h[j] \in STRING
    OBVIOUS
  <2> QED  BY <2>2, <2>3, <2>4, AppendInjective
<1>6. CASE n1[i] # n1[j]
  <2>1. /\ n2[i] \in {n1[i], Append(n1[i], h[i])} /\ n2[j] \in {n1[j], Append(n1[j], h[j])}
        /\ n1[i] \in Seq(STRING) /\ n1[j] \in Seq(STRING) /\ h[i] \in STRING /\ h[j] \in STRING
    OBVIOUS
  <2>2. Append(n1[i], h[i]) # n1[j] /\ Append(n1[j], h[j]) # n1[i]  BY <1>4
  <2>3. Append(n1[i], h[i]) # Append(n1[j], h[j])  BY <1>6, <2>1, AppendInjective
  <2> QED  BY <1>6, <2>1, <2>2, <2>3
<1> QED  BY <1>5, <1>6

(* Operations that share a path have ids of their own, and hashes differ. *)
TellsApart(all, hashes) ==
  /\ \A i, j \in DOMAIN all :
       i # j /\ all[i].op.path = all[j].op.path => ~IsPrefix(all[i].op.id, all[j].op.id)
  /\ \A i, j \in DOMAIN all :
       hashes[all[i].op.path] = hashes[all[j].op.path] => all[i].op.path = all[j].op.path

(* _disambiguate_names keeps the operations in their places and leaves no two    *)
(* equal names.                                                                 *)
Disambiguates(all, specs, hashes) ==
  /\ AreTools(all)
  /\ DOMAIN all = {j \in DOMAIN specs : IsTool(specs[j])}
  /\ \A i \in DOMAIN all : /\ all[i].op = specs[i] /\ all[i].onprem_path = NoPath
                           /\ all[i].name[1] = Prefix[specs[i].service]
  /\ TellsApart(all, hashes) => \A i, j \in DOMAIN all : all[i].name = all[j].name => i = j

LEMMA DisambiguatedLemma ==
  ASSUME NEW w \in World, NEW hashes \in Hash,
         NEW T0, T0 = ToolsFromSpecs(w.specs),
         NEW T1, T1 = Suffixed(T0, VersionWords(T0)),
         NEW words, words = [i \in DOMAIN T0 |-> hashes[T0[i].op.path]],
         NEW T2, T2 = Suffixed(T1, words)
  PROVE  Disambiguates(T2, w.specs, hashes)
<1> DEFINE specs == w.specs
           P == {j \in DOMAIN specs : IsTool(specs[j])}
           first == [i \in P |-> Prefix[specs[i].service]]
           id == [i \in P |-> specs[i].id]
           path == [i \in P |-> specs[i].path]
           v == [i \in P |-> VersionWord(specs[i])]
           h == [i \in P |-> hashes[specs[i].path]]
           n0 == [i \in P |-> T0[i].name]
           n1 == [i \in P |-> T1[i].name]
           n2 == [i \in P |-> T2[i].name]
<1>1. /\ DOMAIN T0 = P
      /\ \A i \in P : /\ DOMAIN T0[i] = {"op", "name", "onprem_path"}
                      /\ T0[i].op = specs[i] /\ T0[i].onprem_path = NoPath
                      /\ T0[i].name = <<Prefix[specs[i].service]>> \o specs[i].id
  BY DEF ToolsFromSpecs
<1> HIDE DEF P
<1>2. /\ DOMAIN T1 = P
      /\ \A i \in P : T1[i] = IF Collides(T0, i)
                              THEN [T0[i] EXCEPT !.name = Append(T0[i].name, VersionWord(T0[i].op))]
                              ELSE T0[i]
  BY <1>1 DEF Suffixed, VersionWords
<1>3. /\ DOMAIN T2 = P
      /\ \A i \in P : T2[i] = IF Collides(T1, i)
                              THEN [T1[i] EXCEPT !.name = Append(T1[i].name, hashes[T0[i].op.path])]
                              ELSE T1[i]
  BY <1>1, <1>2 DEF Suffixed
<1>4. \A i \in P :
        /\ DOMAIN T1[i] = {"op", "name", "onprem_path"}
        /\ T1[i].op = specs[i] /\ T1[i].onprem_path = NoPath
        /\ T1[i].name = IF Collides(T0, i) THEN Append(T0[i].name, v[i]) ELSE T0[i].name
  <2> TAKE i \in P
  <2>1. v[i] = VersionWord(T0[i].op)  BY <1>1
  <2>2. /\ DOMAIN T0[i] = {"op", "name", "onprem_path"}
        /\ T0[i].op = specs[i] /\ T0[i].onprem_path = NoPath
    BY <1>1
  <2> HIDE DEF v
  <2>3. T1[i] = IF Collides(T0, i) THEN [T0[i] EXCEPT !.name = Append(T0[i].name, v[i])] ELSE T0[i]
    BY ONLY <1>2, <2>1
  <2> QED  BY ONLY <2>2, <2>3
<1>5. \A i \in P :
        /\ DOMAIN T2[i] = {"op", "name", "onprem_path"}
        /\ T2[i].op = specs[i] /\ T2[i].onprem_path = NoPath
        /\ T2[i].name = IF Collides(T1, i) THEN Append(T1[i].name, h[i]) ELSE T1[i].name
  <2> TAKE i \in P
  <2>1. h[i] = hashes[T0[i].op.path]  BY <1>1
  <2>2. /\ DOMAIN T1[i] = {"op", "name", "onprem_path"}
        /\ T1[i].op = specs[i] /\ T1[i].onprem_path = NoPath
    BY <1>4
  <2> HIDE DEF h
  <2>3. T2[i] = IF Collides(T1, i) THEN [T1[i] EXCEPT !.name = Append(T1[i].name, h[i])] ELSE T1[i]
    BY ONLY <1>3, <2>1
  <2> QED  BY ONLY <2>2, <2>3
<1>6. \A i \in P :
        /\ Prefix[specs[i].service] \in STRING /\ specs[i].id \in Seq(STRING)
        /\ VersionWord(specs[i]) \in STRING /\ hashes[specs[i].path] \in STRING
        /\ \A j \in P : hashes[specs[j].path] \notin ToSet(specs[i].id) \cup {VersionWord(specs[i])}
  BY WordsLemma DEF P
<1>7. /\ first \in [P -> STRING] /\ id \in [P -> Seq(STRING)]
      /\ v \in [P -> STRING] /\ h \in [P -> STRING]
      /\ \A i, j \in P : h[j] \notin ToSet(id[i]) /\ h[j] # v[i]
  BY <1>6
<1>8. \A i \in P : n0[i] = <<first[i]>> \o id[i]  BY <1>1
<1>9. \A i \in P : n1[i] = IF \E j \in P \ {i} : n0[j] = n0[i] THEN Append(n0[i], v[i]) ELSE n0[i]
  BY <1>1, <1>4 DEF Collides
<1>10. \A i \in P : n2[i] = IF \E j \in P \ {i} : n1[j] = n1[i] THEN Append(n1[i], h[i]) ELSE n1[i]
  <2>1. \A i \in P : Collides(T1, i) = (\E j \in P \ {i} : n1[j] = n1[i])
    BY ONLY <1>2 DEF Collides
  <2>2. \A i \in P : n1[i] = T1[i].name /\ n2[i] = T2[i].name  OBVIOUS
  <2> HIDE DEF n1, n2, h
  <2> QED  BY ONLY <1>5, <2>1, <2>2
<1>11. DOMAIN n0 = P /\ DOMAIN n1 = P /\ n0 = [i \in P |-> n0[i]] /\ n1 = [i \in P |-> n1[i]]
  OBVIOUS
<1>12. \A i \in P : n2[i] = T2[i].name  OBVIOUS
<1>13. \A i, j \in P : path[i] = path[j] <=> specs[i].path = specs[j].path  OBVIOUS
<1>14. \A i, j \in P : h[i] = h[j] <=> hashes[specs[i].path] = hashes[specs[j].path]  OBVIOUS
<1>15. \A i \in P : id[i] = specs[i].id /\ first[i] = Prefix[specs[i].service]  OBVIOUS
<1> HIDE DEF first, id, path, v, h, n0, n1, n2
<1>16. \A i \in P : n0[i] \in Seq(STRING) /\ Len(n0[i]) \in Nat \ {0} /\ n0[i][1] = first[i]
  <2> TAKE i \in P
  <2>1. first[i] \in STRING /\ id[i] \in Seq(STRING)  BY <1>7
  <2>2. /\ <<first[i]>> \o id[i] \in Seq(STRING) /\ (<<first[i]>> \o id[i])[1] = first[i]
        /\ Len(<<first[i]>> \o id[i]) = Len(id[i]) + 1 /\ Len(id[i]) \in Nat
    <3> DEFINE S == STRING
               p == first[i]
               s == id[i]
    <3>1. p \in S /\ s \in Seq(S)  BY <2>1
    <3> HIDE DEF S, p, s
    <3>2. /\ <<p>> \o s \in Seq(S) /\ (<<p>> \o s)[1] = p
          /\ Len(<<p>> \o s) = Len(s) + 1 /\ Len(s) \in Nat
      BY ONLY <3>1, NameLemma, Zenon
    <3> QED  BY <3>2 DEF S, p, s
  <2>3. /\ n0[i] \in Seq(STRING) /\ n0[i][1] = first[i]
        /\ Len(n0[i]) = Len(id[i]) + 1 /\ Len(id[i]) \in Nat
    BY ONLY <1>8, <2>2, Zenon
  <2> QED  BY <2>3
<1>17. \A i \in P : n1[i] \in Seq(STRING) /\ Len(n1[i]) \in Nat \ {0} /\ n1[i][1] = first[i]
  <2> TAKE i \in P
  <2>1. n0[i] \in Seq(STRING) /\ Len(n0[i]) \in Nat \ {0} /\ n0[i][1] = first[i] /\ v[i] \in STRING
    BY <1>7, <1>16
  <2>2. n1[i] \in {n0[i], Append(n0[i], v[i])}  BY <1>9
  <2>3. /\ Append(n0[i], v[i]) \in Seq(STRING) /\ Append(n0[i], v[i])[1] = n0[i][1]
        /\ Len(Append(n0[i], v[i])) = Len(n0[i]) + 1
    BY <2>1, AppendProperties
  <2>4. Len(Append(n0[i], v[i])) \in Nat \ {0}  BY <2>1, <2>3
  <2>5. CASE n1[i] = n0[i]  BY ONLY <2>1, <2>5
  <2>6. CASE n1[i] = Append(n0[i], v[i])  BY ONLY <2>1, <2>3, <2>4, <2>6
  <2> QED  BY <2>2, <2>5, <2>6
<1>18. \A i \in P : n2[i][1] = first[i]
  <2> TAKE i \in P
  <2>1. n1[i] \in Seq(STRING) /\ Len(n1[i]) \in Nat \ {0} /\ n1[i][1] = first[i] /\ h[i] \in STRING
    BY <1>7, <1>17
  <2>2. n2[i] \in {n1[i], Append(n1[i], h[i])}  BY <1>10
  <2>3. Append(n1[i], h[i])[1] = n1[i][1]  BY <2>1, AppendProperties
  <2> QED  BY <2>1, <2>2, <2>3
<1>19. ASSUME TellsApart(T2, hashes)
       PROVE  \A i, j \in P : n2[i] = n2[j] => i = j
  <2>1. \A i, j \in P : i # j /\ path[i] = path[j] => ~IsPrefix(id[i], id[j])
    <3>1. \A i, j \in P : i # j /\ specs[i].path = specs[j].path
                             => ~IsPrefix(specs[i].id, specs[j].id)
      <4> TAKE i \in P, j \in P
      <4>1. i \in DOMAIN T2 /\ j \in DOMAIN T2 /\ T2[i].op = specs[i] /\ T2[j].op = specs[j]
        BY ONLY <1>3, <1>5
      <4> QED  BY ONLY <1>19, <4>1 DEF TellsApart
    <3> QED  BY ONLY <1>13, <1>15, <3>1
  <2>2. \A i, j \in P : h[i] = h[j] => path[i] = path[j]
    <3>1. \A i, j \in P : hashes[specs[i].path] = hashes[specs[j].path]
                             => specs[i].path = specs[j].path
      <4> TAKE i \in P, j \in P
      <4>1. i \in DOMAIN T2 /\ j \in DOMAIN T2 /\ T2[i].op = specs[i] /\ T2[j].op = specs[j]
        BY ONLY <1>3, <1>5
      <4> QED  BY ONLY <1>19, <4>1 DEF TellsApart
    <3> QED  BY ONLY <1>13, <1>14, <3>1
  <2>3. n0 \in [P -> Seq(STRING)] /\ n1 \in [P -> Seq(STRING)]
    BY <1>11, <1>16, <1>17
  <2>4. TwoRounds(P, path, first, id, v, h, n0, n1, n2)
    BY ONLY <1>7, <1>8, <1>9, <1>10, <2>1, <2>2, <2>3 DEF TwoRounds
  <2> QED  BY ONLY <2>4, TwoRoundsLemma
<1>20. DOMAIN T2 = {j \in DOMAIN specs : IsTool(specs[j])}  BY <1>3 DEF P
<1>21. \A i \in DOMAIN T2 : /\ DOMAIN T2[i] = {"op", "name", "onprem_path"}
                            /\ T2[i].op = specs[i] /\ T2[i].onprem_path = NoPath
                            /\ T2[i].name[1] = Prefix[specs[i].service]
  BY ONLY <1>3, <1>5, <1>12, <1>15, <1>18
<1>22. TellsApart(T2, hashes) => \A i, j \in DOMAIN T2 : T2[i].name = T2[j].name => i = j
  BY ONLY <1>3, <1>12, <1>19
<1>23. AreTools(T2)  BY ONLY <1>21 DEF AreTools
<1> QED  BY ONLY <1>20, <1>21, <1>22, <1>23 DEF Disambiguates

(* The entries of the overrides for an operation. *)
EntriesFor(op) ==
  {e \in DOMAIN Overrides : /\ Overrides[e].service = op.service
                            /\ Overrides[e].method = op.method
                            /\ Overrides[e].path = op.path}

(* The catalog of a process, whatever the documents and the hashes it draws:     *)
(* its tools do what the documents say, on the path the last override sets.     *)
IsTheToolOf(tool, op) ==
  /\ tool.op = op
  /\ op.service \in DOMAIN Prefix
  /\ tool.name[1] = Prefix[op.service]
  /\ EntriesFor(op) = {} => tool.onprem_path = NoPath
  /\ EntriesFor(op) # {} => \E e \in EntriesFor(op) : tool.onprem_path = Overrides[e].onprem_path

IsCatalog(all, specs, hashes) ==
  /\ Len(specs) \in Nat /\ DOMAIN all \subseteq 1 .. Len(specs)
  /\ \A i \in DOMAIN all : IsTheToolOf(all[i], specs[i])
  /\ TellsApart(all, hashes) => \A i, j \in DOMAIN all : all[i].name = all[j].name => i = j

LEMMA CatalogLemma ==
  ASSUME NEW w \in World, NEW hashes \in Hash,
         NEW all, all = LoadAllTools(w.specs, Overrides, hashes)
  PROVE  IsCatalog(all, w.specs, hashes)
<1> DEFINE T0 == ToolsFromSpecs(w.specs)
           T1 == Suffixed(T0, VersionWords(T0))
           words == [i \in DOMAIN T0 |-> hashes[T0[i].op.path]]
           T2 == Suffixed(T1, words)
           P == {j \in DOMAIN w.specs : IsTool(w.specs[j])}
<1> HIDE DEF T0, T1, words, T2
<1>1. all = Overridden(T2, Overrides)
  BY Zenon DEF LoadAllTools, Disambiguated, T0, T1, words, T2
<1>2. AreDocuments(w.specs)  BY WorldAssumption
<1>3. /\ T0 = ToolsFromSpecs(w.specs) /\ T1 = Suffixed(T0, VersionWords(T0))
       /\ words = [i \in DOMAIN T0 |-> hashes[T0[i].op.path]] /\ T2 = Suffixed(T1, words)
  BY Zenon DEF T0, T1, words, T2
<1>4. Disambiguates(T2, w.specs, hashes)  BY ONLY <1>3, DisambiguatedLemma
<1>5. /\ DOMAIN T2 = P
      /\ \A i \in DOMAIN T2 : /\ T2[i].op = w.specs[i] /\ T2[i].onprem_path = NoPath
                              /\ T2[i].name[1] = Prefix[w.specs[i].service]
      /\ TellsApart(T2, hashes) => \A i, j \in DOMAIN T2 : T2[i].name = T2[j].name => i = j
  BY ONLY <1>4 DEF Disambiguates
<1>6. KeepsNames(all, T2)
  BY <1>1, <1>4, OverriddenLemma DEF Disambiguates
<1>7. /\ DOMAIN all = DOMAIN T2
      /\ \A i \in DOMAIN T2 :
           LET entries == {e \in DOMAIN Overrides : i \in Target(T2, Overrides[e])}
           IN  /\ all[i].op = T2[i].op
               /\ all[i].name = T2[i].name
               /\ entries = {} => all[i].onprem_path = T2[i].onprem_path
               /\ entries # {} =>
                    \E e \in entries : all[i].onprem_path = Overrides[e].onprem_path
  BY <1>6 DEF KeepsNames
<1>8. Len(w.specs) \in Nat /\ DOMAIN w.specs = 1 .. Len(w.specs)
  BY <1>2 DEF AreDocuments, IsList
<1>9. \A i \in P : w.specs[i].service \in DOMAIN Prefix
  BY <1>2 DEF AreDocuments
<1>10. \A i, j \in P :
        /\ w.specs[i].service = w.specs[j].service
        /\ w.specs[i].method = w.specs[j].method
        /\ w.specs[i].path = w.specs[j].path
        => i = j
  BY <1>2 DEF AreDocuments
<1>11. \A i \in P : {e \in DOMAIN Overrides : i \in Target(T2, Overrides[e])} = EntriesFor(w.specs[i])
  <2> TAKE i \in P
  <2>1. i \in 1 .. Len(w.specs)  BY <1>8
  <2>2. \A j \in P : T2[j].op = w.specs[j]  BY <1>5
  <2>3. i \in P /\ DOMAIN T2 = P /\ i <= i  BY <1>5, <2>1
  <2> HIDE DEF P
  <2>4. ASSUME NEW entry
        PROVE  i \in Target(T2, entry) <=> /\ entry.service = w.specs[i].service
                                          /\ entry.method = w.specs[i].method
                                          /\ entry.path = w.specs[i].path
    <3>1. i \in Target(T2, entry) => /\ entry.service = w.specs[i].service
                                    /\ entry.method = w.specs[i].method
                                    /\ entry.path = w.specs[i].path
      BY ONLY <2>2, <2>3 DEF Target
    <3>2. ASSUME /\ entry.service = w.specs[i].service
                 /\ entry.method = w.specs[i].method
                 /\ entry.path = w.specs[i].path
          PROVE  i \in Target(T2, entry)
      BY ONLY <1>10, <2>2, <2>3, <3>2 DEF Target
    <3> QED  BY <3>1, <3>2
  <2> QED  BY <2>4 DEF EntriesFor
<1>12. TellsApart(all, hashes) => TellsApart(T2, hashes)
  BY <1>7 DEF TellsApart
<1> HIDE DEF P
<1>13. \A i \in P : /\ all[i].op = w.specs[i]
                    /\ all[i].name[1] = Prefix[w.specs[i].service]
  BY ONLY <1>5, <1>7
<1>14. \A i \in P :
         /\ EntriesFor(w.specs[i]) = {} => all[i].onprem_path = NoPath
         /\ EntriesFor(w.specs[i]) # {} =>
              \E e \in EntriesFor(w.specs[i]) : all[i].onprem_path = Overrides[e].onprem_path
  BY ONLY <1>5, <1>7, <1>11
<1>15. TellsApart(all, hashes) => \A i, j \in P : all[i].name = all[j].name => i = j
  BY ONLY <1>5, <1>7, <1>12
<1>16. DOMAIN all = P  BY <1>5, <1>7
<1>17. \A i \in DOMAIN all : IsTheToolOf(all[i], w.specs[i])
  BY ONLY <1>9, <1>13, <1>14, <1>16 DEF IsTheToolOf
<1> QED  BY <1>8, <1>15, <1>16, <1>17 DEF P, IsCatalog

LEMMA OwnCatalogLemma ==
  ASSUME Inv, process = "up"
  PROVE  IsCatalog(tools, world.specs, hash)
<1>1. /\ world \in World /\ hash \in Hash
      /\ tools = LoadAllTools(world.specs, Overrides, hash)
  BY DEF Inv, Ready
<1> QED  BY ONLY <1>1, CatalogLemma

(* A name the gate lets through is a composite's or calls a tool that bears it. *)
LEMMA CalledLemma ==
  ASSUME Inv, NEW r \in Request, request[r].at \in {"leased", "sent"},
         request[r].name \notin DOMAIN Composites
  PROVE  \E i \in DOMAIN tools : /\ tools[i].name = request[r].name
                                 /\ ToolsByName(tools, request[r].name) = tools[i]
<1> DEFINE name == request[r].name
           named == {i \in DOMAIN tools : tools[i].name = name}
           last == CHOOSE i \in named : \A j \in named : j <= i
<1>1. Allowed(tools, name, settings.mode)  BY DEF Inv, Good, Leased
<1>2. IsToolName(tools, name)  BY <1>1 DEF Allowed, Names, Listed, IsToolName
<1>3. process = "up"  BY DEF Inv, Good, Routed
<1>4. Len(world.specs) \in Nat /\ DOMAIN tools \subseteq 1 .. Len(world.specs)
  BY <1>3, OwnCatalogLemma DEF IsCatalog
<1>5. named # {} /\ named \in SUBSET (1 .. Len(world.specs))
  BY <1>2, <1>4 DEF IsToolName
<1>6. \E m \in named : \A k \in named : k <= m  BY <1>4, <1>5, GreatestLemma
<1>7. last \in named  BY <1>6, Zenon
<1>8. ToolsByName(tools, name) = tools[last]  BY DEF ToolsByName
<1> HIDE DEF last
<1> QED  BY <1>7, <1>8

(* A tool that is called is the one the catalog shows under that name, and it    *)
(* reaches its own operation, under its on-prem path where there is one: for    *)
(* any documents and overrides, in either mode and whatever the deployment.     *)
THEOREM CallsReachTheToolShown == Spec => []ToolsReachTheirOperation
<1>1. ASSUME Inv PROVE ToolsReachTheirOperation
  <2> SUFFICES ASSUME Distinguishable, NEW r \in Request, request[r].at = "sent",
                      NEW i \in DOMAIN tools, tools[i].name = request[r].name
               PROVE  /\ request[r].sent.method = tools[i].op.method
                      /\ request[r].sent.path \in
                           IF request[r].sent.guarded
                           THEN IF EntriesFor(tools[i].op) = {} THEN {tools[i].op.path}
                                ELSE {Overrides[e].onprem_path : e \in EntriesFor(tools[i].op)}
                           ELSE {tools[i].op.path}
    BY DEF ToolsReachTheirOperation, Sent, Listed, EntriesFor
  <2> DEFINE name == request[r].name
             sent == request[r].sent
             deployment == request[r].client.credentials.deployment
             entries == EntriesFor(tools[i].op)
  <2>1. IsCatalog(tools, world.specs, hash)
    BY <1>1, OwnCatalogLemma DEF Inv, Good, Routed
  <2>2. TellsApart(tools, hash)  BY DEF Distinguishable, TellsApart
  <2>3. /\ tools[i].op = world.specs[i]
        /\ world.specs[i].service \in DOMAIN Prefix
        /\ tools[i].name[1] = Prefix[world.specs[i].service]
        /\ entries = {} => tools[i].onprem_path = NoPath
        /\ entries # {} => \E e \in entries : tools[i].onprem_path = Overrides[e].onprem_path
    BY <2>1 DEF IsCatalog, IsTheToolOf
  <2>4. \A j \in DOMAIN tools : tools[i].name = tools[j].name => i = j
    BY <2>1, <2>2 DEF IsCatalog
  <2>5. name \notin DOMAIN Composites  BY <2>3, CompositesAssumption
  <2>6. PICK j \in DOMAIN tools : tools[j].name = name /\ ToolsByName(tools, name) = tools[j]
    BY <1>1, <2>5, CalledLemma
  <2>7. ToolsByName(tools, name) = tools[i]  BY <2>4, <2>6
  <2>8. SentBy(sent, request[r].client, name)  BY <1>1 DEF Inv, Good, Outcome
  <2>9. sent.guarded = (deployment = "onprem")
    <3>1. request[r].client = HttpClient(request[r].client.credentials)
      BY <1>1 DEF Inv, Good, Leased, StandsFor
    <3>2. request[r].client.guarded = (deployment = "onprem")
      BY <3>1 DEF HttpClient
    <3> QED  BY <2>8, <3>2 DEF SentBy
  <2>10. sent.method = tools[i].op.method
    BY <2>5, <2>7, <2>8 DEF SentBy, Operation
  <2>11. sent.path = PathFor(tools[i], deployment)
    BY <2>5, <2>7, <2>8 DEF SentBy, PathOf
  <2>12. \A e \in entries : Overrides[e].onprem_path # NoPath
    BY OverridesAssumption DEF EntriesFor
  <2> HIDE DEF name, sent, deployment, entries
  <2>13. sent.path \in IF sent.guarded
                       THEN IF entries = {} THEN {tools[i].op.path}
                            ELSE {Overrides[e].onprem_path : e \in entries}
                       ELSE {tools[i].op.path}
    <3> DEFINE tool == tools[i]
    <3>1. sent.path = IF deployment = "onprem" /\ tool.onprem_path # NoPath
                      THEN tool.onprem_path ELSE tool.op.path
      BY <2>11 DEF PathFor
    <3> HIDE DEF tool
    <3>2. CASE entries = {}
      <4>1. tool.onprem_path = NoPath  BY <2>3, <3>2 DEF tool
      <4>2. sent.path = tools[i].op.path  BY <3>1, <4>1 DEF tool
      <4> QED  BY <3>2, <4>2
    <3>3. CASE entries # {}
      <4>1. PICK e \in entries : tool.onprem_path = Overrides[e].onprem_path  BY <2>3, <3>3 DEF tool
      <4>2. tool.onprem_path # NoPath  BY <2>12, <4>1
      <4>3. sent.path = IF sent.guarded THEN Overrides[e].onprem_path ELSE tools[i].op.path
        BY <2>9, <3>1, <4>1, <4>2 DEF tool
      <4> QED  BY <3>3, <4>3
    <3> QED  BY <3>2, <3>3
  <2> QED  BY <2>10, <2>13 DEF sent, entries
<1> QED  BY <1>1, Invariant, PTL

(* "On-prem credentials without a server URL" is never raised in a call: for     *)
(* any configuration the program accepts and any headers it passes on.          *)
THEOREM CallsHaveAnOrigin == Spec => []EveryRequestHasAnOrigin
<1>1. ASSUME Inv PROVE EveryRequestHasAnOrigin
  <2> SUFFICES ASSUME NEW r \in Request, request[r].at = "leased"
               PROVE  /\ BaseUrl(request[r].client.credentials, Operation(request[r].name).service) # None
                      /\ AuthUrl(request[r].client.credentials) # None
    BY DEF EveryRequestHasAnOrigin
  <2> DEFINE creds == Resolve(r)
             own == request[r].client.credentials
             name == request[r].name
  <2>1. \A service : BaseUrl(own, service) = BaseUrl(creds, service)  BY <1>1, ClientLemma
  <2>2. Asks(creds, request[r].headers) /\ IsCredentials(creds)  BY <1>1, AsksLemma, ResolveLemma
  <2>3. ASSUME NEW service \in {"business-account"} \cup DOMAIN Prefix
        PROVE  BaseUrl(creds, service) # None
    <3> HIDE DEF creds
    <3>1. CASE AskedServer(request[r].headers) = None
      <4>1. creds.deployment = "cloud" /\ creds.region \in VALID_REGIONS
        BY <2>2, <3>1 DEF Asks, IsCredentials
      <4>2. BaseUrl(creds, service) = <<creds.region, service>>  BY <4>1 DEF BaseUrl
      <4>3. <<creds.region, service>> \in VALID_REGIONS \X ({"business-account"} \cup DOMAIN Prefix)
        BY <4>1
      <4> QED  BY <4>2, <4>3, NoneIsNoCloudUrl
    <3>2. CASE AskedServer(request[r].headers) # None
      <4>1. creds.deployment = "onprem" /\ creds.server_url # None  BY <2>2, <3>2 DEF Asks
      <4> QED  BY <4>1 DEF BaseUrl
    <3> QED  BY <3>1, <3>2
  <2>4. Operation(name).service \in DOMAIN Prefix
    <3>1. CASE name \in DOMAIN Composites
      BY <3>1, CompositesAssumption DEF Operation
    <3>2. CASE name \notin DOMAIN Composites
      <4>1. PICK i \in DOMAIN tools : ToolsByName(tools, name) = tools[i]
        BY <1>1, <3>2, CalledLemma
      <4>2. IsCatalog(tools, world.specs, hash)
        BY <1>1, OwnCatalogLemma DEF Inv, Good, Routed
      <4>3. tools[i].op = world.specs[i] /\ world.specs[i].service \in DOMAIN Prefix
        BY <4>2 DEF IsCatalog, IsTheToolOf
      <4> QED  BY <3>2, <4>1, <4>3 DEF Operation
    <3> QED  BY <3>1, <3>2
  <2> QED  BY <2>1, <2>3, <2>4 DEF AuthUrl
<1> QED  BY <1>1, Invariant, PTL

=============================================================================
