-------------------------- MODULE CredentialRouting --------------------------
(***************************************************************************)
(* From the headers of a request to the credentials it acts with           *)
(* (src/eset_mcp/middleware.py: dispatch, up to the session check;         *)
(* credentials.py), from credentials to the client the pool keeps for them *)
(* (http_client.py: __init__), to the origin it calls (regions.py) and the *)
(* address it connects to (egress.py).                                     *)
(*                                                                         *)
(* The headers of a request are a record, None where one is absent and     *)
(* Blank where it holds nothing but spaces; a digest is what it is the     *)
(* digest of.                                                              *)
(***************************************************************************)
EXTENDS Config

CONSTANTS Blank,      \* a header of spaces
          Special,    \* addresses that need an explicit network: loopback, link-local...
          Unmapped    \* IPv4-mapped IPv6 addresses -> the IPv4 address they stand for

NoPair == <<None, None>>

-----------------------------------------------------------------------------
(* Credentials as EnvCredentialResolver keeps them: every setting, even those  *)
(* its deployment does not use.                                                *)
EnvCredentials(settings) ==
  [user |-> settings.user, password |-> settings.password,
   region |-> settings.region, deployment |-> settings.deployment,
   server_url |-> settings.onprem_server_url,
   verify_ssl |-> settings.onprem_verify_ssl,
   cf_access |-> settings.onprem_cf_access,
   onprem_auth_style |-> settings.onprem_auth_style,
   allowed_networks |-> settings.onprem_networks,
   ca_bundle |-> settings.ca_bundle]

(* parse_basic_auth_header: `Basic`, and a payload with both halves. *)
HasBasicAuth(headers) ==
  /\ headers.authorization # None
  /\ headers.authorization[1] # None /\ headers.authorization[2] # None

(* normalize_region *)
Region(settings, headers) ==
  IF headers.region = None THEN settings.region ELSE headers.region

(* normalize_server_url_header *)
OverrideUrl(headers) ==
  IF headers.server_url = None THEN None ELSE NormalizeServerUrl(headers.server_url)

AllowedOrigins(settings, user) ==
  IF user \in DOMAIN settings.onprem_origins THEN settings.onprem_origins[user] ELSE {}

(* Whether the request goes where one without an override goes. *)
IsDefault(settings, headers) ==
  OverrideUrl(headers) \in {None, settings.onprem_server_url}

(* The Cloudflare pair: of the headers, of the server for its own origin, or none. *)
CfPair(settings, headers) ==
  IF headers.cf_id # None THEN <<headers.cf_id, headers.cf_secret>>
  ELSE IF IsDefault(settings, headers) THEN settings.onprem_cf_access
  ELSE NoPair

OnPremCredentials(settings, headers, url) ==
  [user |-> headers.authorization[1], password |-> headers.authorization[2],
   region |-> Region(settings, headers), deployment |-> "onprem",
   server_url |-> url,
   verify_ssl |-> settings.onprem_verify_ssl,
   cf_access |-> CfPair(settings, headers),
   onprem_auth_style |-> settings.onprem_auth_style,
   allowed_networks |-> settings.onprem_networks,
   ca_bundle |-> settings.ca_bundle]

CloudCredentials(settings, headers) ==
  [user |-> headers.authorization[1], password |-> headers.authorization[2],
   region |-> Region(settings, headers), deployment |-> "cloud",
   server_url |-> None, verify_ssl |-> TRUE, cf_access |-> NoPair,
   onprem_auth_style |-> "legacy", allowed_networks |-> {},
   ca_bundle |-> settings.ca_bundle]

Malformed(headers) ==
  \/ headers.server_url # None /\ ~IsServerUrl(headers.server_url)
  \/ headers.region \notin VALID_REGIONS \cup {None}

HalfPair(headers) ==
  LET pair == {headers.cf_id, headers.cf_secret}
  IN  pair # {None} /\ pair \cap {None, Blank} # {}

(* An override that is neither the server's own origin nor listed for the user. *)
IsForeign(settings, headers) ==
  /\ ~IsDefault(settings, headers)
  /\ OverrideUrl(headers) \notin AllowedOrigins(settings, headers.authorization[1])

HasNoOrigin(settings, headers) ==
  /\ OverrideUrl(headers) = None
  /\ settings.deployment = "onprem" /\ settings.onprem_server_url = None

(* The status a request is refused with, 200 when it is passed on. *)
Status(settings, headers) ==
  IF headers.duplicate THEN 400
  ELSE IF ~HasBasicAuth(headers) THEN 401
  ELSE IF Malformed(headers) THEN 400
  ELSE IF IsForeign(settings, headers) THEN 403
  ELSE IF HalfPair(headers) \/ HasNoOrigin(settings, headers) THEN 400
  ELSE 200

(* request.scope["eset.credentials"] of a request that is passed on. *)
RequestCredentials(settings, headers) ==
  IF OverrideUrl(headers) # None
  THEN OnPremCredentials(settings, headers, OverrideUrl(headers))
  ELSE IF settings.deployment = "onprem"
  THEN OnPremCredentials(settings, headers, settings.onprem_server_url)
  ELSE CloudCredentials(settings, headers)

-----------------------------------------------------------------------------
Endpoint(creds) == IF creds.deployment = "onprem" THEN creds.server_url ELSE creds.region

(* What the pool and the session binding tell credentials apart by. *)
CacheKey(creds) ==
  <<creds.user, creds.password, creds.deployment, Endpoint(creds),
    <<creds.cf_access, creds.verify_ssl, creds.onprem_auth_style,
      creds.allowed_networks, creds.ca_bundle>> >>

(* EsetHttpClient.__init__: what is fixed for the life of a client. *)
HttpClient(creds) ==
  [credentials |-> creds,
   verify |-> creds.deployment = "cloud" \/ creds.verify_ssl,
   cf_access |-> IF creds.deployment = "onprem" THEN creds.cf_access ELSE NoPair,
   guarded |-> creds.deployment = "onprem"]

(* resolve_base_url: the origin of a service, None where the code raises. *)
BaseUrl(creds, service) ==
  IF creds.deployment = "onprem" THEN creds.server_url ELSE <<creds.region, service>>

(* resolve_auth_url *)
AuthUrl(creds) == BaseUrl(creds, "business-account")

-----------------------------------------------------------------------------
Plain(address) == IF address \in DOMAIN Unmapped THEN Unmapped[address] ELSE address

(* GuardedBackend.allows *)
Allows(networks, address) ==
  IF networks # {} THEN \E n \in networks : Plain(address) \in NetworkOf[n]
  ELSE Plain(address) \notin Special

(* Fault: one good address lets the whole answer of the resolver pass. *)
AnyAllowed(networks, addresses) == \E i \in DOMAIN addresses : Allows(networks, addresses[i])

AllAllowed(networks, addresses) ==
  addresses # <<>> /\ \A i \in DOMAIN addresses : Allows(networks, addresses[i])

(* The address connect_tcp opens: the first that answers, in the order of the  *)
(* resolver; None when it raises.                                              *)
ConnectTcp(networks, addresses, dead) ==
  LET live == {i \in DOMAIN addresses : addresses[i] \notin dead}
  IN  IF AllAllowed(networks, addresses) /\ live # {}
      THEN addresses[CHOOSE i \in live : \A j \in live : i <= j]
      ELSE None
=============================================================================
