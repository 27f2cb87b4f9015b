-------------------------------- MODULE Config --------------------------------
(***************************************************************************)
(* src/eset_mcp/config.py: from the environment to the Settings of the     *)
(* process, or to a RuntimeError at startup; and the guard of              *)
(* __main__.py: create_http_app.                                           *)
(*                                                                         *)
(* An environment is a record of the variables as they are written: None   *)
(* when a variable is not set, any string where the code parses one.  The  *)
(* parsers' trimming, lower-casing and `#` comments are left out.  A URL   *)
(* is the record of its parts, because two spellings of one origin must    *)
(* become equal; a network is a name for the addresses it contains.  Port  *)
(* and texts of the logs and of /metrics are left out: they reach no tool. *)
(***************************************************************************)
EXTENDS Integers, FiniteSets, Sequences

CONSTANTS None,            \* not set
          Canonical,       \* how the host of a URL is written -> the host it names
          NetworkOf        \* a network as it is written -> its addresses

VALID_REGIONS == {"eu", "de", "us", "ca", "jpn"}

Yes == {"true", "1", "yes", "on"}
No == {"false", "0", "no", "off"}

-----------------------------------------------------------------------------
Port == 1 .. 65535

(* https, a host, no userinfo, path, query or fragment (`rest`), a legal port. *)
IsServerUrl(raw) ==
  /\ raw.scheme = "https"
  /\ raw.host \in DOMAIN Canonical
  /\ raw.rest \in {"", "/"}
  /\ raw.port \in Port \cup {None}

(* https://console and https://CONSOLE.:443/ are one origin. *)
NormalizeServerUrl(raw) ==
  [host |-> Canonical[raw.host],
   port |-> IF raw.port = 443 THEN None ELSE raw.port]

Origin == [host : {Canonical[h] : h \in DOMAIN Canonical}, port : Port \cup {None}]

ASSUME NoneIsNoOrigin == None \notin Origin

IsOrigins(raw) ==
  /\ DOMAIN raw \cap {"", "*"} = {}
  /\ \A user \in DOMAIN raw : \A url \in raw[user] : IsServerUrl(url)

ParseOrigins(raw) ==
  [user \in DOMAIN raw |-> {NormalizeServerUrl(url) : url \in raw[user]}]

AuthStyles == {"legacy", "v13"}

AreNetworks(raw) == raw \subseteq DOMAIN NetworkOf

(* Every single variable parses. *)
Parses(env) ==
  /\ env.auth_mode \in {"env", "basic"}
  /\ env.transport \in {"stdio", "http"}
  /\ env.deployment \in {"cloud", "onprem"}
  /\ env.mode \in {"RO", "RW"}
  /\ env.region \in VALID_REGIONS
  /\ env.server_url # None => IsServerUrl(env.server_url)
  /\ IsOrigins(env.origins)
  /\ AreNetworks(env.networks)
  /\ env.auth_style \in AuthStyles
  /\ {env.verify_ssl, env.allow} \subseteq Yes \cup No

BasicNeedsHttp(env) == env.auth_mode = "basic" => env.transport = "http"

EnvNeedsAccount(env) == env.auth_mode = "env" => env.user # None /\ env.password # None

(* Fault: one half of the pair is enough. *)
HalfPairPasses(env) == TRUE

PairComplete(env) == (env.cf[1] = None) = (env.cf[2] = None)

(* Fault: the server URL is left to the requests in both modes. *)
UrlOptional(env) == TRUE

OnPremNeedsUrl(env) ==
  env.deployment = "onprem" /\ env.auth_mode = "env" => env.server_url # None

(* Settings.from_env returns. *)
Accepted(env) ==
  /\ Parses(env)
  /\ BasicNeedsHttp(env)
  /\ EnvNeedsAccount(env)
  /\ PairComplete(env)
  /\ OnPremNeedsUrl(env)

FromEnv(env) ==
  [user |-> env.user,
   password |-> env.password,
   mode |-> env.mode,
   region |-> env.region,
   transport |-> env.transport,
   http_host |-> env.http_host,
   auth_mode |-> env.auth_mode,
   deployment |-> env.deployment,
   onprem_server_url |-> IF env.server_url = None THEN None
                         ELSE NormalizeServerUrl(env.server_url),
   onprem_verify_ssl |-> env.verify_ssl \in Yes,
   onprem_cf_access |-> env.cf,
   onprem_origins |-> ParseOrigins(env.origins),
   onprem_auth_style |-> env.auth_style,
   onprem_networks |-> env.networks,
   allow_unauthenticated_http |-> env.allow \in Yes,
   ca_bundle |-> env.ca_bundle]

(* create_http_app: without basic auth everyone who reaches the port acts with *)
(* the server's account.                                                       *)
MayServe(settings) ==
  (settings.transport = "http" /\ settings.auth_mode = "env") =>
    \/ settings.http_host \in {"localhost", "127.0.0.1", "::1"}
    \/ settings.allow_unauthenticated_http
=============================================================================
