------------------------------- MODULE MCFront -------------------------------
(* Front for TLC: the surroundings worth telling apart. *)
EXTENDS Front, TLC

Symmetry == Permutations(Request)

Hosts == ("console" :> "console") @@ ("CONSOLE." :> "console") @@ ("branch" :> "branch")

Networks == ("ten" :> {"10.1", "10.2"}) @@ ("loopback" :> {"127.1"})

SpecialAddresses == {"127.1"}

MappedAddresses == ("::ffff:127.1" :> "127.1")

Resolutions ==
  { <<"10.1", "10.2">>, <<"10.2", "127.1">>, <<"::ffff:127.1">>, <<"198.1">>, <<>> }

ToolPrefixes == ("device-management" :> "device") @@ ("incident-management" :> "incident")

-----------------------------------------------------------------------------
Op(service, method, version, rest, id) ==
  [service |-> service, method |-> method, path |-> <<version, rest>>, id |-> id]

ListDevices == Op("device-management", "GET", "v1", "/devices", <<"list">>)
RenameDevice == Op("device-management", "POST", "v1", "/devices/{uuid}:rename", <<"rename">>)
Token == Op("business-account", "POST", "", "/oauth/token", <<"token">>)

(* As in openapi/: two versions of one operation. *)
Shipped ==
  << ListDevices, RenameDevice, Token,
     Op("incident-management", "GET", "v1", "/detections", <<"list">>),
     Op("incident-management", "GET", "v2", "/detections", <<"list">>) >>

(* One id twice on one path: no suffix tells them apart. *)
Clashing ==
  << Op("device-management", "GET", "v1", "/groups", <<"group">>),
     Op("device-management", "POST", "v1", "/groups", <<"group">>) >>

(* One id twice in one version, and a third that looks like a suffixed one. *)
Crowded ==
  << Op("device-management", "GET", "v1", "/groups", <<"group">>),
     Op("device-management", "GET", "v1", "/devices", <<"group">>),
     Op("device-management", "POST", "v2", "/groups", <<"group">>),
     Op("device-management", "DELETE", "v1", "/devices/{uuid}:rename", <<"group", "v1">>) >>

SearchTool == (<<"eset", "search">> :> ListDevices)

RenameOverride ==
  << [service |-> "device-management", method |-> "POST", path |-> RenameDevice.path,
      onprem_path |-> <<"v1", "/devices/{uuid}:renameDevice">>],
     [service |-> "device-management", method |-> "POST", path |-> <<"v0", "/gone">>,
      onprem_path |-> <<"v1", "/never">>] >>

Paths == {op.path : op \in ToSet(Shipped) \cup ToSet(Clashing) \cup ToSet(Crowded)}

(* A process in which every path has a hash of its own, and one in which none has. *)
Hashes == { [p \in Paths |-> p[1] \o p[2]], [p \in Paths |-> "0042"] }

-----------------------------------------------------------------------------
Url(scheme, host, port, rest) == [scheme |-> scheme, host |-> host, port |-> port, rest |-> rest]

Console == Url("https", "console", None, "")
ConsoleToo == Url("https", "CONSOLE.", 443, "/")
Branch == Url("https", "branch", 9443, "")

ServerPair == <<"server-id", "server-secret">>

CloudBasic ==
  [auth_mode |-> "basic", transport |-> "http", http_host |-> "0.0.0.0", allow |-> "false",
   user |-> None, password |-> None, mode |-> "RO", region |-> "eu", deployment |-> "cloud",
   server_url |-> ConsoleToo, verify_ssl |-> "true", cf |-> ServerPair,
   auth_style |-> "legacy", networks |-> {"ten"}, origins |-> ("alice" :> {Branch}), ca_bundle |-> ""]

OnPremBasic == [CloudBasic EXCEPT !.deployment = "onprem", !.networks = {}, !.verify_ssl = "no"]

Nowhere == [OnPremBasic EXCEPT !.server_url = None]

OnPremEnv ==
  [OnPremBasic EXCEPT !.auth_mode = "env", !.transport = "stdio", !.user = "alice",
     !.password = "old", !.networks = {"ten", "loopback"}]

CloudEnv == [OnPremEnv EXCEPT !.deployment = "cloud", !.transport = "http", !.allow = "yes",
               !.mode = "RW"]

Refused ==
  { [CloudBasic EXCEPT !.transport = "stdio"],
    [OnPremEnv EXCEPT !.password = None],
    [OnPremEnv EXCEPT !.server_url = None],
    [CloudEnv EXCEPT !.allow = "off"],
    [CloudBasic EXCEPT !.server_url = Url("http", "console", None, "")],
    [CloudBasic EXCEPT !.server_url = Url("https", "console", 0, "")],
    [CloudBasic EXCEPT !.origins = ("*" :> {Branch})],
    [OnPremBasic EXCEPT !.cf = <<"server-id", None>>] }

-----------------------------------------------------------------------------
Alice ==
  [duplicate |-> FALSE, authorization |-> <<"alice", "old">>, region |-> None,
   server_url |-> None, cf_id |-> None, cf_secret |-> None, session |-> "none"]

Opens(headers) == [headers EXCEPT !.session = "opens"]
Continues(headers) == [headers EXCEPT !.session = "in"]

AliceRotated == [Alice EXCEPT !.authorization = <<"alice", "new">>]
AliceElsewhere == [Alice EXCEPT !.region = "us"]
AtConsole == [Alice EXCEPT !.server_url = Console]
AtBranch == [Alice EXCEPT !.server_url = Branch]
BobAtBranch == [AtBranch EXCEPT !.authorization = <<"bob", "old">>]
OwnPair(headers) == [headers EXCEPT !.cf_id = "own-id", !.cf_secret = "own-secret"]

(* Requests the middleware turns away. *)
Hopeless ==
  { [Alice EXCEPT !.authorization = None],
    [Alice EXCEPT !.authorization = <<"alice", None>>],
    [Alice EXCEPT !.duplicate = TRUE],
    [Alice EXCEPT !.region = "mars"],
    [Alice EXCEPT !.server_url = Url("https", "branch", 9443, "/path")],
    [AtBranch EXCEPT !.cf_id = "own-id"],
    [AtBranch EXCEPT !.cf_id = Blank, !.cf_secret = "own-secret"] }

Accounts == {Opens(Alice), Continues(Alice), AliceRotated, Continues(AliceRotated)} \cup Hopeless
Places == {Alice, AliceElsewhere, AtConsole, AtBranch, BobAtBranch}
Sharing == {Opens(AtConsole), Continues([AtConsole EXCEPT !.region = "us"]), Alice, AliceElsewhere}
Pairs == {AtConsole, OwnPair(AtConsole), AtBranch, OwnPair(AtBranch), OwnPair(Alice)}

Setting(env, specs, requests) == [env |-> env, specs |-> specs, requests |-> requests]

Simple == <<ListDevices, RenameDevice>>

Worlds ==
  {Setting(env, Simple, requests) :
     env \in {CloudBasic, OnPremBasic, Nowhere}, requests \in {Accounts, Places, Sharing, Pairs}}
  \cup {Setting(env, specs, {Alice}) : env \in {OnPremEnv, CloudEnv, [OnPremEnv EXCEPT !.mode = "RW"]},
                                       specs \in {Shipped, Clashing, Crowded}}
  \cup {Setting(env, Simple, {Alice}) : env \in Refused}
=============================================================================
