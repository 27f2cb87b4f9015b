------------------------------- MODULE Catalog -------------------------------
(***************************************************************************)
(* The tools made from the OpenAPI specifications                          *)
(* (src/eset_mcp/tools_loader.py) and what the server makes of them:       *)
(* the catalog it shows, the table it calls from, and the mode gate        *)
(* (server.py: build_server, modes.py).                                    *)
(*                                                                         *)
(* An operation is [service, method, path, id]; its path is the pair of    *)
(* the version and the rest, its id a sequence of words; a name is a       *)
(* sequence of words.  Descriptions and input schemas are left out.        *)
(***************************************************************************)
EXTENDS Integers, FiniteSets, Sequences, SequencesExt

CONSTANTS Prefix,      \* _SERVICE_PREFIX
          NoPath,      \* no on-prem variant
          Composites   \* names of _COMPOSITE_TOOLS -> the operation they read

Methods == {"GET", "POST", "PUT", "PATCH", "DELETE"}

ReadOnly(op) == op.method = "GET"

(* Every composite tool reads, and no generated name has a first word of theirs. *)
ASSUME CompositesAssumption ==
  \A name \in DOMAIN Composites :
    /\ ReadOnly(Composites[name])
    /\ Composites[name].service \in DOMAIN Prefix
    /\ \A service \in DOMAIN Prefix : name[1] # Prefix[service]

ASSUME PrefixAssumption == \A service \in DOMAIN Prefix : Prefix[service] \in STRING

RequiredMode(op) == IF ReadOnly(op) THEN "RO" ELSE "RW"

(* _tools_from_spec: authentication is never a tool. *)
IsTool(op) == op.service # "business-account" /\ op.method \in Methods

(* The list of tools, indexed by the places their operations have in the       *)
(* documents: only the order matters.                                          *)
ToolsFromSpecs(specs) ==
  [i \in {j \in DOMAIN specs : IsTool(specs[j])} |->
    [op |-> specs[i], name |-> <<Prefix[specs[i].service]>> \o specs[i].id, onprem_path |-> NoPath]]

-----------------------------------------------------------------------------
Collides(tools, i) == \E j \in DOMAIN tools \ {i} : tools[j].name = tools[i].name

(* Appends its word to every name that is not unique. *)
Suffixed(tools, words) ==
  [i \in DOMAIN tools |->
    IF Collides(tools, i) THEN [tools[i] EXCEPT !.name = Append(@, words[i])] ELSE tools[i]]

(* The version of a path, the method of one without. *)
VersionWord(op) == IF op.path[1] = "" THEN op.method ELSE op.path[1]

VersionWords(tools) == [i \in DOMAIN tools |-> VersionWord(tools[i].op)]

(* Fault: no second look at the names. *)
DisambiguatedOnce(tools, hash) == Suffixed(tools, VersionWords(tools))

(* _disambiguate_names: by version, then by a hash of the path, which Python   *)
(* draws anew in every process.                                                *)
Disambiguated(tools, hash) ==
  Suffixed(Suffixed(tools, VersionWords(tools)), [i \in DOMAIN tools |-> hash[tools[i].op.path]])

(* _apply_onprem_overrides: the last tool of a (service, method, path). *)
Target(tools, entry) ==
  {i \in DOMAIN tools :
     LET Matches(j) == /\ tools[j].op.service = entry.service
                       /\ tools[j].op.method = entry.method
                       /\ tools[j].op.path = entry.path
     IN  Matches(i) /\ \A j \in DOMAIN tools : Matches(j) => j <= i}

(* The last entry for a tool stands. *)
Overridden(tools, overrides) ==
  [i \in DOMAIN tools |->
    LET entries == {e \in DOMAIN overrides : i \in Target(tools, overrides[e])}
    IN  IF entries = {} THEN tools[i]
        ELSE [tools[i] EXCEPT !.onprem_path =
               overrides[CHOOSE e \in entries : \A f \in entries : f <= e].onprem_path]]

LoadAllTools(specs, overrides, hash) ==
  Overridden(Disambiguated(ToolsFromSpecs(specs), hash), overrides)

(* ToolDef.path_for *)
PathFor(tool, deployment) ==
  IF deployment = "onprem" /\ tool.onprem_path # NoPath THEN tool.onprem_path ELSE tool.op.path

-----------------------------------------------------------------------------
(* The tools of the catalog, composites apart. *)
Listed(tools, mode) == {i \in DOMAIN tools : mode = "RW" \/ ReadOnly(tools[i].op)}

Names(tools, mode) == DOMAIN Composites \cup {tools[i].name : i \in Listed(tools, mode)}

(* tools_by_name[name]: the last tool of a name. *)
ToolsByName(tools, name) ==
  LET named == {i \in DOMAIN tools : tools[i].name = name}
  IN  tools[CHOOSE i \in named : \A j \in named : j <= i]

IsToolName(tools, name) == \E i \in DOMAIN tools : tools[i].name = name

(* Fault: a name the catalog shows is allowed, whatever tool it calls. *)
AllowsListed(tools, name, mode) == name \in Names(tools, mode)

(* check_mode_allows for the tool of the name, then the table of validators. *)
Allowed(tools, name, mode) ==
  /\ IsToolName(tools, name) =>
       ~(RequiredMode(ToolsByName(tools, name).op) = "RW" /\ mode = "RO")
  /\ name \in Names(tools, mode)
=============================================================================
