------------------------------ MODULE Configuration ------------------------------
(***************************************************************************)
(* How a connection request becomes a session (backend/src/config.rs,      *)
(* generic.rs, service_support.rs, Session::verify and build_session).     *)
(*                                                                         *)
(* A request is parsed, its settings are brought into the parameters of a  *)
(* service, the support of the service is checked (SFTP by a child process *)
(* that is polled), the operator is built and, where it can list, tried.   *)
(*                                                                         *)
(* A setting is "text", "other text", "" (empty), "number" (anything but a *)
(* string), "true", "false", or a word the code knows.  The platform, the  *)
(* catalog of services, files, the ssh program and the remote do as they   *)
(* please.                                                                 *)
(***************************************************************************)
EXTENDS Naturals, Sequences, FiniteSets

CONSTANTS
    Requests,   \* the requests that are tried
    Absent      \* a setting, secret or runtime endpoint that is not there

Dedicated == {"ftp", "sftp", "s3", "webdav", "webhdfs", "hdfs-native"}
Tcp == {"ftp", "sftp"}

(* Settings that a secret may stand for, two of them truth values.         *)
Bindable == {"root", "authentication", "endpoint", "region", "bucket", "path_style",
             "use_delegation_token", "simple_user", "name_node_uri",
             "hadoop_config_directory"}
Truths == {"path_style", "use_delegation_token"}

(* An endpoint is a host and a port, and a layer says that it is on, that  *)
(* it is off, or nothing.                                                  *)
ConfigurationAssumption ==
    \A r \in Requests :
       /\ r.protocol \in Dedicated \cup {"opendal"}
       /\ r.runtime # Absent => r.runtime = [host |-> r.runtime.host, port |-> r.runtime.port]
       /\ \A l \in r.layers : l.enabled \in {"true", "false", "absent"}

VARIABLES
    request,  \* the connection request
    stage,    \* asked, parsed, normalized, checked, probing, supported, built, ready, over
    config,   \* parameters of the service: a set of pairs
    child,    \* the ssh program: none, running, passed, failed, killed, reaped
    error,    \* the code of the error, or none
    verified  \* the session's mark

vars == <<request, stage, config, child, error, verified>>

Init ==
    /\ request \in Requests
    /\ stage = "asked" /\ config = {}
    /\ child = "none"
    /\ error = "none" /\ verified = FALSE

Refuse(code) ==
    /\ stage' = "over" /\ error' = code
    /\ UNCHANGED <<request, config, child, verified>>

(* The first fault of a sequence of tests: the code of its error.          *)
FirstFault(faults) ==
    LET met == {i \in DOMAIN faults : faults[i][1]} IN
    IF met = {} THEN "none" ELSE faults[CHOOSE i \in met : \A j \in met : i <= j][2]

-----------------------------------------------------------------------------
(* Parsing.                                                                *)

(* Mutant of Setting: ordinary configuration wins over a secret.           *)
SettingPlain(r, key) ==
    IF r.shape = "object" /\ r.plain[key] # Absent THEN r.plain[key] ELSE r.secret[key]

(* Secrets overlay external_config, which becomes an object by the first.  *)
Setting(r, key) ==
    IF r.secret[key] # Absent THEN r.secret[key]
    ELSE IF r.shape = "object" THEN r.plain[key] ELSE Absent

Overlaid(r) == \E key \in Bindable : r.secret[key] # Absent

(* parse: truth values, then protocol(), then both timeouts.               *)
ParseFaults(r) ==
    << <<\E key \in Truths : r.secret[key] \notin {"true", "false", Absent}, "configuration">>,
       <<~r.bound, "configuration">>,
       <<r.timeouts \in {"number", "large"}, "configuration">> >>

Parse ==
    /\ stage = "asked"
    /\ LET fault == FirstFault(ParseFaults(request)) IN
       \/ fault # "none" /\ Refuse(fault)
       \/ /\ fault = "none" /\ stage' = "parsed"
          /\ UNCHANGED <<request, config, child, error, verified>>

-----------------------------------------------------------------------------
(* Normalization.                                                          *)

Missing(r, key) == Setting(r, key) \in {Absent, "", "number"}
Text(r, key, default) == IF Setting(r, key) = Absent THEN default ELSE Setting(r, key)
Flag(r, key, default) == IF Setting(r, key) = Absent THEN default ELSE Setting(r, key) = "true"
NoFlag(r, key) == Setting(r, key) \notin {Absent, "true", "false"}

(* A secret; the password may be in its own field.                         *)
Secret(r, key) ==
    IF r.secret[key] # Absent THEN r.secret[key]
    ELSE IF key = "password" /\ r.password # Absent THEN r.password ELSE ""

Overridden(r) == r.runtime # Absent /\ r.runtime # [host |-> r.host, port |-> r.port]

(* Mutant of Transport: a layer is on when it says so.                     *)
TransportExplicit(r) == \E l \in r.layers : l.enabled = "true"

(* A tunnel, proxy or layer is on; one of transport_layers is by default.  *)
Transport(r) ==
    \E l \in r.layers :
        l.enabled = "true" \/ (l.list = "transport_layers" /\ l.enabled # "false")

(* Mutant of Endpoint: a connection's own host comes first.                *)
EndpointDirect(r) ==
    [host |-> IF r.host # "" THEN r.host
              ELSE IF r.runtime # Absent THEN r.runtime.host ELSE Text(r, "endpoint", ""),
     port |-> IF r.runtime = Absent THEN r.port ELSE r.runtime.port]

(* Where an FTP or SFTP connection goes to; port 0 is the protocol's.      *)
Endpoint(r) ==
    LET host == IF r.runtime = Absent THEN r.host ELSE r.runtime.host IN
    [host |-> IF host = "" THEN Text(r, "endpoint", "") ELSE host,
     port |-> IF r.runtime = Absent THEN r.port ELSE r.runtime.port]

(* tcp_endpoint: no host, or a URL with more than scheme, host and port.   *)
BadHost(host) == host \in {"", " ", "odd url"}

(* hadoop_options: both files are optional, but not both at once.          *)
Files == {"core-site.xml", "hdfs-site.xml"}

HadoopFault(r) ==
    \/ Setting(r, "hadoop_config_directory") = "no directory"
    \/ \E f \in Files : r.files[f] = "bad"
    \/ \A f \in Files : r.files[f] = "missing"

Needs(r, keys) == << <<\E key \in keys : Missing(r, key), "configuration">> >>
NeedsSecret(r, keys) == << <<\E key \in keys : Secret(r, key) = "", "configuration">> >>

(* What each protocol refuses.                                             *)
ProtocolFaults(r) ==
    CASE r.protocol \in Tcp ->
            << <<Setting(r, "endpoint") = "number", "configuration">>,
               <<BadHost(Endpoint(r).host), "configuration">> >>
            \o IF r.protocol = "ftp" THEN <<>>
               ELSE LET mode == Text(r, "authentication", "ssh_config") IN
                    << <<mode = "number", "configuration">>,
                       <<mode \notin {"ssh_config", "ssh_agent", "private_key"}, "unsupported">>,
                       <<mode = "private_key" /\ Secret(r, "private_key") # "absolute",
                         "configuration">> >>
      [] r.protocol = "s3" ->
            Needs(r, {"endpoint", "region", "bucket"})
            \o NeedsSecret(r, {"access_key", "secret_key"})
            \o << <<NoFlag(r, "path_style"), "configuration">> >>
      [] r.protocol = "webdav" ->
            LET mode == Text(r, "authentication", "basic") IN
            Needs(r, {"endpoint"})
            \o << <<mode \notin {"basic", "bearer"}, "configuration">>,
                  <<mode = "basic" /\ r.user = "", "configuration">> >>
            \o NeedsSecret(r, IF mode = "basic" THEN {"password"} ELSE {"bearer_token"})
      [] r.protocol = "webhdfs" ->
            Needs(r, {"endpoint"})
            \o << <<NoFlag(r, "use_delegation_token"), "configuration">> >>
            \o IF Flag(r, "use_delegation_token", FALSE)
               THEN NeedsSecret(r, {"delegation_token"}) ELSE Needs(r, {"simple_user"})
      [] r.protocol = "hdfs-native" ->
            Needs(r, {"name_node_uri"})
            \o << <<Setting(r, "name_node_uri") # "hdfs uri", "configuration">> >>
            \o Needs(r, {"hadoop_config_directory"})
            \o << <<HadoopFault(r), "configuration">> >>

SharedFaults(r) ==
    << <<r.shape = "other" /\ ~Overlaid(r), "configuration">>,
       <<Setting(r, "root") = "number", "configuration">>,
       <<r.protocol \notin Tcp /\ (Overridden(r) \/ Transport(r)), "unsupported">> >>

DedicatedFault(r) ==
    LET shared == FirstFault(SharedFaults(r)) IN
    IF shared = "none" THEN FirstFault(ProtocolFaults(r)) ELSE shared

(* parameters(): lines of a key and a value, a malformed one has no key.   *)
GenericFaults(r) ==
    << <<r.secret["service"] = Absent, "configuration">>,
       <<\E i \in DOMAIN r.lines : r.lines[i][1] = "", "configuration">>,
       <<\E i, j \in DOMAIN r.lines : i # j /\ r.lines[i][1] = r.lines[j][1],
         "configuration">> >>

Pairs(r, keys) == {<<key, Setting(r, key)>> : key \in keys}

Login(r) ==
    CASE r.protocol = "ftp" -> {<<"user", r.user>>, <<"password", Secret(r, "password")>>}
      [] r.protocol = "sftp" ->
            {<<"user", r.user>>} \cup
            {p \in {<<"key", Secret(r, "private_key")>>} :
                Text(r, "authentication", "ssh_config") = "private_key"}
      [] r.protocol = "s3" ->
            {<<"access_key_id", Secret(r, "access_key")>>,
             <<"secret_access_key", Secret(r, "secret_key")>>,
             <<"disable_config_load", "true">>, <<"disable_ec2_metadata", "true">>} \cup
            {p \in {<<"session_token", Secret(r, "session_token")>>} : p[2] # ""}
      [] r.protocol = "webdav" ->
            IF Text(r, "authentication", "basic") = "basic"
            THEN {<<"username", r.user>>, <<"password", Secret(r, "password")>>}
            ELSE {<<"token", Secret(r, "bearer_token")>>}
      [] r.protocol = "webhdfs" ->
            IF Flag(r, "use_delegation_token", FALSE)
            THEN {<<"delegation", Secret(r, "delegation_token")>>}
            ELSE {<<"user_name", Setting(r, "simple_user")>>}
      [] r.protocol = "hdfs-native" -> {}

Place(r) ==
    CASE r.protocol \in Tcp -> {<<"endpoint", Endpoint(r)>>}
      [] r.protocol = "s3" ->
            Pairs(r, {"endpoint", "region", "bucket"}) \cup
            {<<"enable_virtual_host_style", ~Flag(r, "path_style", TRUE)>>}
      [] r.protocol \in {"webdav", "webhdfs"} -> Pairs(r, {"endpoint"})
      [] r.protocol = "hdfs-native" ->
            {<<"name_node", Setting(r, "name_node_uri")>>,
             <<"options", "map">>}

Parameters(r) ==
    IF r.protocol = "opendal" THEN {r.lines[i] : i \in DOMAIN r.lines}
    ELSE {<<"root", Text(r, "root", "/")>>} \cup Place(r) \cup Login(r)

Normalize ==
    /\ stage = "parsed"
    /\ LET fault == IF request.protocol = "opendal" THEN FirstFault(GenericFaults(request))
                    ELSE DedicatedFault(request) IN
       \/ fault # "none" /\ Refuse(fault)
       \/ /\ fault = "none"
          /\ stage' = "normalized" /\ config' = Parameters(request)
          /\ UNCHANGED <<request, child, error, verified>>

Service(r) == IF r.protocol = "opendal" THEN r.secret["service"] ELSE r.protocol

-----------------------------------------------------------------------------
(* Support of the service.                                                 *)

(* check: the catalog knows the service, and the build and the platform    *)
(* have it.                                                                *)
Check ==
    /\ stage = "normalized"
    /\ \/ Refuse("configuration")
       \/ Refuse("service_unavailable")
       \/ /\ stage' = IF Service(request) = "sftp" THEN "checked" ELSE "supported"
          /\ UNCHANGED <<request, config, child, error, verified>>

(* probe_ssh: the program is started, or cannot be.                        *)
Spawn ==
    /\ stage = "checked"
    /\ \/ Refuse("service_unavailable")
       \/ /\ stage' = "probing" /\ child' = "running"
          /\ UNCHANGED <<request, config, error, verified>>

(* It comes to an end by itself, or never.                                 *)
Exit ==
    /\ child = "running"
    /\ child' \in {"passed", "failed"}
    /\ UNCHANGED <<request, stage, config, error, verified>>

(* Mutant of GiveUp: the program is left alone when its time is over.      *)
GiveUpRunning ==
    /\ stage = "probing"
    /\ Refuse("service_unavailable")

(* Its two seconds are over, or it cannot be asked: it is killed and       *)
(* waited for.                                                             *)
GiveUp ==
    /\ stage = "probing"
    /\ child' = "reaped" /\ stage' = "over" /\ error' = "service_unavailable"
    /\ UNCHANGED <<request, config, verified>>

(* The poll, one every ten milliseconds, that finds it ended reaps it.     *)
Poll ==
    /\ stage = "probing" /\ child \in {"passed", "failed"}
    /\ child' = "reaped"
    /\ IF child = "passed" THEN stage' = "supported" /\ UNCHANGED error
       ELSE stage' = "over" /\ error' = "service_unavailable"
    /\ UNCHANGED <<request, config, verified>>

-----------------------------------------------------------------------------
(* Construction and the first request.                                     *)

(* Configuration::build, build_operator and with_map: the registry, the    *)
(* root, and what the service says of its parameters.  A map that is no    *)
(* JSON object of texts is refused for the services that take one.         *)
BadRoot(params) == \E p \in params : p[1] = "root" /\ p[2] = "../text"
BadMap(params) ==
    \E p \in params :
        /\ \/ Service(request) = "hdfs-native" /\ p[1] = "options"
           \/ Service(request) = "s3" /\ p[1] = "assume_role_session_tags"
        /\ p[2] = "no map"

Build ==
    /\ stage = "supported"
    /\ \/ Refuse("service_unavailable")
       \/ Refuse("configuration")
       \/ /\ ~BadRoot(config) /\ ~BadMap(config)
          /\ stage' = "built"
          /\ UNCHANGED <<request, config, child, error, verified>>

(* Session::verify, within connect_timeout_secs: a remote that cannot list *)
(* is not tried.                                                           *)
Verify ==
    /\ stage = "built"
    /\ \/ \E code \in {"timeout", "backend", "permission_denied"} : Refuse(code)
       \/ /\ verified' \in BOOLEAN /\ stage' = "ready"
          /\ UNCHANGED <<request, config, child, error>>

Next ==
    \/ Parse \/ Normalize \/ Check \/ Spawn \/ Exit \/ GiveUp \/ Poll \/ Build \/ Verify

Spec == Init /\ [][Next]_vars

-----------------------------------------------------------------------------
(* Properties.                                                             *)

Parameter(key) == {p[2] : p \in {q \in config : q[1] = key}}

(* A connection of a dedicated type goes the way its request says: to the  *)
(* endpoint that the host has set up for it (a tunnel's, say), or, where   *)
(* no such way can be taken, nowhere.                                      *)
RouteIsKept ==
    config # {} /\ request.protocol \in Dedicated =>
        IF request.protocol \in Tcp
        THEN request.runtime # Absent /\ request.runtime.host # "" =>
                Parameter("endpoint") = {request.runtime}
        ELSE /\ request.runtime \in {Absent, [host |-> request.host, port |-> request.port]}
             /\ \A l \in request.layers :
                   l.enabled = "false" \/ (l.enabled = "absent" /\ l.list # "transport_layers")

(* A parameter has one value, a secret-bound one the secret, and a generic *)
(* service none but the ones of its secret.                                *)
SettingsAreTheirs ==
    /\ \A p, q \in config : p[1] = q[1] => p = q
    /\ request.protocol \in Dedicated =>
          \A p \in config :
             /\ p[1] \in Bindable \ ({"endpoint"} \cap {k \in Bindable : request.protocol \in Tcp})
             /\ request.secret[p[1]] # Absent
             => p[2] = request.secret[p[1]]
    /\ request.protocol = "opendal" => config \subseteq {request.lines[i] : i \in DOMAIN request.lines}

(* No ssh program outlives its probe, and no SFTP operator is built before *)
(* one has passed.                                                         *)
ProbeIsOver ==
    /\ stage # "probing" => child \in {"none", "reaped"}
    /\ stage \in {"supported", "built", "ready"} /\ Service(request) = "sftp" => child = "reaped"

(* A session is made from what its request says, and nothing is left of    *)
(* the way there.                                                          *)
ConnectInv ==
    /\ error # "none" <=> stage = "over"
    /\ stage = "ready" => ~BadRoot(config)
    /\ RouteIsKept /\ SettingsAreTheirs /\ ProbeIsOver
=============================================================================
