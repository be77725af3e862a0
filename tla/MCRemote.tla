-------------------------------- MODULE MCRemote --------------------------------
(***************************************************************************)
(* Instances for TLC of what a session does with its remote: how its       *)
(* connection is built (Configuration), listings (Listing), calls that     *)
(* change files (Moves), and the functions they rest on (Uri, Lookup,      *)
(* Capabilities), evaluated over all small inputs.  These do not interact: *)
(* one of them is chosen in the beginning, and the others stay as they are.*)
(***************************************************************************)
EXTENDS Listing, Sequences, TLC

CONSTANTS c1, c2, root, sub,                                \* Listing
          m1, m2, home, away, third, x, y,                  \* Moves
          Movers, Places, Names, Absent, Torn, Foreign, Written, Nobody,
          Requests                                          \* Configuration

VARIABLES
    part,    \* the one that is chosen
    input,   \* of a function
    renames, copies, store, dirs, mutations, before, pc, job, todo, result,
    request, stage, config, child, error, verified

moves == <<renames, copies, store, dirs, mutations, before, pc, job, todo, result>>
connect == <<request, stage, config, child, error, verified>>

-----------------------------------------------------------------------------
(* Listing: a root of four entries, the first of them its own, and a       *)
(* directory with a name that is refused.                                  *)
CountOf == root :> 4 @@ sub :> 2
OwnOf == root :> 1 @@ sub :> 0
HostileOf == root :> {} @@ sub :> {2}
SizeOf == root :> <<1, 2, 1, 2>> @@ sub :> <<1, 1>>

-----------------------------------------------------------------------------
(* Moves: calls, names and the places other than home are interchangeable. *)
M == INSTANCE Moves WITH Dirs <- Places, Home <- home

ASSUME M!MovesAssumption

Interchangeable ==
    Permutations(Movers) \cup Permutations(Names) \cup Permutations(Places \ {home})

MovesIdle ==
    /\ renames = FALSE /\ copies = FALSE
    /\ store = M!Clean /\ before = M!Clean /\ dirs = {home}
    /\ mutations = Nobody
    /\ pc = [m \in Movers |-> "over"]
    /\ job = [m \in Movers |-> M!Over]
    /\ todo = [m \in Movers |-> {}] /\ result = [m \in Movers |-> "none"]

-----------------------------------------------------------------------------
(* Configuration: one complete request for each protocol, and what comes   *)
(* of it when a route, a setting, a login, a file or a line is changed.    *)
Bindable == {"root", "authentication", "endpoint", "region", "bucket", "path_style",
             "use_delegation_token", "simple_user", "name_node_uri",
             "hadoop_config_directory"}
Logins == {"password", "private_key", "access_key", "secret_key", "session_token",
           "bearer_token", "delegation_token", "service"}

Complete(protocol) ==
    [protocol |-> protocol, bound |-> TRUE, timeouts |-> "fine",
     host |-> "name", port |-> 1, runtime |-> Absent, layers |-> {},
     user |-> "user", password |-> Absent, shape |-> "object",
     plain |-> [k \in Bindable |->
         CASE k = "name_node_uri" -> "hdfs uri"
           [] k \in {"path_style", "use_delegation_token", "authentication"} -> Absent
           [] OTHER -> "text"],
     secret |-> [k \in Bindable \cup Logins |->
         CASE k \in Bindable -> Absent [] k = "private_key" -> "absolute" [] OTHER -> "text"],
     files |-> [f \in {"core-site.xml", "hdfs-site.xml"} |-> "fine"], lines |-> <<>>]

Completes ==
    {Complete(p) : p \in {"ftp", "sftp", "s3", "webdav", "webhdfs", "hdfs-native", "opendal"}}

Routes ==
    LET layers == {{}} \cup {{[list |-> l, enabled |-> e]} :
            l \in {"ssh_tunnel", "transport_layers"}, e \in {"true", "false", "absent"}}
        runtimes == {Absent, [host |-> "name", port |-> 1], [host |-> "tunnel", port |-> 2],
                     [host |-> "", port |-> 2]} IN
    {[r EXCEPT !.host = h, !.layers = l, !.runtime = e] :
        r \in Completes, h \in {"", " ", "name", "odd url"}, l \in layers, e \in runtimes}

Settings ==
    {[r EXCEPT !.plain[k] = v, !.secret[k] = w, !.shape = s] :
        r \in Completes, k \in Bindable, s \in {"object", "other"},
        v \in {Absent, "", "number", "true", "other text", "../text"},
        w \in {Absent, "", "true", "other text", "bearer", "private_key"}}

LoginChanges ==
    {[r EXCEPT !.secret["authentication"] = m, !.secret["use_delegation_token"] = d,
               !.secret[k] = v, !.user = u] :
        r \in Completes, m \in {Absent, "bearer", "private_key"}, d \in {Absent, "true"},
        u \in {"", "user"}, k \in Logins, v \in {Absent, "", "other text"}}

Oddities ==
    {[r EXCEPT !.bound = b, !.timeouts = t, !.password = p] :
        r \in Completes, b \in BOOLEAN, t \in {"fine", "large", "number"}, p \in {Absent, "text"}}

Directories ==
    {[Complete("hdfs-native") EXCEPT !.files = f, !.plain["hadoop_config_directory"] = d] :
        f \in [{"core-site.xml", "hdfs-site.xml"} -> {"missing", "bad", "fine"}],
        d \in {"text", "no directory"}}

Generic ==
    LET lines == {<<"", "text">>, <<"root", "text">>, <<"root", "../text">>, <<"options", "no map">>} IN
    {[Complete("opendal") EXCEPT !.lines = l, !.secret["service"] = s] :
        l \in {<<>>} \cup {<<a>> : a \in lines} \cup {<<a, b>> : a, b \in lines},
        s \in {"sftp", "hdfs-native", "memory", Absent}}

RequestsOf == Routes \cup Settings \cup LoginChanges \cup Oddities \cup Directories \cup Generic

C == INSTANCE Configuration

ASSUME RequestsAreTyped == C!ConfigurationAssumption

ConnectIdle ==
    /\ request = Absent
    /\ stage = "over" /\ config = {} /\ child = "none" /\ error = "none" /\ verified = FALSE

-----------------------------------------------------------------------------
(* Functions: locations and names of up to four characters, alone and      *)
(* after an encoded percent sign, every set of capabilities, and what a    *)
(* remote may answer, with one kind for the errors that nothing treats of  *)
(* its own.                                                                *)
U == INSTANCE Uri
K == INSTANCE Capabilities
L == INSTANCE Lookup

Short == UNION {[1 .. n -> U!Alphabet] : n \in 0 .. 4}
Strings == Short \cup {<<"%", "2", "5">> \o s : s \in Short}

Told(a) == {a.path, a.slash, a.list} \cap {"ConfigInvalid", "AlreadyExists", "RateLimited"} = {}

InputIn ==
    \/ input \in [kind : {"string"}, of : Strings]
    \/ input \in [kind : {"capabilities"}, of : SUBSET K!Remote, readOnly : BOOLEAN]
    \/ input \in [kind : {"answers"}, of : {a \in L!Answers : Told(a)},
                  again : {a \in L!Answers : Told(a) /\ a.list = "empty"},
                  lists : BOOLEAN, overwrite : BOOLEAN]

None == [kind |-> "none"]

-----------------------------------------------------------------------------
MCInit ==
    \/ part = "listing" /\ Init /\ MovesIdle /\ ConnectIdle /\ input = None
    \/ part = "moves" /\ M!Init /\ Init /\ ConnectIdle /\ input = None
    \/ part = "connect" /\ C!Init /\ Init /\ MovesIdle /\ input = None
    \/ part = "function" /\ InputIn /\ Init /\ MovesIdle /\ ConnectIdle

MCNext ==
    /\ UNCHANGED <<part, input>>
    /\ \/ part = "listing" /\ Next /\ UNCHANGED <<moves, connect>>
       \/ part = "moves" /\ M!Next /\ UNCHANGED <<vars, connect>>
       \/ part = "connect" /\ C!Next /\ UNCHANGED <<vars, moves>>

MCSpec == MCInit /\ [][MCNext]_<<part, input, vars, moves, connect>>

-----------------------------------------------------------------------------
(* A connection goes the way its request says, with the settings that are  *)
(* its own, and leaves no ssh program behind (Configuration).              *)
ConnectInv == part = "connect" => C!ConnectInv

(* What a call that changes files reports of them is true (Moves).         *)
CallsAreHonest == part = "moves" => M!CallsAreHonest

(* No content of the remote disappears that nobody asked for (Moves).      *)
NothingIsLost == [][M!LossIsAsked]_moves

(* The functions that a call rests on.  An accepted path stays inside the  *)
(* root however often it is decoded, and paths and locations lead back to  *)
(* each other (Uri); a session offers exactly what its remote can do       *)
(* (Capabilities); a destination is free when the remote has said so, and  *)
(* never because an answer was something else (Lookup).                    *)
FunctionsAreRight ==
    /\ input.kind = "string" => U!PathIsSafe(input.of) /\ U!NameIsKept(input.of)
    /\ input.kind = "capabilities" => K!AdvertisedWorks(input.of, input.readOnly)
    /\ input.kind = "answers" =>
          L!DestinationIsKnown(input.of, input.again, input.lists, input.overwrite)
=============================================================================
