---------------------------- MODULE SessionLifecycle ----------------------------
(***************************************************************************)
(* The connection and session registry of the sidecar                      *)
(* (backend/src/lib.rs, with the Activity guards of session.rs).           *)
(*                                                                         *)
(* A connection has a descriptor (what `connection/connect` was given) and *)
(* at most one published session (an operator built from the descriptor).  *)
(* Handler threads look a session up, or rebuild it, and keep an Activity  *)
(* guard on it while they serve a call; a transfer task keeps a guard of   *)
(* its own.  connect, disconnect, a rebuild and shutdown hold the          *)
(* lifecycle mutex, unpublish the session, cancel it and wait until no     *)
(* guard is left (retire).  A maintenance task evicts idle sessions.       *)
(*                                                                         *)
(* A session is identified by the generation number build_session gives    *)
(* it; 0 is "no session".                                                  *)
(***************************************************************************)
EXTENDS Integers, FiniteSets

CONSTANTS
    Clients,        \* handler threads of the plugin server
    Conns,          \* connection ids
    Configs,        \* connection configurations (request fingerprints)
    Providers,      \* provider ids
    ProviderOf,     \* the provider a configuration belongs to
    NoConfig,       \* absence of a descriptor
    NoCall,         \* a client that serves no call
    Free,           \* the lifecycle mutex is not held
    Shutdown,       \* the thread that runs Plugin::shutdown
    Kinds,          \* the kinds of call the clients issue
    MaxDescriptors, \* 128 in the code (lib.rs:403)
    MaxGeneration   \* bound: no call is issued past this generation

NoSession == 0

(* Calls that need a session.                                              *)
(*   rpc            filesystem/list, stat, write, ...                      *)
(*   start          filesystem/transfer/startUpload, startDownload         *)
(*   workbench      workbench/list, delete, ...: dispatched a second time  *)
(*   direct         workbench/preview, saveText, chooseLocal, ...          *)
(*   startTransfer  workbench/startTransfer                                *)
(*   openLocal      workbench/openLocal                                    *)
RequestKinds == {"rpc", "start", "workbench", "direct", "startTransfer", "openLocal"}
DispatchKinds == {"rpc", "start"}
WorkbenchKinds == RequestKinds \ DispatchKinds
AdminKinds == {"connect", "disconnect", "test"}

ASSUME ConstantsAssumption ==
    /\ ProviderOf \in [Configs -> Providers]
    /\ NoConfig \notin Configs
    /\ Free \notin Clients /\ Shutdown \notin Clients /\ Free # Shutdown
    /\ Kinds \subseteq RequestKinds \cup AdminKinds
    /\ MaxDescriptors \in Nat
    /\ MaxGeneration \in Nat
    /\ IsFiniteSet(Conns)

RequestCalls == [kind : Kinds \cap RequestKinds, conn : Conns, provider : Providers,
                 config : {NoConfig}]
AdminCalls == {k \in [kind : Kinds \cap AdminKinds, conn : Conns, provider : Providers,
                      config : Configs] : k.provider = ProviderOf[k.config]}
Calls == RequestCalls \cup AdminCalls

ASSUME NoCallAssumption == NoCall \notin Calls

VARIABLES
    descriptors,  \* connection -> configuration, or NoConfig
    sessions,     \* connection -> published session, or NoSession
    generation,   \* number of sessions built so far
    origin,       \* session -> the connection and configuration it was built for
    cancelled,    \* sessions whose cancellation token fired
    aged,         \* sessions unused for at least their idle timeout
    lifecycle,    \* holder of the lifecycle mutex
    stopping,     \* the stopping flag
    pc, call,     \* where each client is, and the call it serves
    outer,        \* the Activity of the call itself
    inner,        \* the Activity of a nested dispatch
    work,         \* the session a client is retiring or has just built
    task,         \* the Activity of the transfer task a client started
    shut,         \* progress of Plugin::shutdown
    doomed,       \* sessions shutdown took out of the map
    awaited       \* transfer tasks shutdown waits for

registry == <<descriptors, sessions, generation, origin, cancelled, aged>>
client == <<pc, call, outer, inner, work, task>>
closing == <<shut, doomed, awaited>>
vars == <<registry, lifecycle, stopping, client, closing>>

-----------------------------------------------------------------------------
(* Plain reading of the state.                                             *)

Sessions == 1 .. generation

(* Live Activity guards: the code counts them in Session::active.          *)
InUse(s) == \E r \in Clients : s \in {outer[r], inner[r], task[r]}

Idle(s) == ~InUse(s) /\ s \in aged

Serving(r) == IF inner[r] # NoSession THEN inner[r] ELSE outer[r]

(* Points at which a client holds the lifecycle mutex.                     *)
Critical == {"locked", "retire", "drain", "build", "describe", "publish"}
Waiting == {"dispatch", "lookup", "acquire", "entered", "executing", "starting",
            "inserting", "blocking", "returning"}
Closing == {"clear", "unpublish", "snapshot", "await", "drain"}

TypeOK ==
    /\ descriptors \in [Conns -> Configs \cup {NoConfig}]
    /\ generation \in Nat
    /\ sessions \in [Conns -> 0 .. generation]
    /\ origin \in [Sessions -> [conn : Conns, config : Configs]]
    /\ cancelled \subseteq Sessions
    /\ aged \subseteq Sessions
    /\ lifecycle \in Clients \cup {Free, Shutdown}
    /\ stopping \in BOOLEAN
    /\ pc \in [Clients -> {"idle"} \cup Critical \cup Waiting]
    /\ call \in [Clients -> Calls \cup {NoCall}]
    /\ outer \in [Clients -> 0 .. generation]
    /\ inner \in [Clients -> 0 .. generation]
    /\ work \in [Clients -> 0 .. generation]
    /\ task \in [Clients -> 0 .. generation]
    /\ shut \in {"no", "acquire", "done"} \cup Closing
    /\ doomed \subseteq Sessions
    /\ awaited \subseteq Clients

Init ==
    /\ descriptors = [c \in Conns |-> NoConfig]
    /\ sessions = [c \in Conns |-> NoSession]
    /\ generation = 0
    /\ origin = [s \in {} |-> s]
    /\ cancelled = {}
    /\ aged = {}
    /\ lifecycle = Free
    /\ stopping = FALSE
    /\ pc = [r \in Clients |-> "idle"]
    /\ call = [r \in Clients |-> NoCall]
    /\ outer = [r \in Clients |-> NoSession]
    /\ inner = [r \in Clients |-> NoSession]
    /\ work = [r \in Clients |-> NoSession]
    /\ task = [r \in Clients |-> NoSession]
    /\ shut = "no"
    /\ doomed = {}
    /\ awaited = {}

Goto(r, place) == pc' = [pc EXCEPT ![r] = place]

-----------------------------------------------------------------------------
(* A client's call: entry, lookup, service, return.                        *)

(* invoke: a workbench call asks for its session at once, every other call *)
(* goes through dispatch.  A client has at most one live transfer task     *)
(* (a bound on the model, not on the code).                                *)
Begin(r) ==
    /\ pc[r] = "idle"
    /\ generation < MaxGeneration
    /\ \E k \in Calls :
          /\ k.kind \in {"start", "startTransfer"} => task[r] = NoSession
          /\ call' = [call EXCEPT ![r] = k]
          /\ Goto(r, IF k.kind \in WorkbenchKinds THEN "lookup" ELSE "dispatch")
    /\ UNCHANGED <<registry, lifecycle, stopping, outer, inner, work, task, closing>>

(* dispatch refuses once stopping is set.                                  *)
Dispatch(r) ==
    /\ pc[r] = "dispatch"
    /\ Goto(r, IF stopping THEN "returning"
               ELSE IF call[r].kind \in AdminKinds THEN "acquire" ELSE "lookup")
    /\ UNCHANGED <<registry, lifecycle, stopping, call, outer, inner, work, task, closing>>

Described(r) == descriptors[call[r].conn] # NoConfig

Mismatch(r) ==
    /\ Described(r)
    /\ ProviderOf[descriptors[call[r].conn]] # call[r].provider

(* cached_session returns the published session, with an Activity, exactly *)
(* when the descriptor is the caller's and the session is neither          *)
(* cancelled nor idle.                                                     *)
Hit(r) ==
    LET s == sessions[call[r].conn] IN
    /\ Described(r) /\ ~Mismatch(r)
    /\ s # NoSession /\ s \notin cancelled /\ ~Idle(s)

(* The call goes on once it holds its session.                             *)
Resume(r) ==
    IF call[r].kind = "rpc" \/ outer[r] # NoSession THEN "executing"
    ELSE IF call[r].kind = "start" THEN "starting" ELSE "entered"

Grant(r, s) ==
    /\ outer' = [outer EXCEPT ![r] = IF @ = NoSession THEN s ELSE @]
    /\ inner' = [inner EXCEPT ![r] = IF outer[r] = NoSession THEN @ ELSE s]
    /\ aged' = aged \ {s}
    /\ Goto(r, Resume(r))

(* session(): the first look, without the lifecycle mutex.                 *)
LookupHit(r) ==
    /\ pc[r] = "lookup" /\ Hit(r)
    /\ Grant(r, sessions[call[r].conn])
    /\ UNCHANGED <<descriptors, sessions, generation, origin, cancelled, lifecycle,
                   stopping, call, work, task, closing>>

LookupMiss(r) ==
    /\ pc[r] = "lookup" /\ ~Hit(r)
    /\ Goto(r, IF Mismatch(r) THEN "returning" ELSE "acquire")
    /\ UNCHANGED <<registry, lifecycle, stopping, call, outer, inner, work, task, closing>>

Acquire(r) ==
    /\ pc[r] = "acquire"
    /\ lifecycle = Free
    /\ lifecycle' = r
    /\ Goto(r, "locked")
    /\ UNCHANGED <<registry, stopping, call, outer, inner, work, task, closing>>

(* session(): the second look, under the mutex.                            *)
LockedHit(r) ==
    /\ pc[r] = "locked" /\ call[r].kind \in RequestKinds
    /\ ~stopping /\ Hit(r)
    /\ Grant(r, sessions[call[r].conn])
    /\ lifecycle' = Free
    /\ UNCHANGED <<descriptors, sessions, generation, origin, cancelled, stopping,
                   call, work, task, closing>>

LockedRefuse(r) ==
    /\ pc[r] = "locked" /\ call[r].kind \in RequestKinds
    /\ stopping \/ ~Described(r) \/ Mismatch(r)
    /\ Goto(r, "returning")
    /\ lifecycle' = Free
    /\ UNCHANGED <<registry, stopping, call, outer, inner, work, task, closing>>

(* Mutant of LockedRebuild: the session is not looked up a second time.    *)
LockedRebuildUnseen(r) ==
    /\ pc[r] = "locked" /\ call[r].kind \in RequestKinds
    /\ ~stopping /\ Described(r) /\ ~Mismatch(r)
    /\ Goto(r, "retire")
    /\ UNCHANGED <<registry, lifecycle, stopping, call, outer, inner, work, task, closing>>

LockedRebuild(r) ==
    /\ pc[r] = "locked" /\ call[r].kind \in RequestKinds
    /\ ~stopping /\ Described(r) /\ ~Mismatch(r) /\ ~Hit(r)
    /\ Goto(r, "retire")
    /\ UNCHANGED <<registry, lifecycle, stopping, call, outer, inner, work, task, closing>>

(* workbench_call after its session: the stopping test, then the branch of *)
(* the method.  A nested dispatch asks for the session again.              *)
Entered(r) ==
    /\ pc[r] = "entered"
    /\ Goto(r, IF stopping THEN "returning"
               ELSE IF call[r].kind = "workbench" THEN "lookup"
               ELSE IF call[r].kind = "direct" THEN "executing" ELSE "blocking")
    /\ UNCHANGED <<registry, lifecycle, stopping, call, outer, inner, work, task, closing>>

(* The operation ends: answered, timed out, refused or cancelled.          *)
Execute(r) ==
    /\ pc[r] = "executing"
    /\ Goto(r, "returning")
    /\ UNCHANGED <<registry, lifecycle, stopping, call, outer, inner, work, task, closing>>

(* Awaits that neither the session's cancellation nor a timeout ends: the  *)
(* destination test of startTransfer and the child process of openLocal.   *)
Unblock(r) ==
    /\ pc[r] = "blocking"
    /\ \E place \in {"starting", "returning"} :
          /\ place = "starting" => call[r].kind = "startTransfer"
          /\ Goto(r, place)
    /\ UNCHANGED <<registry, lifecycle, stopping, call, outer, inner, work, task, closing>>

(* Transfers::start: the availability test, then, later, the insertion in  *)
(* the task table and the spawn of the task with an Activity of its own.   *)
StartCheck(r) ==
    /\ pc[r] = "starting"
    /\ Goto(r, IF outer[r] \in cancelled THEN "returning" ELSE "inserting")
    /\ UNCHANGED <<registry, lifecycle, stopping, call, outer, inner, work, task, closing>>

StartInsert(r) ==
    /\ pc[r] = "inserting"
    /\ task' = [task EXCEPT ![r] = outer[r]]
    /\ aged' = aged \ {outer[r]}
    /\ Goto(r, "returning")
    /\ UNCHANGED <<descriptors, sessions, generation, origin, cancelled, lifecycle,
                   stopping, call, outer, inner, work, closing>>

(* Bad parameters, a missing capability, or a full table.                  *)
StartRefuse(r) ==
    /\ pc[r] = "inserting"
    /\ Goto(r, "returning")
    /\ UNCHANGED <<registry, lifecycle, stopping, call, outer, inner, work, task, closing>>

(* A transfer task ends, and drops its Activity.                           *)
TaskEnds(r) ==
    /\ task[r] # NoSession
    /\ task' = [task EXCEPT ![r] = NoSession]
    /\ aged' = aged \ {task[r]}
    /\ UNCHANGED <<descriptors, sessions, generation, origin, cancelled, lifecycle,
                   stopping, pc, call, outer, inner, work, closing>>

(* The handler answers; its Activity guards are dropped.                   *)
Return(r) ==
    /\ pc[r] = "returning"
    /\ Goto(r, "idle")
    /\ call' = [call EXCEPT ![r] = NoCall]
    /\ outer' = [outer EXCEPT ![r] = NoSession]
    /\ inner' = [inner EXCEPT ![r] = NoSession]
    /\ work' = [work EXCEPT ![r] = NoSession]
    /\ aged' = aged \ {outer[r], inner[r]}
    /\ UNCHANGED <<descriptors, sessions, generation, origin, cancelled, lifecycle,
                   stopping, task, closing>>

-----------------------------------------------------------------------------
(* Under the lifecycle mutex: connection(), retire and build_session.      *)

Current(r) ==
    LET s == sessions[call[r].conn] IN
    /\ s # NoSession
    /\ origin[s].config = call[r].config
    /\ s \notin cancelled /\ ~Idle(s)

DescribedConns == {c \in Conns : descriptors[c] # NoConfig}

(* Mutant of Full: the limit is off by one.                                *)
FullLate(r) == Cardinality(DescribedConns) > MaxDescriptors /\ ~Described(r)

Full(r) == Cardinality(DescribedConns) >= MaxDescriptors /\ ~Described(r)

(* connection() up to its first await.  It is refused ...                  *)
AdminRefuse(r) ==
    LET k == call[r] IN
    /\ pc[r] = "locked" /\ k.kind \in AdminKinds
    /\ \/ stopping
       \/ k.kind = "disconnect" /\ Mismatch(r)
       \/ k.kind = "connect" /\ ~Current(r) /\ Full(r)
    /\ Goto(r, "returning")
    /\ lifecycle' = Free
    /\ UNCHANGED <<registry, stopping, call, outer, inner, work, task, closing>>

(* ... or a connect keeps the current session of the same configuration,   *)
AdminKeep(r) ==
    /\ pc[r] = "locked" /\ call[r].kind = "connect"
    /\ ~stopping /\ Current(r)
    /\ aged' = aged \ {sessions[call[r].conn]}
    /\ Goto(r, "returning")
    /\ lifecycle' = Free
    /\ UNCHANGED <<descriptors, sessions, generation, origin, cancelled, stopping, call,
                   outer, inner, work, task, closing>>

(* Mutants of AdminReplace: the old session stays published while the new  *)
(* one is built; a connect is accepted although the plugin stops.          *)
AdminReplaceUnretired(r) ==
    LET k == call[r] IN
    /\ pc[r] = "locked"
    /\ ~stopping
    /\ \/ k.kind = "disconnect" /\ ~Mismatch(r)
       \/ k.kind = "connect" /\ ~Current(r) /\ ~Full(r)
    /\ descriptors' = [descriptors EXCEPT ![k.conn] = NoConfig]
    /\ Goto(r, IF k.kind = "connect" THEN "build" ELSE "retire")
    /\ UNCHANGED <<sessions, generation, origin, cancelled, aged, lifecycle, stopping,
                   call, outer, inner, work, task, closing>>

AdminReplaceStopping(r) ==
    LET k == call[r] IN
    /\ pc[r] = "locked"
    /\ \/ k.kind = "disconnect" /\ ~Mismatch(r)
       \/ k.kind = "connect" /\ ~Current(r) /\ ~Full(r)
    /\ descriptors' = [descriptors EXCEPT ![k.conn] = NoConfig]
    /\ Goto(r, "retire")
    /\ UNCHANGED <<sessions, generation, origin, cancelled, aged, lifecycle, stopping,
                   call, outer, inner, work, task, closing>>

(* ... or connect and disconnect forget the descriptor and retire,         *)
AdminReplace(r) ==
    LET k == call[r] IN
    /\ pc[r] = "locked"
    /\ ~stopping
    /\ \/ k.kind = "disconnect" /\ ~Mismatch(r)
       \/ k.kind = "connect" /\ ~Current(r) /\ ~Full(r)
    /\ descriptors' = [descriptors EXCEPT ![k.conn] = NoConfig]
    /\ Goto(r, "retire")
    /\ UNCHANGED <<sessions, generation, origin, cancelled, aged, lifecycle, stopping,
                   call, outer, inner, work, task, closing>>

(* ... or a test goes straight to the build.                               *)
AdminTest(r) ==
    /\ pc[r] = "locked" /\ call[r].kind = "test"
    /\ ~stopping
    /\ Goto(r, "build")
    /\ UNCHANGED <<registry, lifecycle, stopping, call, outer, inner, work, task, closing>>

(* Mutant of Retire: the session is unpublished and not cancelled.         *)
RetireUncancelled(r) ==
    LET c == call[r].conn IN
    /\ pc[r] = "retire"
    /\ sessions' = [sessions EXCEPT ![c] = NoSession]
    /\ work' = [work EXCEPT ![r] = sessions[c]]
    /\ Goto(r, "drain")
    /\ UNCHANGED <<descriptors, generation, origin, cancelled, aged, lifecycle, stopping,
                   call, outer, inner, task, closing>>

(* retire: take the session out of the map and cancel it ...               *)
Retire(r) ==
    LET c == call[r].conn IN
    /\ pc[r] = "retire"
    /\ sessions' = [sessions EXCEPT ![c] = NoSession]
    /\ cancelled' = cancelled \cup ({sessions[c]} \ {NoSession})
    /\ work' = [work EXCEPT ![r] = sessions[c]]
    /\ Goto(r, "drain")
    /\ UNCHANGED <<descriptors, generation, origin, aged, lifecycle, stopping, call,
                   outer, inner, task, closing>>

(* Mutant of Drain: nobody waits.                                          *)
DrainAtOnce(r) ==
    LET over == call[r].kind = "disconnect" IN
    /\ pc[r] = "drain"
    /\ work' = [work EXCEPT ![r] = NoSession]
    /\ Goto(r, IF over THEN "returning" ELSE "build")
    /\ lifecycle' = IF over THEN Free ELSE lifecycle
    /\ UNCHANGED <<registry, stopping, call, outer, inner, task, closing>>

(* ... and wait until nobody uses it.  disconnect answers then.            *)
Drain(r) ==
    LET over == call[r].kind = "disconnect" IN
    /\ pc[r] = "drain"
    /\ work[r] # NoSession => ~InUse(work[r])
    /\ work' = [work EXCEPT ![r] = NoSession]
    /\ Goto(r, IF over THEN "returning" ELSE "build")
    /\ lifecycle' = IF over THEN Free ELSE lifecycle
    /\ UNCHANGED <<registry, stopping, call, outer, inner, task, closing>>

(* build_session: the operator cannot be built or verified in time, ...    *)
BuildFails(r) ==
    /\ pc[r] = "build"
    /\ Goto(r, "returning")
    /\ lifecycle' = Free
    /\ UNCHANGED <<registry, stopping, call, outer, inner, work, task, closing>>

(* Mutant of NewSession: the generation counter does not move.             *)
NewSessionUncounted(r) ==
    LET k == call[r]
        config == IF k.kind \in AdminKinds THEN k.config ELSE descriptors[k.conn]
        new == generation + 1 IN
    /\ UNCHANGED generation
    /\ origin' = [s \in 1 .. new |->
                    IF s = new THEN [conn |-> k.conn, config |-> config] ELSE origin[s]]

(* ... or a session of the next generation exists.  A test drops it.       *)
NewSession(r) ==
    LET k == call[r]
        config == IF k.kind \in AdminKinds THEN k.config ELSE descriptors[k.conn]
        new == generation + 1 IN
    /\ generation' = new
    /\ origin' = [s \in 1 .. new |->
                    IF s = new THEN [conn |-> k.conn, config |-> config] ELSE origin[s]]

BuildTest(r) ==
    /\ pc[r] = "build" /\ call[r].kind = "test"
    /\ NewSession(r)
    /\ Goto(r, "returning")
    /\ lifecycle' = Free
    /\ UNCHANGED <<descriptors, sessions, cancelled, aged, stopping, call, outer, inner,
                   work, task, closing>>

Build(r) ==
    /\ pc[r] = "build" /\ call[r].kind # "test"
    /\ NewSession(r)
    /\ work' = [work EXCEPT ![r] = generation + 1]
    /\ Goto(r, IF call[r].kind = "connect" THEN "describe" ELSE "publish")
    /\ UNCHANGED <<descriptors, sessions, cancelled, aged, lifecycle, stopping, call,
                   outer, inner, task, closing>>

(* connect publishes the descriptor, then the session.                     *)
Describe(r) ==
    /\ pc[r] = "describe"
    /\ descriptors' = [descriptors EXCEPT ![call[r].conn] = call[r].config]
    /\ Goto(r, "publish")
    /\ UNCHANGED <<sessions, generation, origin, cancelled, aged, lifecycle, stopping,
                   call, outer, inner, work, task, closing>>

PublishConnect(r) ==
    /\ pc[r] = "publish" /\ call[r].kind = "connect"
    /\ sessions' = [sessions EXCEPT ![call[r].conn] = work[r]]
    /\ work' = [work EXCEPT ![r] = NoSession]
    /\ lifecycle' = Free
    /\ Goto(r, "returning")
    /\ UNCHANGED <<descriptors, generation, origin, cancelled, aged, stopping, call,
                   outer, inner, task, closing>>

(* A rebuild publishes the session with the request's own Activity on it.  *)
PublishRebuilt(r) ==
    /\ pc[r] = "publish" /\ call[r].kind # "connect"
    /\ sessions' = [sessions EXCEPT ![call[r].conn] = work[r]]
    /\ work' = [work EXCEPT ![r] = NoSession]
    /\ lifecycle' = Free
    /\ Grant(r, work[r])
    /\ UNCHANGED <<descriptors, generation, origin, cancelled, stopping, call, task, closing>>

-----------------------------------------------------------------------------
(* Time, maintenance and shutdown.                                         *)

(* last_used falls idle_timeout behind.                                    *)
Age(s) ==
    /\ s \notin aged /\ ~InUse(s)
    /\ \E c \in Conns : sessions[c] = s
    /\ aged' = aged \cup {s}
    /\ UNCHANGED <<descriptors, sessions, generation, origin, cancelled, lifecycle,
                   stopping, client, closing>>

(* The maintenance task: try_lock, then evict_idle.                        *)
EvictIdle ==
    LET evicted == {c \in Conns : sessions[c] # NoSession /\ Idle(sessions[c])} IN
    /\ ~stopping /\ lifecycle = Free
    /\ evicted # {}
    /\ sessions' = [c \in Conns |-> IF c \in evicted THEN NoSession ELSE sessions[c]]
    /\ cancelled' = cancelled \cup {sessions[c] : c \in evicted}
    /\ UNCHANGED <<descriptors, generation, origin, aged, lifecycle, stopping, client,
                   closing>>

(* stopping is set and the maintenance task is stopped and joined.         *)
ShutdownBegin ==
    /\ shut = "no"
    /\ stopping' = TRUE
    /\ shut' = "acquire"
    /\ UNCHANGED <<registry, lifecycle, client, doomed, awaited>>

ShutdownAcquire ==
    /\ shut = "acquire"
    /\ lifecycle = Free
    /\ lifecycle' = Shutdown
    /\ shut' = "clear"
    /\ UNCHANGED <<registry, stopping, client, doomed, awaited>>

ShutdownClear ==
    /\ shut = "clear"
    /\ descriptors' = [c \in Conns |-> NoConfig]
    /\ shut' = "unpublish"
    /\ UNCHANGED <<sessions, generation, origin, cancelled, aged, lifecycle, stopping,
                   client, doomed, awaited>>

(* Mutant of ShutdownUnpublish: the sessions are not cancelled.            *)
ShutdownUnpublishOnly ==
    /\ shut = "unpublish"
    /\ doomed' = {sessions[c] : c \in Conns} \ {NoSession}
    /\ sessions' = [c \in Conns |-> NoSession]
    /\ shut' = "snapshot"
    /\ UNCHANGED <<descriptors, generation, origin, cancelled, aged, lifecycle, stopping,
                   client, awaited>>

ShutdownUnpublish ==
    /\ shut = "unpublish"
    /\ doomed' = {sessions[c] : c \in Conns} \ {NoSession}
    /\ sessions' = [c \in Conns |-> NoSession]
    /\ cancelled' = cancelled \cup doomed'
    /\ shut' = "snapshot"
    /\ UNCHANGED <<descriptors, generation, origin, aged, lifecycle, stopping, client,
                   awaited>>

(* Transfers::shutdown: cancel the tasks of the table, then wait for each. *)
ShutdownSnapshot ==
    /\ shut = "snapshot"
    /\ awaited' = {r \in Clients : task[r] # NoSession}
    /\ shut' = "await"
    /\ UNCHANGED <<registry, lifecycle, stopping, client, doomed>>

ShutdownAwait ==
    /\ shut = "await"
    /\ \A r \in awaited : task[r] = NoSession
    /\ awaited' = {}
    /\ shut' = "drain"
    /\ UNCHANGED <<registry, lifecycle, stopping, client, doomed>>

ShutdownDrain ==
    /\ shut = "drain"
    /\ \A s \in doomed : ~InUse(s)
    /\ doomed' = {}
    /\ lifecycle' = Free
    /\ shut' = "done"
    /\ UNCHANGED <<registry, stopping, client, awaited>>

-----------------------------------------------------------------------------
(* What a client's own thread does between two awaits it cannot be kept in. *)
Step(r) ==
    \/ Dispatch(r) \/ LookupHit(r) \/ LookupMiss(r) \/ Entered(r) \/ Return(r)
    \/ LockedHit(r) \/ LockedRefuse(r) \/ LockedRebuild(r)
    \/ StartCheck(r) \/ StartInsert(r) \/ StartRefuse(r)
    \/ AdminRefuse(r) \/ AdminKeep(r) \/ AdminReplace(r) \/ AdminTest(r)
    \/ Retire(r) \/ Drain(r) \/ BuildFails(r) \/ BuildTest(r) \/ Build(r)
    \/ Describe(r) \/ PublishConnect(r) \/ PublishRebuilt(r)

ShutdownStep ==
    \/ ShutdownClear \/ ShutdownUnpublish \/ ShutdownSnapshot \/ ShutdownAwait \/ ShutdownDrain

Next ==
    \/ \E r \in Clients :
          \/ Begin(r) \/ Step(r) \/ Acquire(r) \/ Execute(r) \/ Unblock(r) \/ TaskEnds(r)
    \/ \E s \in Sessions : Age(s)
    \/ EvictIdle
    \/ ShutdownBegin \/ ShutdownAcquire \/ ShutdownStep

Spec == Init /\ [][Next]_vars

(* Cancellation ends an operation and a transfer task.                     *)
Abort(r) == Serving(r) \in cancelled /\ Execute(r)
TaskAborts(r) == task[r] \in cancelled /\ TaskEnds(r)

(* What the runtime guarantees without any answer from a remote: threads   *)
(* run, tokio's mutex is first come first served, verification has a       *)
(* timeout, and cancelled operations and tasks end.                        *)
Fairness ==
    /\ \A r \in Clients :
          /\ WF_vars(Step(r)) /\ SF_vars(Acquire(r))
          /\ WF_vars(Abort(r)) /\ WF_vars(TaskAborts(r))
    /\ SF_vars(ShutdownAcquire) /\ WF_vars(ShutdownStep)

FairSpec == Spec /\ Fairness

(* The same with remotes and local programs that always answer.            *)
AnsweringSpec == FairSpec /\ \A r \in Clients : WF_vars(Unblock(r))

-----------------------------------------------------------------------------
(* Properties.                                                             *)

(* Two generations of one connection are never in use at the same time:    *)
(* the per-session locks (permits, mutations) therefore serialize the      *)
(* connection, and a replaced configuration is never used again.           *)
OneLiveGeneration ==
    \A s, t \in Sessions :
        InUse(s) /\ InUse(t) /\ origin[s].conn = origin[t].conn => s = t

(* Whenever a connection has both, its published session was built from    *)
(* its current descriptor: no request is served with replaced credentials. *)
PublishedMatchesDescriptor ==
    \A c \in Conns :
        sessions[c] # NoSession /\ descriptors[c] # NoConfig
            => origin[sessions[c]] = [conn |-> c, config |-> descriptors[c]]

(* A request that rebuilds a session never tears down one that another     *)
(* call or transfer uses; only connect, disconnect and shutdown do that.   *)
RebuildSparesUsedSessions ==
    \A r \in Clients :
        pc[r] = "drain" /\ call[r].kind \in RequestKinds /\ work[r] # NoSession
            => ~InUse(work[r])

(* The two lookups of a nested workbench call never see two generations.   *)
NestedCallKeepsItsSession ==
    \A r \in Clients : inner[r] # NoSession => inner[r] = outer[r]

(* With the mutex free, a connection without a descriptor has no session   *)
(* and nothing runs for it: a disconnect that answered has really ended    *)
(* every call and transfer of the connection.                              *)
DisconnectedIsQuiet ==
    lifecycle = Free =>
        \A c \in Conns : descriptors[c] = NoConfig =>
            /\ sessions[c] = NoSession
            /\ \A s \in Sessions : origin[s].conn = c => ~InUse(s)

(* Once shutdown has returned nothing is connected and nothing runs, and   *)
(* no late connect, rebuild or transfer start brings anything back.        *)
ShutdownIsFinal ==
    shut = "done" =>
        /\ \A c \in Conns : descriptors[c] = NoConfig /\ sessions[c] = NoSession
        /\ \A s \in Sessions : ~InUse(s)

(* A disconnect and a shutdown that have answered leave nothing behind, and *)
(* nothing comes back.                                                     *)
EndsAreFinal == DisconnectedIsQuiet /\ ShutdownIsFinal

(* The limit tested before the build still holds after the late insertion. *)
DescriptorLimit == Cardinality(DescribedConns) <= MaxDescriptors

(* What callers see of all this is Registry: sessions, generations and the *)
(* mutex do not show.                                                      *)
Uses(s) == IF s = NoSession THEN {} ELSE {origin[s]}

Promise == INSTANCE Registry WITH
    described <- descriptors,
    calls <- [r \in Clients |-> Uses(outer[r])],
    transfers <- [r \in Clients |-> Uses(task[r])],
    changing <- lifecycle # Free,
    stopped <- shut = "done"

(* A call or transfer goes to the configuration its connection has when it *)
(* begins; that is replaced only when nobody uses it any more; a connect,  *)
(* disconnect or shutdown that has answered has really done it.            *)
ImplementsRegistry == Promise!Spec

(* connect, disconnect and test always answer, whatever the calls in       *)
(* flight are waiting for.                                                 *)
AdminsAnswer ==
    \A r \in Clients :
        (call[r] # NoCall /\ call[r].kind \in AdminKinds) ~> (pc[r] = "idle")

(* Plugin::shutdown returns.                                               *)
ShutdownReturns == stopping ~> (shut = "done")
=============================================================================
