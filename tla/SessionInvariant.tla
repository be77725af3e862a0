--------------------------- MODULE SessionInvariant ---------------------------
(***************************************************************************)
(* The inductive invariant of SessionLifecycle, in named parts.  The       *)
(* properties of the component are not inductive by themselves: they need  *)
(* who holds the mutex, what the holder has already taken out of the maps  *)
(* and why an unpublished session can still be in use.                     *)
(***************************************************************************)
EXTENDS SessionLifecycle

(* The client or the shutdown thread inside the critical section is the    *)
(* one the mutex names.                                                    *)
MutexInv ==
    /\ \A r \in Clients : pc[r] \in Critical <=> lifecycle = r
    /\ shut \in Closing <=> lifecycle = Shutdown

(* Which call can be at which point.                                       *)
CallInv ==
    \A r \in Clients :
        /\ pc[r] # "idle" => call[r] \in Calls
        /\ pc[r] \in {"lookup", "entered", "executing", "starting", "inserting", "blocking"}
              => call[r].kind \in RequestKinds
        /\ pc[r] = "describe" => call[r].kind = "connect"
        /\ pc[r] = "publish" => call[r].kind \in RequestKinds \cup {"connect"}
        /\ pc[r] \in {"retire", "drain"} => call[r].kind # "test"
        /\ pc[r] = "build" => call[r].kind # "disconnect"

(* A published session belongs to its connection, is not cancelled and was *)
(* built from the descriptor; the descriptor is missing only while the     *)
(* holder of the mutex is about to unpublish the session.                  *)
PublishedInv ==
    \A c \in Conns : sessions[c] # NoSession =>
        /\ origin[sessions[c]].conn = c
        /\ sessions[c] \notin cancelled
        /\ descriptors[c] # NoConfig => origin[sessions[c]].config = descriptors[c]
        /\ descriptors[c] = NoConfig =>
              \/ \E r \in Clients : pc[r] = "retire" /\ call[r].conn = c
              \/ shut = "unpublish"

(* The holder of the mutex, from its decision to replace the session on.   *)
HolderInv ==
    \A r \in Clients : LET c == call[r].conn IN
        /\ pc[r] \notin {"drain", "describe", "publish"} => work[r] = NoSession
        /\ pc[r] \in {"retire", "drain", "build", "describe"}
                /\ call[r].kind \in AdminKinds \ {"test"} => descriptors[c] = NoConfig
        /\ pc[r] \in {"retire", "drain", "build", "publish"}
                /\ call[r].kind \in RequestKinds => descriptors[c] # NoConfig
        /\ pc[r] \in {"drain", "build", "describe", "publish"}
                /\ call[r].kind # "test" => sessions[c] = NoSession
        /\ pc[r] = "drain" /\ work[r] # NoSession => origin[work[r]].conn = c
        /\ pc[r] \in {"describe", "publish"} =>
              work[r] # NoSession /\ work[r] \notin cancelled /\ origin[work[r]].conn = c
        /\ pc[r] = "describe" => origin[work[r]].config = call[r].config
        /\ pc[r] = "publish" => origin[work[r]].config = descriptors[c]

(* What nobody uses: the session a request is about to rebuild, and the    *)
(* one that is not published yet.                                          *)
UnusedInv ==
    \A r \in Clients :
        /\ pc[r] = "retire" /\ call[r].kind \in RequestKinds
                /\ sessions[call[r].conn] # NoSession => Idle(sessions[call[r].conn])
        /\ pc[r] = "drain" /\ call[r].kind \in RequestKinds /\ work[r] # NoSession
              => ~InUse(work[r])
        /\ pc[r] \in {"describe", "publish"} => ~InUse(work[r])

(* A session in use is published, or somebody drains it.                   *)
Kept(s) ==
    \/ sessions[origin[s].conn] = s
    \/ \E r \in Clients : pc[r] = "drain" /\ work[r] = s
    \/ s \in doomed

UseInv ==
    \A r \in Clients :
        /\ outer[r] # NoSession => Kept(outer[r])
        /\ inner[r] # NoSession => Kept(inner[r])
        /\ task[r] # NoSession => Kept(task[r])

(* The guards of a call.                                                   *)
GuardInv ==
    \A r \in Clients :
        /\ inner[r] # NoSession => inner[r] = outer[r]
        /\ outer[r] # NoSession =>
              pc[r] # "idle" /\ call[r].kind \in RequestKinds /\ origin[outer[r]].conn = call[r].conn
        /\ pc[r] \in {"entered", "executing", "starting", "inserting", "blocking"}
              => outer[r] # NoSession
        /\ pc[r] \in {"idle", "dispatch"} => outer[r] = NoSession /\ inner[r] = NoSession
        /\ pc[r] \in {"lookup", "acquire", "entered"} \cup Critical => inner[r] = NoSession

(* The progress of shutdown.                                               *)
ShutdownInv ==
    /\ shut # "no" => stopping
    /\ shut \in {"unpublish", "snapshot", "await", "drain", "done"} =>
          \A c \in Conns : descriptors[c] = NoConfig
    /\ shut \in {"snapshot", "await", "drain", "done"} =>
          \A c \in Conns : sessions[c] = NoSession
    /\ shut \notin {"snapshot", "await", "drain"} => doomed = {}
    /\ shut \in Closing \cup {"done"} =>
          \A r \in Clients : pc[r] \notin Critical \ {"locked"}
    /\ \A s, t \in doomed : origin[s].conn = origin[t].conn => s = t

(* What every reachable state satisfies, and every step preserves.         *)
SessionInv ==
    /\ TypeOK
    /\ MutexInv
    /\ CallInv
    /\ PublishedInv
    /\ HolderInv
    /\ UnusedInv
    /\ UseInv
    /\ GuardInv
    /\ ShutdownInv
=============================================================================
