--------------------------------- MODULE Slots ---------------------------------
(***************************************************************************)
(* Admission of remote work (backend/src/session.rs execute, the spawned   *)
(* part of Transfers::start in transfer.rs, the preview branch of          *)
(* workbench_call in lib.rs).                                              *)
(*                                                                         *)
(* Every job that talks to a remote holds one of the two permits of its    *)
(* connection and one of the eight global slots; a job that changes the    *)
(* remote also holds the connection's mutations lock.  Uploads take the    *)
(* lock before the global slot, RPC mutations and saveText after it.       *)
(* The module models one generation of each connection at a time; Reopen   *)
(* is the next one (SessionLifecycle shows it starts with nothing in use). *)
(***************************************************************************)
EXTENDS Naturals, FiniteSets, Sequences

CONSTANTS
    Jobs,              \* calls and transfer tasks
    Conns,             \* connections
    ConnOf,            \* the connection a job belongs to
    KindOf,            \* what a job does
    Untimed,           \* connections whose query timeout is 0 (no deadline)
    PermitsPerConn,    \* 2 in the code (session.rs Session::new)
    GlobalSlots        \* 8 in the code (transfer.rs Transfers::default)

Kinds == {"read", "mutation", "save", "upload", "download"}

ASSUME SlotsAssumption ==
    /\ IsFiniteSet(Jobs)
    /\ ConnOf \in [Jobs -> Conns]
    /\ KindOf \in [Jobs -> Kinds]
    /\ Untimed \subseteq Conns
    /\ PermitsPerConn \in Nat \ {0}
    /\ GlobalSlots \in Nat \ {0}

Mutating == {"mutation", "save", "upload"}
Transferring == {"upload", "download"}

(* Mutant of Order: transfers do without a permit of their connection.     *)
OrderWithoutPermit(kind) ==
    IF kind = "upload" THEN <<"mutations", "global">>
    ELSE IF kind = "download" THEN <<"global">>
    ELSE IF kind \in {"mutation", "save"} THEN <<"permit", "global", "mutations">>
    ELSE <<"permit", "global">>

(* The order in which a job takes what it needs.                           *)
Order(kind) ==
    IF kind = "upload" THEN <<"permit", "mutations", "global">>
    ELSE IF kind \in {"mutation", "save"} THEN <<"permit", "global", "mutations">>
    ELSE <<"permit", "global">>

VARIABLES
    stage,   \* idle, waiting, working, or leaving (an upload that cleans up)
    taken,   \* how many of its resources a job holds
    closed,  \* connections whose session is cancelled
    hung     \* connections whose remote has stopped answering for good

vars == <<stage, taken, closed, hung>>

Stages == {"idle", "waiting", "working", "leaving"}

TypeOK ==
    /\ stage \in [Jobs -> Stages]
    /\ taken \in [Jobs -> 0 .. 3]
    /\ closed \subseteq Conns
    /\ hung \subseteq Conns

Init ==
    /\ stage = [j \in Jobs |-> "idle"]
    /\ taken = [j \in Jobs |-> 0]
    /\ closed = {}
    /\ hung = {}

-----------------------------------------------------------------------------
Needs(j) == Order(KindOf[j])
Holds(j, resource) == \E i \in 1 .. taken[j] : Needs(j)[i] = resource
Peers(j) == {k \in Jobs : ConnOf[k] = ConnOf[j]}

PermitHolders(c) == {j \in Jobs : ConnOf[j] = c /\ Holds(j, "permit")}
GlobalHolders == {j \in Jobs : Holds(j, "global")}
LockHolders(c) == {j \in Jobs : ConnOf[j] = c /\ Holds(j, "mutations")}

Available(j, resource) ==
    /\ resource = "permit" => Cardinality(PermitHolders(ConnOf[j])) < PermitsPerConn
    /\ resource = "global" => Cardinality(GlobalHolders) < GlobalSlots
    /\ resource = "mutations" => LockHolders(ConnOf[j]) = {}

Awaits(j, resource) ==
    /\ stage[j] = "waiting"
    /\ taken[j] < Len(Needs(j))
    /\ Needs(j)[taken[j] + 1] = resource

(* Mutant of Release: one resource is given back, taken or not.            *)
ReleaseOne(j) ==
    /\ stage' = [stage EXCEPT ![j] = "idle"]
    /\ taken' = [taken EXCEPT ![j] = @ - 1]
    /\ UNCHANGED <<closed, hung>>

(* Mutant of Release: only the resource taken last is given back.          *)
ReleaseLeaking(j) ==
    /\ stage' = [stage EXCEPT ![j] = "idle"]
    /\ taken' = [taken EXCEPT ![j] = IF @ = 0 THEN 0 ELSE @ - 1]
    /\ UNCHANGED <<closed, hung>>

Release(j) ==
    /\ stage' = [stage EXCEPT ![j] = "idle"]
    /\ taken' = [taken EXCEPT ![j] = 0]
    /\ UNCHANGED <<closed, hung>>

-----------------------------------------------------------------------------
(* A call or a transfer is accepted while the session is available.        *)
Submit(j) ==
    /\ stage[j] = "idle"
    /\ ConnOf[j] \notin closed
    /\ stage' = [stage EXCEPT ![j] = "waiting"]
    /\ UNCHANGED <<taken, closed, hung>>

(* The next resource is granted; with the last one the remote work starts. *)
(* Cancellation is polled first, except by saveText, which notices it by   *)
(* itself only when it has its global slot.                                *)
Take(j) ==
    /\ \E resource \in {"permit", "global", "mutations"} :
          Awaits(j, resource) /\ Available(j, resource)
    /\ ConnOf[j] \in closed => KindOf[j] = "save" /\ ~Awaits(j, "global")
    /\ taken' = [taken EXCEPT ![j] = @ + 1]
    /\ stage' = [stage EXCEPT ![j] = IF taken[j] + 1 = Len(Needs(j)) THEN "working" ELSE @]
    /\ UNCHANGED <<closed, hung>>

(* The remote answered.                                                    *)
Finish(j) ==
    /\ stage[j] = "working"
    /\ ConnOf[j] \notin hung
    /\ Release(j)

(* Mutant of Interrupt: an upload cleans up after it gave the lock back.   *)
InterruptUnlocked(j) ==
    \/ /\ \/ stage[j] = "waiting"
          \/ stage[j] = "working" /\ KindOf[j] # "upload"
       /\ Release(j)
    \/ /\ stage[j] = "working" /\ KindOf[j] = "upload"
       /\ stage' = [stage EXCEPT ![j] = "leaving"]
       /\ taken' = [taken EXCEPT ![j] = 1]
       /\ UNCHANGED <<closed, hung>>

(* A call or a waiting transfer that is interrupted drops what it holds; a *)
(* running upload first removes its temporary file, still holding it all.  *)
Interrupt(j) ==
    \/ /\ \/ stage[j] = "waiting"
          \/ stage[j] = "working" /\ KindOf[j] # "upload"
       /\ Release(j)
    \/ /\ stage[j] = "working" /\ KindOf[j] = "upload"
       /\ stage' = [stage EXCEPT ![j] = "leaving"]
       /\ UNCHANGED <<taken, closed, hung>>

(* The deadline of the call: the connection's query timeout, or the two    *)
(* minutes saveText has when there is none.                                *)
Timed(j) == ConnOf[j] \notin Untimed \/ KindOf[j] = "save"

(* Mutant of Expire: the deadline runs from the start of the remote work.  *)
ExpireWorking(j) == Timed(j) /\ stage[j] = "working" /\ Interrupt(j)

Expire(j) == Timed(j) /\ Interrupt(j)

(* Mutant of Abort: cancellation is not polled while a job waits.          *)
AbortWorking(j) == ConnOf[j] \in closed /\ stage[j] = "working" /\ Interrupt(j)

(* transfer/cancel, and the cancellation of the session.                   *)
Cancel(j) == KindOf[j] \in Transferring /\ Interrupt(j)
Abort(j) == ConnOf[j] \in closed /\ Interrupt(j)

(* The cleanup of an upload ends, at the latest at CLEANUP_TIMEOUT.        *)
Leave(j) ==
    /\ stage[j] = "leaving"
    /\ Release(j)

Close(c) ==
    /\ c \notin closed
    /\ closed' = closed \cup {c}
    /\ UNCHANGED <<stage, taken, hung>>

(* The next generation, built after the old one drained.                   *)
Reopen(c) ==
    /\ c \in closed
    /\ \A j \in Jobs : ConnOf[j] = c => stage[j] = "idle"
    /\ closed' = closed \ {c}
    /\ UNCHANGED <<stage, taken, hung>>

(* The remote stops answering (a dead peer of a connection without query   *)
(* timeout is noticed by nobody).                                          *)
Hang(c) ==
    /\ hung' = hung \cup {c}
    /\ UNCHANGED <<stage, taken, closed>>

Next ==
    \/ \E j \in Jobs :
          \/ Submit(j) \/ Take(j) \/ Finish(j) \/ Leave(j)
          \/ Expire(j) \/ Cancel(j) \/ Abort(j)
    \/ \E c \in Conns : Close(c) \/ Reopen(c) \/ Hang(c)

Spec == Init /\ [][Next]_vars

(* Semaphores and the mutex are first come first served; deadlines fire;   *)
(* cancellation is polled first; cleanup is bounded; a remote that does    *)
(* not hang answers.                                                       *)
Fairness ==
    \A j \in Jobs :
        /\ SF_vars(Take(j)) /\ WF_vars(Expire(j)) /\ WF_vars(Abort(j))
        /\ WF_vars(Leave(j)) /\ WF_vars(Finish(j))

FairSpec == Spec /\ Fairness

-----------------------------------------------------------------------------
(* Properties.                                                             *)

(* Resources are taken one after the other, and work starts with the last: *)
(* who waits lacks one, who is idle holds none.                            *)
GrantInv ==
    \A j \in Jobs :
        /\ taken[j] <= Len(Needs(j))
        /\ stage[j] = "idle" => taken[j] = 0
        /\ stage[j] \in {"working", "leaving"} <=> taken[j] = Len(Needs(j))

(* One holder of each mutations lock; no more permits than there are.      *)
LockInv ==
    \A j \in Jobs : \A k \in Peers(j) :
        Holds(j, "mutations") /\ Holds(k, "mutations") => j = k

PermitInv ==
    \A c \in Conns : Cardinality(PermitHolders(c)) <= PermitsPerConn

(* What a job holds agrees with where it is, and the lock and the permits  *)
(* of every connection are kept, whatever interrupts the jobs.             *)
SlotsInv == TypeOK /\ GrantInv /\ LockInv /\ PermitInv

Changing(j) == stage[j] \in {"working", "leaving"} /\ KindOf[j] \in Mutating

(* Two jobs never change one connection's remote at the same time, the     *)
(* cleanup of an interrupted upload included.                              *)
ChangesAreSerialized ==
    \A j \in Jobs : \A k \in Peers(j) : Changing(j) /\ Changing(k) => j = k

(* One busy connection never occupies every global slot (the comment of    *)
(* transfer.rs at the first acquisition).                                  *)
BusyConnectionLeavesRoom ==
    \A c \in Conns : Cardinality({j \in GlobalHolders : ConnOf[j] = c}) <= PermitsPerConn

(* Jobs wait, none works and none can take its next resource: only         *)
(* deadlines and cancellation can end this.                                *)
Gridlock ==
    /\ \E j \in Jobs : stage[j] = "waiting"
    /\ \A j \in Jobs :
          /\ stage[j] \in {"idle", "waiting"}
          /\ \A resource \in {"permit", "global", "mutations"} :
                Awaits(j, resource) => ~Available(j, resource)

(* An upload that holds the lock and a mutation that holds a global slot   *)
(* and waits for the lock.                                                 *)
Crossed(c) ==
    /\ \E j \in LockHolders(c) : Awaits(j, "global")
    /\ \E j \in GlobalHolders : ConnOf[j] = c /\ Awaits(j, "mutations")

(* The opposite acquisition orders of uploads and RPC mutations can stop   *)
(* the plugin only when every global slot is held by a mutation that waits *)
(* for an upload of its own connection: it takes GlobalSlots /             *)
(* (PermitsPerConn - 1) connections doing both at once.                    *)
GridlockTakesEverySlot ==
    Gridlock =>
        /\ \A j \in GlobalHolders : Awaits(j, "mutations") /\ Crossed(ConnOf[j])
        /\ Cardinality({c \in Conns : Crossed(c)}) * (PermitsPerConn - 1) >= GlobalSlots

(* Every job ends, whatever order the locks are taken in; a job without a  *)
(* deadline may wait for ever only when a connection without a deadline    *)
(* hangs.  (Two untimed connections that cross, see Crossed, would stop    *)
(* each other even without a hung remote: the instances have one.)         *)
EveryJobEnds ==
    \A j \in Jobs :
        (stage[j] # "idle") ~> (stage[j] = "idle" \/ (~Timed(j) /\ Untimed \cap hung # {}))

(* A cancelled session is drained, even when its remote never answers.     *)
ClosedDrains ==
    \A c \in Conns :
        (c \in closed) ~> (\A j \in Jobs : ConnOf[j] = c => stage[j] = "idle")
=============================================================================
