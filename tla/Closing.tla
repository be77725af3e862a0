--------------------------------- MODULE Closing ---------------------------------
(***************************************************************************)
(* A session that is retired while a call streams a file to a WebDAV       *)
(* server: Plugin::retire and Session::execute (backend/src/lib.rs and     *)
(* session.rs), composed of the writer (Webdav) and the handshake of the   *)
(* Activity guards (Drained).                                              *)
(*                                                                         *)
(* The call holds a guard until it is over.  Retiring cancels the session, *)
(* which makes execute drop the call wherever it is, and waits.  Guards    *)
(* that are dropped before are not among those modelled.                   *)
(***************************************************************************)
EXTENDS Webdav, FiniteSets

CONSTANTS Guards,  \* Activity guards of the session
          Call     \* the one of the call that streams

ASSUME ClosingAssumption == IsFiniteSet(Guards) /\ Call \in Guards

VARIABLES closed,                                     \* Session::closed
          guard, active, waiter, registered, woken    \* see Drained

Handshake == INSTANCE Drained

handshake == <<guard, active, waiter, registered, woken>>
closingVars == <<vars, closed, handshake>>

ClosingInit ==
    /\ Init /\ Handshake!Init
    /\ guard[Call] = "live"
    /\ closed = FALSE

(* The stream goes on by itself, on the wire even when its call is over.   *)
Stream == Next /\ UNCHANGED <<closed, handshake>>

(* Mutant of Cancelled: the writer is given back without being dropped.    *)
CancelledKept ==
    /\ closed /\ caller \notin Ended \cup {"dropping"}
    /\ caller' = "failed"
    /\ UNCHANGED <<length, buffer, left, written, sender, queue, task, body, flight, remote>>
    /\ UNCHANGED <<closed, handshake>>

(* execute polls the cancellation first and drops the operation.           *)
Cancelled == closed /\ Interrupt /\ UNCHANGED <<closed, handshake>>

Retire ==
    /\ ~closed /\ closed' = TRUE
    /\ UNCHANGED <<vars, handshake>>

(* wait_drained, and the guards: that of the call goes when the call is    *)
(* over.                                                                   *)
Wait ==
    /\ closed
    /\ Handshake!Next
    /\ guard[Call] = "live" /\ guard'[Call] # "live" => caller \in Ended
    /\ UNCHANGED <<vars, closed>>

ClosingNext == Stream \/ Cancelled \/ Retire \/ Wait

(* The waiter is scheduled, a thread that has decremented goes on, and the *)
(* call notices that its session is cancelled.                             *)
ClosingSpec ==
    /\ ClosingInit /\ [][ClosingNext]_closingVars /\ Fairness
    /\ WF_closingVars(Cancelled)
    /\ WF_closingVars(closed /\ Handshake!Waits /\ UNCHANGED <<vars, closed>>)
    /\ \A g \in Guards :
          WF_closingVars(closed /\ Handshake!NotifyWaiters(g) /\ UNCHANGED <<vars, closed>>)

-----------------------------------------------------------------------------
(* Properties.                                                             *)

(* Chunks and guards are counted exactly, the call has its guard until it  *)
(* is over, and the waiter returns only to an empty counter.               *)
ClosingInv ==
    /\ StreamInv
    /\ Handshake!TypeOK /\ Handshake!CounterIsExact
    /\ guard[Call] = "live" \/ caller \in Ended
    /\ caller \in {"aborting", "stopping"} => ~sender
    /\ caller \in {"stopping", "dropping"} => task # "running"
    /\ caller \in Ended => ~sender /\ task # "running"
    /\ waiter = "returned" => closed /\ active = 0

(* When retire goes on to clear the session and the next generation is     *)
(* built, nothing of this session can feed the stream any more, and nobody *)
(* waits for its answer: the call is over, its sender is dropped, and its  *)
(* request has an answer or was told to stop.  Told only: Drop does not    *)
(* await the task (webdav.rs:280-285), as abort does.                      *)
RetiredIsQuiet ==
    waiter = "returned" => closed /\ caller \in Ended /\ ~sender /\ task # "running"

(* What outlives retire (the task that was told to stop, and a chunk that  *)
(* was in the channel, which may still be sent) comes to its end: no       *)
(* request of a retired session stays open.                                *)
RetiredStreamsEnd ==
    (waiter = "returned") ~> (task \notin {"running", "aborting"} /\ body # "open")

(* The wait for the session promises what Quiesce says, with a call that   *)
(* has to be dropped first.                                                *)
ImplementsQuiesce == Handshake!Abstract!Spec
=============================================================================
