-------------------------------- MODULE Upload --------------------------------
(***************************************************************************)
(* Uploads of one connection to one destination (backend/src/transfer.rs,  *)
(* upload_file and cleanup_upload, with the task states of Task::finish).  *)
(*                                                                         *)
(* An upload writes a temporary file beside the destination, publishes it  *)
(* by rename or copy, and removes the temporary file on every path out.    *)
(* Each remote await can be cut short by cancellation or by the deadline;  *)
(* a publication that is cut short may still be applied by the remote,     *)
(* whole or, when the plugin itself streams it, in parts.  Other clients   *)
(* write the same destination at any time.  What an upload reports has to  *)
(* tell the user what to inspect.                                          *)
(***************************************************************************)
EXTENDS Naturals

CONSTANTS
    Uploads,     \* transfer tasks with the same connection and destination
    Overwrites,  \* those started with overwrite
    Pieces,      \* buffers of the local source
    Nobody       \* the mutations lock is free

ASSUME UploadAssumption ==
    /\ Overwrites \subseteq Uploads
    /\ Pieces \in Nat
    /\ Nobody \notin Uploads
    /\ Uploads \cap {"none", "foreign", "torn"} = {}

VARIABLES
    how,       \* how the remote publishes: rename, copy, exclusive (a copy
               \* that can be told to replace nothing), or a streamed copy
    late,      \* whether the remote may apply an abandoned publication later
    pc,        \* where each upload is
    sent,      \* buffers written to the temporary file
    temp,      \* the temporary file of each upload
    target,    \* the destination: absent, another client's, an upload, or torn
    since,     \* uploads that had begun to publish when it last changed
    mutations, \* holder of the connection's mutations lock
    cancel,    \* uploads whose token is cancelled
    started,   \* uploads past publication_started
    cause,     \* the error an upload met first
    lingering, \* abandoned publications the remote may still apply
    result     \* the final state and error code of the task

remote == <<how, late>>
destination == <<target, since>>
vars == <<remote, pc, sent, temp, destination, mutations, cancel, started, cause, lingering, result>>

Ways == {"rename", "copy", "exclusive", "stream"}
Places == {"queued", "check", "open", "send", "close", "recheck", "inspect", "publish",
           "abort", "clean", "done"}
Causes == {"none", "cancelled", "timeout", "refused", "local", "remote"}
Results == {"none", "completed", "cancelled", "failed", "partial_transfer", "cleanup_failed"}

TypeOK ==
    /\ how \in Ways
    /\ late \in BOOLEAN
    /\ pc \in [Uploads -> Places]
    /\ sent \in [Uploads -> 0 .. Pieces]
    /\ temp \in [Uploads -> {"none", "partial", "full"}]
    /\ target \in {"none", "foreign", "torn"} \cup Uploads
    /\ since \subseteq Uploads
    /\ mutations \in Uploads \cup {Nobody}
    /\ cancel \subseteq Uploads
    /\ started \subseteq Uploads
    /\ cause \in [Uploads -> Causes]
    /\ lingering \subseteq Uploads
    /\ result \in [Uploads -> Results]

Init ==
    /\ how \in Ways
    /\ late \in BOOLEAN
    /\ pc = [u \in Uploads |-> "queued"]
    /\ sent = [u \in Uploads |-> 0]
    /\ temp = [u \in Uploads |-> "none"]
    /\ target \in {"none", "foreign"}
    /\ since = {}
    /\ mutations = Nobody
    /\ cancel = {}
    /\ started = {}
    /\ cause = [u \in Uploads |-> "none"]
    /\ lingering = {}
    /\ result = [u \in Uploads |-> "none"]

Goto(u, place) == pc' = [pc EXCEPT ![u] = place]
Leaves(u, states) == \E t \in states : temp' = [temp EXCEPT ![u] = t]

(* The task ends: the lock is released and the outcome is recorded.        *)
End(u, outcome) ==
    /\ Goto(u, "done")
    /\ result' = [result EXCEPT ![u] = outcome]
    /\ mutations' = Nobody

(* An error before the temporary file: nothing to clean up.                *)
EndEarly(u, code) ==
    /\ cause' = [cause EXCEPT ![u] = code]
    /\ End(u, IF code = "cancelled" THEN "cancelled" ELSE "failed")

(* An error after it: the writer is aborted, then the file removed.        *)
Fail(u, code, place) ==
    /\ cause' = [cause EXCEPT ![u] = code]
    /\ Goto(u, place)

(* operations::destination refuses an existing file without overwrite.     *)
Refused(u) == target # "none" /\ u \notin Overwrites

-----------------------------------------------------------------------------
(* The steps of upload_file when nothing interrupts them.  Control::run    *)
(* polls cancellation before the remote's answer.                          *)

(* Mutant of Begin: uploads of one connection are not serialized.          *)
BeginUnlocked(u) ==
    /\ pc[u] = "queued" /\ u \notin cancel
    /\ mutations' = u
    /\ Goto(u, "check")
    /\ UNCHANGED <<remote, sent, temp, destination, cancel, started, cause, lingering, result>>

Begin(u) ==
    /\ pc[u] = "queued" /\ u \notin cancel
    /\ mutations = Nobody
    /\ mutations' = u
    /\ Goto(u, "check")
    /\ UNCHANGED <<remote, sent, temp, destination, cancel, started, cause, lingering, result>>

(* The local source is inspected, then the destination.                    *)
Check(u) ==
    /\ pc[u] = "check" /\ u \notin cancel
    /\ \/ ~Refused(u) /\ Goto(u, "open") /\ UNCHANGED <<mutations, cause, result>>
       \/ Refused(u) /\ EndEarly(u, "refused")
       \/ \E code \in {"local", "remote"} : EndEarly(u, code)
    /\ UNCHANGED <<remote, sent, temp, destination, cancel, started, lingering>>

(* The writer of the temporary file is opened; a failed open is cleaned up *)
(* like a written file, since the remote may have created it.              *)
Open(u) ==
    /\ pc[u] = "open" /\ u \notin cancel
    /\ \/ Leaves(u, {"partial"}) /\ Goto(u, "send") /\ UNCHANGED cause
       \/ Leaves(u, {"none", "partial"}) /\ Fail(u, "remote", "clean")
    /\ UNCHANGED <<remote, sent, destination, mutations, cancel, started, lingering, result>>

(* Mutant of Send: a source that grows is sent on.                         *)
SendGrown(u) ==
    /\ pc[u] = "send" /\ u \notin cancel
    /\ sent' = [sent EXCEPT ![u] = @ + 1]
    /\ UNCHANGED <<pc, cause>>
    /\ UNCHANGED <<remote, temp, destination, mutations, cancel, started, lingering, result>>

(* One buffer is read and written; at the end of the source its length has *)
(* to be the one first inspected.                                          *)
Send(u) ==
    /\ pc[u] = "send" /\ u \notin cancel
    /\ \/ /\ sent[u] < Pieces
          /\ sent' = [sent EXCEPT ![u] = @ + 1]
          /\ UNCHANGED <<pc, cause>>
       \/ sent[u] = Pieces /\ Goto(u, "close") /\ UNCHANGED <<sent, cause>>
       \/ \E code \in {"local", "remote"} : Fail(u, code, "abort") /\ UNCHANGED sent
    /\ UNCHANGED <<remote, temp, destination, mutations, cancel, started, lingering, result>>

CloseWriter(u) ==
    /\ pc[u] = "close" /\ u \notin cancel
    /\ \/ Leaves(u, {"full"}) /\ Goto(u, "recheck") /\ UNCHANGED cause
       \/ Leaves(u, {"partial", "full"}) /\ Fail(u, "remote", "abort")
    /\ UNCHANGED <<remote, sent, destination, mutations, cancel, started, lingering, result>>

(* Mutant of Recheck: the first look at the destination is trusted.        *)
RecheckTrusting(u) ==
    /\ pc[u] = "recheck" /\ u \notin cancel
    /\ started' = started \cup {u}
    /\ Goto(u, IF how = "rename" THEN "publish" ELSE "inspect")
    /\ UNCHANGED <<remote, sent, temp, destination, mutations, cancel, cause, lingering, result>>

(* The destination is inspected again; then the publication starts.        *)
Recheck(u) ==
    /\ pc[u] = "recheck" /\ u \notin cancel
    /\ \/ /\ ~Refused(u)
          /\ started' = started \cup {u}
          /\ Goto(u, IF how = "rename" THEN "publish" ELSE "inspect")
          /\ UNCHANGED cause
       \/ Refused(u) /\ Fail(u, "refused", "abort") /\ UNCHANGED started
       \/ Fail(u, "remote", "abort") /\ UNCHANGED started
    /\ UNCHANGED <<remote, sent, temp, destination, mutations, cancel, lingering, result>>

(* copy_file inspects the destination once more by itself.                 *)
Inspect(u) ==
    /\ pc[u] = "inspect" /\ u \notin cancel
    /\ \/ ~Refused(u) /\ Goto(u, "publish") /\ UNCHANGED cause
       \/ Refused(u) /\ Fail(u, "refused", "abort")
       \/ Fail(u, "remote", "abort")
    /\ UNCHANGED <<remote, sent, temp, destination, mutations, cancel, started, lingering, result>>

(* Something is written to the destination.                                *)
Becomes(what) == target' = what /\ since' = started

(* The effect of a publication at the remote, which replaces what is there *)
(* by then, unless it can be told not to.                                  *)
Published(u) ==
    /\ how = "exclusive" => ~Refused(u)
    /\ Becomes(u)
    /\ Leaves(u, {IF how = "rename" THEN "none" ELSE temp[u]})

(* A publication that is not answered: applied all the same, or not, or    *)
(* half when the plugin streams it; and the rest may come later: the       *)
(* request itself, or what the dropped writer had handed over and its end. *)
Undecided(u) ==
    \/ Published(u) /\ UNCHANGED lingering
    \/ /\ \/ UNCHANGED destination
          \/ how = "stream" /\ Becomes("torn")
       /\ \/ UNCHANGED lingering
          \/ late /\ lingering' = lingering \cup {u}
       /\ UNCHANGED temp

(* Mutant of Publish: the error of the publication is dropped.             *)
PublishUnchecked(u) ==
    /\ pc[u] = "publish" /\ u \notin cancel
    /\ Undecided(u)
    /\ Goto(u, "clean")
    /\ UNCHANGED <<remote, sent, mutations, cancel, started, cause, result>>

(* Between the last look and the publication the destination can change.   *)
Publish(u) ==
    /\ pc[u] = "publish" /\ u \notin cancel
    /\ \/ Published(u) /\ Goto(u, "clean") /\ UNCHANGED <<cause, lingering>>
       \/ Undecided(u) /\ Fail(u, "remote", "abort")
    /\ UNCHANGED <<remote, sent, mutations, cancel, started, result>>

(* writer.abort, or writer.close where abort is unsupported, each for ten  *)
(* seconds at most.                                                        *)
Abort(u) ==
    /\ pc[u] = "abort"
    /\ Leaves(u, {"none", temp[u]})
    /\ Goto(u, "clean")
    /\ UNCHANGED <<remote, sent, destination, mutations, cancel, started, cause, lingering, result>>

(* Mutant of Outcome: publication_started is not looked at.                *)
OutcomeUnstarted(u) ==
    IF cause[u] = "none" THEN "completed"
    ELSE IF cause[u] = "cancelled" THEN "cancelled" ELSE "failed"

(* cleanup_upload: the temporary file is deleted, or that is unconfirmed.  *)
Outcome(u) ==
    IF cause[u] = "none" THEN "completed"
    ELSE IF u \in started THEN "partial_transfer"
    ELSE IF cause[u] = "cancelled" THEN "cancelled" ELSE "failed"

(* Mutant of Clean: a deletion that fails counts as done.                  *)
CleanHopefully(u) ==
    /\ pc[u] = "clean"
    /\ Leaves(u, {"none", temp[u]})
    /\ End(u, Outcome(u))
    /\ UNCHANGED <<remote, sent, destination, cancel, started, cause, lingering>>

Clean(u) ==
    /\ pc[u] = "clean"
    /\ \/ Leaves(u, {"none"}) /\ End(u, Outcome(u))
       \/ Leaves(u, {"none", temp[u]}) /\ End(u, "cleanup_failed")
    /\ UNCHANGED <<remote, sent, destination, cancel, started, cause, lingering>>

-----------------------------------------------------------------------------
(* Interruptions.                                                          *)

(* transfer/cancel, or the cancellation of the session.                    *)
RequestCancel(u) ==
    /\ pc[u] # "done"
    /\ cancel' = cancel \cup {u}
    /\ UNCHANGED <<remote, pc, sent, temp, destination, mutations, started, cause, lingering, result>>

(* Control::check and Control::run: cancelled first, otherwise the         *)
(* deadline.  What the dropped request has done depends on where it was.   *)
Interrupt(u) ==
    LET code == IF u \in cancel THEN "cancelled" ELSE "timeout" IN
    /\ \/ /\ pc[u] = "queued"
          /\ Goto(u, "done")
          /\ cause' = [cause EXCEPT ![u] = code]
          /\ result' = [result EXCEPT ![u] = IF code = "cancelled" THEN code ELSE "failed"]
          /\ UNCHANGED <<temp, destination, mutations, lingering>>
       \/ pc[u] = "check" /\ EndEarly(u, code) /\ UNCHANGED <<temp, destination, lingering>>
       \/ /\ pc[u] = "open"
          /\ Leaves(u, {"none", "partial"}) /\ Fail(u, code, "clean")
          /\ UNCHANGED <<destination, mutations, lingering, result>>
       \/ /\ pc[u] \in {"send", "recheck", "inspect"}
          /\ Fail(u, code, "abort")
          /\ UNCHANGED <<temp, destination, mutations, lingering, result>>
       \/ /\ pc[u] = "close"
          /\ Leaves(u, {"partial", "full"}) /\ Fail(u, code, "abort")
          /\ UNCHANGED <<destination, mutations, lingering, result>>
       \/ /\ pc[u] = "publish"
          /\ Undecided(u)
          /\ Fail(u, code, "abort")
          /\ UNCHANGED <<mutations, result>>
    /\ UNCHANGED <<remote, sent, cancel, started>>

(* The remote gets to an abandoned publication: a rename or a copy works   *)
(* if the temporary file is still whole; what is left of a stream needs it *)
(* no more.                                                                *)
Land(u) ==
    /\ u \in lingering
    /\ \/ how = "stream" /\ Becomes("torn") /\ UNCHANGED <<temp, lingering>>
       \/ /\ lingering' = lingering \ {u}
          /\ \/ (how = "stream" \/ temp[u] = "full") /\ Published(u)
             \/ UNCHANGED <<destination, temp>>
    /\ UNCHANGED <<remote, pc, sent, mutations, cancel, started, cause, result>>

(* Another client of the remote writes the destination.                    *)
Outsider ==
    /\ Becomes("foreign")
    /\ UNCHANGED <<remote, pc, sent, temp, mutations, cancel, started, cause, lingering, result>>

Next ==
    \/ Outsider
    \/ \E u \in Uploads :
          \/ Begin(u) \/ Check(u) \/ Open(u) \/ Send(u) \/ CloseWriter(u) \/ Recheck(u)
          \/ Inspect(u) \/ Publish(u) \/ Abort(u) \/ Clean(u)
          \/ RequestCancel(u) \/ Interrupt(u) \/ Land(u)

Spec == Init /\ [][Next]_vars

(* Mutant of CancelledInterrupt: the publication is awaited outside of     *)
(* Control::run.                                                           *)
CancelledBeforePublish(u) == u \in cancel /\ pc[u] # "publish" /\ Interrupt(u)

CancelledInterrupt(u) == u \in cancel /\ Interrupt(u)

(* Cancellation is polled, and abort and cleanup have time limits; remotes *)
(* need not answer anything.                                               *)
FairSpec ==
    Spec /\ \A u \in Uploads :
                WF_vars(CancelledInterrupt(u)) /\ WF_vars(Abort(u)) /\ WF_vars(Clean(u))

-----------------------------------------------------------------------------
(* Properties.                                                             *)

(* u has been at the destination: what is there else came after it, from   *)
(* another client or from another upload that has begun to publish.        *)
Arrived(u) ==
    \/ target = u
    \/ target = "foreign" /\ u \in since
    \/ \E v \in started \ {u} : target \in {v, "torn"}

(* A completed upload has been published and left no temporary file.       *)
CompletedIsPublished ==
    \A u \in Uploads : result[u] = "completed" => temp[u] = "none" /\ Arrived(u)

(* An upload reported as cancelled or failed has left the destination and  *)
(* the directory as they were, and nothing of it can still happen.         *)
InterruptedIsHarmless ==
    \A u \in Uploads : result[u] \in {"cancelled", "failed"} =>
        target # u /\ temp[u] = "none" /\ u \notin lingering

(* A temporary file that outlives its upload is reported.                  *)
LeftoverIsReported ==
    \A u \in Uploads : pc[u] = "done" /\ temp[u] # "none" => result[u] = "cleanup_failed"

(* Whose requests may still reach the destination: those of an upload that *)
(* is at work, whose temporary file may be there still, or who was cut     *)
(* short while it streamed.                                                *)
MayStillChange(u) ==
    \/ result[u] \in {"none", "cleanup_failed"}
    \/ how = "stream" /\ result[u] = "partial_transfer"

(* The report tells when it is over, although requests that were given up  *)
(* may be applied at any later time: a completed, cancelled or failed      *)
(* upload changes the destination no more, and where a rename or a copy    *)
(* publishes, neither does one whose temporary file is known to be gone.   *)
(* (The rest of a stream can still arrive after partial_transfer: what the *)
(* user finds then is not yet final.)                                      *)
ConfirmedCleanupIsFinal ==
    [][target' \notin {target, "foreign"} =>
          \E u \in Uploads : target' \in {u, "torn"} /\ MayStillChange(u)]_vars

(* A half-written destination is never the outcome of a completed upload   *)
(* alone: some upload that reports it, or is about to, was streaming.      *)
TornIsReported ==
    target = "torn" =>
        \E u \in started : result[u] \in {"none", "partial_transfer", "cleanup_failed"}

(* What a finished upload says of the destination and of its temporary     *)
(* file is what happened to them, wherever it was cancelled, met its       *)
(* deadline or lost an answer.                                             *)
OutcomesAreTrue ==
    CompletedIsPublished /\ InterruptedIsHarmless /\ LeftoverIsReported /\ TornIsReported

(* What an upload without overwrite replaces came after its last look: a   *)
(* file that another client made in the time between the recheck and the   *)
(* rename or copy (transfer.rs:463 and 468; no session promises more:      *)
(* atomicNoClobber is false, session.rs:127), or, at a remote that applies *)
(* requests late, in the time until then.  Files that came while it was    *)
(* being sent are kept; other uploads of the plugin are kept apart from    *)
(* late requests; and a copy that can be told to replace nothing does not. *)
NeverClobbers ==
    [][target # "none" /\ target' \notin {target, "foreign"} =>
          \E u \in Uploads :
             /\ target' \in {u, "torn"}
             /\ \/ u \in Overwrites
                \/ /\ how # "exclusive" /\ u \in since
                   /\ late \/ target = "foreign"]_vars

(* A cancelled upload ends although its remote answers nothing.            *)
CancelledUploadEnds == \A u \in Uploads : (u \in cancel) ~> (pc[u] = "done")
-----------------------------------------------------------------------------
(* The inductive invariant.  The reports are right because of what an      *)
(* upload can have touched at each of its places, which in turn rests on   *)
(* the lock: only one upload is past its check.                            *)

Early == {"queued", "check", "open"}
Late == {"inspect", "publish", "abort", "clean", "done"}
Locked == Places \ {"queued", "done"}

(* An upload that is past its publication and met no error.                *)
Succeeded(u) == pc[u] \in {"clean", "done"} /\ cause[u] = "none"

(* The holder of the mutations lock is the one upload at work.             *)
LockInv ==
    \A u \in Uploads : pc[u] \in Locked <=> mutations = u

(* An upload whose publication failed or was cut short.                    *)
Blamed(u) == u \in started /\ cause[u] # "none" /\ pc[u] \in {"abort", "clean", "done"}

(* What an upload has touched, by where it is.                             *)
ProgressInv ==
    \A u \in Uploads :
        /\ u \in started => pc[u] \in Late
        /\ u \in lingering => Blamed(u)
        /\ target = u => u \in started
        /\ pc[u] \in Early => temp[u] = "none"
        /\ pc[u] \in {"inspect", "publish"} => u \in started
        /\ pc[u] = "abort" => cause[u] # "none"
        /\ Succeeded(u) => u \in started /\ Arrived(u)

(* What a report says of the past.                                         *)
ReportInv ==
    \A u \in Uploads :
        /\ pc[u] = "done" <=> result[u] # "none"
        /\ result[u] \in {"cancelled", "failed"} => u \notin started
        /\ result[u] \notin {"none", "cleanup_failed"} => temp[u] = "none"
        /\ result[u] = "completed" => cause[u] = "none"

(* What every reachable state satisfies, and every step preserves.         *)
UploadInv == TypeOK /\ LockInv /\ ProgressInv /\ ReportInv
=============================================================================
