--------------------------------- MODULE Webdav ---------------------------------
(***************************************************************************)
(* The streaming PUT of the WebDAV service (backend/src/webdav.rs), driven *)
(* by the stream loop of copy_file or of an upload.                        *)
(*                                                                         *)
(* The writer hands its chunks to a task through a channel of one place;   *)
(* the HTTP client pulls them into the body of the request; the body ends  *)
(* when the sender is dropped.  Server and connection are external: a      *)
(* server may refuse at any time, answers success only when the body has   *)
(* ended, and takes what an ended body held for the complete file; what it *)
(* keeps of a body that breaks off is its own business.                    *)
(***************************************************************************)
EXTENDS Naturals

CONSTANTS MaxLength,  \* chunks (of BUFFER_SIZE) of the largest file
          MaxBuffer   \* chunks of the largest buffer given to one write

ASSUME WebdavAssumption == MaxLength \in Nat /\ MaxBuffer \in Nat

VARIABLES
    length,   \* chunks of the file that is streamed
    caller,   \* where the caller of the writer is
    buffer,   \* chunks of the buffer being written
    left,     \* those that are not in the channel yet
    written,  \* StreamingWriter::written
    sender,   \* whether StreamingWriter::sender is there
    queue,    \* chunks in the channel
    task,     \* running, the kind of its result, taken (None), aborting
              \* (told to stop), or aborted
    body,     \* open (the client pulls it), ended, or broken (dropped)
    flight,   \* chunks on the wire
    server,   \* reading, answered, or lost (the connection broke off)
    received, \* chunks the server has read
    stored    \* what it keeps: the old file, a torn or the whole new one

writer == <<caller, buffer, left, written, sender>>
remote == <<server, received, stored>>
vars == <<length, writer, queue, task, body, flight, remote>>

Kinds == {"ok", "permission_denied", "not_found", "condition_not_match",
          "rate_limited", "unsupported", "unexpected"}
Ended == {"done", "failed"}

Init ==
    /\ length \in 0 .. MaxLength
    /\ caller = "idle" /\ buffer = 0 /\ left = 0 /\ written = 0 /\ sender = TRUE
    /\ queue = 0 /\ task = "running" /\ body = "open" /\ flight = 0
    /\ server = "reading" /\ received = 0 /\ stored = "old"

-----------------------------------------------------------------------------
(* The writer.                                                             *)

(* oio::Write::write with the next part of the file.                       *)
Write ==
    /\ caller = "idle"
    /\ \E n \in 1 .. MaxBuffer :
          written + n <= length /\ buffer' = n /\ left' = n
    /\ caller' = "writing"
    /\ UNCHANGED <<length, written, sender, queue, task, body, flight, remote>>

(* One chunk of it enters the channel when there is room, or the body that *)
(* should have pulled it is gone and its answer is awaited; after the last *)
(* chunk the call returns.                                                 *)
Send ==
    /\ caller = "writing"
    /\ \/ /\ left > 0 /\ body = "open" /\ queue = 0
          /\ queue' = 1 /\ left' = left - 1
          /\ UNCHANGED <<caller, written>>
       \/ /\ left > 0 /\ body = "broken"
          /\ caller' = "answer"
          /\ UNCHANGED <<left, written, queue>>
       \/ /\ left = 0
          /\ written' = written + buffer
          /\ caller' = "idle"
          /\ UNCHANGED <<left, queue>>
    /\ UNCHANGED <<length, buffer, sender, task, body, flight, remote>>

(* Mutant of Close: the sender is kept until the answer is there.          *)
CloseHolding ==
    /\ caller = "idle" /\ written = length
    /\ caller' = "closing"
    /\ UNCHANGED <<length, buffer, left, written, sender, queue, task, body, flight, remote>>

(* close, after the last part: no sender, no more body.                    *)
Close ==
    /\ caller = "idle" /\ written = length
    /\ sender' = FALSE
    /\ caller' = "closing"
    /\ UNCHANGED <<length, buffer, left, written, queue, task, body, flight, remote>>

(* Mutant of Response: close succeeds with whatever answer.                *)
ResponseIgnored ==
    /\ caller \in {"answer", "closing"} /\ task # "running"
    /\ caller' = IF caller = "closing" THEN "done" ELSE "aborting"
    /\ task' = "taken"
    /\ sender' = FALSE
    /\ UNCHANGED <<length, buffer, left, written, queue, body, flight, remote>>

(* response(): the result of the task is taken.  Success ends a close; a   *)
(* write that finds the body gone fails in any case; and whoever gets an   *)
(* error aborts the writer, which drops the sender first.                  *)
Response ==
    /\ caller \in {"answer", "closing"} /\ task # "running"
    /\ caller' = IF caller = "closing" /\ task = "ok" THEN "done" ELSE "aborting"
    /\ task' = "taken"
    /\ sender' = FALSE
    /\ UNCHANGED <<length, buffer, left, written, queue, body, flight, remote>>

(* The source fails: the writer is aborted.                                *)
GiveUp ==
    /\ caller = "idle" /\ written < length
    /\ caller' = "aborting"
    /\ sender' = FALSE
    /\ UNCHANGED <<length, buffer, left, written, queue, task, body, flight, remote>>

(* JoinHandle::abort asks the task to stop and returns.                    *)
AskTask == task' = IF task = "running" THEN "aborting" ELSE task

(* The rest of abort: the task is asked to stop.  The sender is gone by    *)
(* then, so that the body may have come to its end in between.             *)
Abort ==
    /\ caller = "aborting"
    /\ AskTask
    /\ caller' = "stopping"
    /\ UNCHANGED <<length, buffer, left, written, sender, queue, body, flight, remote>>

(* Then it is awaited.                                                     *)
Awaited ==
    /\ caller = "stopping" /\ task # "aborting"
    /\ caller' = "failed"
    /\ UNCHANGED <<length, buffer, left, written, sender, queue, task, body, flight, remote>>

(* Mutant of Interrupt: the writer has no Drop, its task goes on.          *)
InterruptDetached ==
    /\ caller \notin Ended \cup {"dropping"}
    /\ caller' = "dropping"
    /\ UNCHANGED <<length, buffer, left, written, sender, queue, task, body, flight, remote>>

(* The caller is cancelled or meets its deadline, anywhere: the writer is  *)
(* dropped, which asks the task to stop, and the sender with it.           *)
Interrupt ==
    /\ caller \notin Ended \cup {"dropping"}
    /\ AskTask
    /\ caller' = "dropping"
    /\ UNCHANGED <<length, buffer, left, written, sender, queue, body, flight, remote>>

Drop ==
    /\ caller = "dropping"
    /\ sender' = FALSE
    /\ caller' = "failed"
    /\ UNCHANGED <<length, buffer, left, written, queue, task, body, flight, remote>>

(* The runtime gets to the task, with or without somebody who awaits it.   *)
TaskStops ==
    /\ task = "aborting"
    /\ task' = "aborted"
    /\ UNCHANGED <<length, writer, queue, body, flight, remote>>

-----------------------------------------------------------------------------
(* The body of the request, a stream over the receiver.                    *)

Pull ==
    /\ body = "open"
    /\ \/ queue = 1 /\ queue' = 0 /\ flight' = flight + 1 /\ UNCHANGED body
       \/ queue = 0 /\ ~sender /\ body' = "ended" /\ UNCHANGED <<queue, flight>>
    /\ UNCHANGED <<length, writer, task, remote>>

(* The client notices that nobody waits for the answer, or had it early.   *)
Cut ==
    /\ body = "open" /\ task # "running"
    /\ task = "aborting" => server # "reading"
    /\ body' = "broken"
    /\ queue' = 0
    /\ UNCHANGED <<length, writer, task, flight, remote>>

-----------------------------------------------------------------------------
(* The server and the connection.                                          *)

Statuses == {201, 401, 404, 412, 429, 405, 500}

(* Mutant of Kind: an answer is an answer.                                 *)
KindAny(status) == "ok"

(* What the task makes of the status of the answer.                        *)
Kind(status) ==
    IF status \in 200 .. 299 THEN "ok"
    ELSE IF status \in {401, 403} THEN "permission_denied"
    ELSE IF status = 404 THEN "not_found"
    ELSE IF status \in {409, 412} THEN "condition_not_match"
    ELSE IF status = 429 THEN "rate_limited"
    ELSE IF status \in {405, 411, 501} THEN "unsupported"
    ELSE "unexpected"

(* The result of the task, unless it was told to stop before.              *)
Result(kind) == task' = IF task = "running" THEN kind ELSE task

Read ==
    /\ server = "reading" /\ flight > 0
    /\ flight' = flight - 1
    /\ received' = received + 1
    /\ UNCHANGED <<length, writer, queue, task, body, server, stored>>

Refuse ==
    /\ server = "reading"
    /\ \E status \in Statuses \ {201} : Result(Kind(status))
    /\ server' = "answered"
    /\ stored' \in {stored, "torn"}
    /\ UNCHANGED <<length, writer, queue, body, flight, received>>

Accept ==
    /\ server = "reading" /\ body = "ended" /\ flight = 0
    /\ Result(Kind(201))
    /\ server' = "answered"
    /\ stored' = IF received = length THEN "whole" ELSE "torn"
    /\ UNCHANGED <<length, writer, queue, body, flight, received>>

(* The client loses the connection.                                        *)
Break ==
    /\ task = "running" /\ server = "reading"
    /\ Result("unexpected")
    /\ UNCHANGED <<length, writer, queue, body, flight, remote>>

(* The server loses it, in the middle of a body.                           *)
Lose ==
    /\ server = "reading" /\ task # "running"
    /\ server' = "lost"
    /\ stored' \in {stored, "torn"}
    /\ UNCHANGED <<length, writer, queue, task, body, flight, received>>

-----------------------------------------------------------------------------
Next ==
    \/ Write \/ Send \/ Close \/ Response \/ GiveUp
    \/ Abort \/ Awaited \/ Interrupt \/ Drop \/ TaskStops
    \/ Pull \/ Cut \/ Read \/ Refuse \/ Accept \/ Break \/ Lose

Spec == Init /\ [][Next]_vars

(* The caller goes on, the runtime gets to the task, the client pulls, the *)
(* server reads and answers.                                               *)
Fairness ==
    /\ WF_vars(Write \/ Send \/ Close \/ Response \/ Abort \/ Awaited \/ Drop)
    /\ WF_vars(TaskStops)
    /\ WF_vars(Pull \/ Cut) /\ WF_vars(Read) /\ WF_vars(Accept)

-----------------------------------------------------------------------------
(* Properties.                                                             *)

TypeOK ==
    /\ length \in 0 .. MaxLength
    /\ caller \in {"idle", "writing", "answer", "closing", "aborting", "stopping", "dropping"}
                   \cup Ended
    /\ buffer \in 0 .. MaxBuffer /\ left \in 0 .. buffer
    /\ written \in Nat /\ sender \in BOOLEAN /\ queue \in 0 .. 1
    /\ task \in Kinds \cup {"running", "aborting", "aborted", "taken"}
    /\ body \in {"open", "ended", "broken"}
    /\ flight \in Nat /\ received \in Nat
    /\ server \in {"reading", "answered", "lost"}
    /\ stored \in {"old", "torn", "whole"}

(* A body ends only when the sender is gone and the channel is empty, and  *)
(* as long as it has not broken off every chunk handed over is in the      *)
(* channel, on the wire or with the server.                                *)
BodyInv ==
    /\ caller \in {"idle", "writing", "answer"} => sender
    /\ body = "ended" => ~sender /\ queue = 0
    /\ body = "broken" => task # "running"
    /\ body # "broken" /\ caller \in {"idle", "closing"} =>
          received + flight + queue = written
    /\ body # "broken" /\ caller = "writing" =>
          received + flight + queue = written + (buffer - left)
    /\ caller = "closing" => written = length

(* The answer is the server's last word.                                   *)
AnswerInv ==
    /\ task = "ok" => body = "ended" /\ server = "answered"
    /\ caller = "closing" /\ task = "ok" => stored = "whole"
    /\ caller = "done" => stored = "whole" /\ server = "answered"

(* No chunk is lost or counted twice between the caller and the server,    *)
(* however writes, early answers and broken connections interleave, and an *)
(* answer is believed only when the whole file is with the server.         *)
StreamInv == TypeOK /\ BodyInv /\ AnswerInv

Promise ==
    INSTANCE Sink WITH
        target <- stored,
        outcome <- IF caller \in Ended THEN caller ELSE "open"

(* The stream keeps the promise of Sink: success is reported only when the *)
(* server has the whole file, and the late end of an aborted or dropped    *)
(* body, which a server may take for a complete one, never follows it.     *)
ImplementsSink == Promise!Spec

(* write and close always return: the full channel, the body that waits    *)
(* for the sender and the answer that waits for the body do not wait for   *)
(* each other in a circle.                                                 *)
EveryWriteEnds ==
    /\ (caller = "writing") ~> (caller # "writing")
    /\ (caller = "closing") ~> (caller # "closing")
=============================================================================
