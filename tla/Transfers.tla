------------------------------- MODULE Transfers -------------------------------
(***************************************************************************)
(* The table of transfers and the downloads in it (backend/src/transfer.rs,*)
(* Transfers::start and query, Task::finish, download_file).               *)
(*                                                                         *)
(* start prunes the table, refuses when too many transfers are active,     *)
(* makes room and inserts, all under the lock of the table; transfers end  *)
(* without that lock.  A download writes a temporary file beside its       *)
(* destination and publishes it by one rename that nothing interrupts.     *)
(* Permits and slots are the subject of Slots, uploads that of Upload.     *)
(***************************************************************************)
EXTENDS Naturals, Sequences, FiniteSets

CONSTANTS
    Tasks,       \* downloads of one remote file to one local path
    Overwrites,  \* those started with overwrite
    MaxTasks,    \* 512 in the code
    MaxActive,   \* 256 in the code
    MaxSize,     \* the longest the remote file gets, in buffers
    Unknown,     \* the size of a file on a remote without stat
    Nobody       \* the lock of the table is free

ASSUME TransfersAssumption ==
    /\ IsFiniteSet(Tasks)
    /\ Overwrites \subseteq Tasks
    /\ MaxTasks \in Nat /\ MaxActive \in Nat /\ MaxActive <= MaxTasks
    /\ MaxSize \in Nat
    /\ Unknown \notin Nat
    /\ Nobody \notin Tasks
    /\ Tasks \cap {"none", "old"} = {}

VARIABLES
    table,      \* the transfers that list, status and cancel know
    created,    \* transfers in the order of their creation
    admitting,  \* who holds the lock of the table
    pc,         \* where each transfer is
    state,      \* the state of its snapshot; none before it is in the table
    cancel,     \* transfers whose token is cancelled, by itself or its session
    source,     \* the size of the remote file
    sized,      \* whether the remote tells it
    local,      \* what is at the destination
    total,      \* the size each transfer was told
    bytes,      \* what it has written
    temp,       \* transfers whose temporary file exists
    visible,    \* transfers whose file was at the destination
    outcome     \* how each transfer ended

lists == <<table, created, admitting>>
places == <<source, sized, local>>
work == <<total, bytes, temp, visible>>
vars == <<lists, pc, state, cancel, places, work, outcome>>

Admission == {"arrive", "count", "evict", "insert"}
Downloading == {"stat", "look", "read", "sync", "publish"}
Working == Downloading \cup {"queued", "finish"}
Places == Admission \cup Working \cup {"idle", "refused", "ended"}
Outcomes == {"none", "completed", "cancelled", "failed", "cleanup_failed"}
Sizes == 0 .. MaxSize

TypeOK ==
    /\ table \subseteq Tasks
    /\ created \in Seq(Tasks)
    /\ admitting \in Tasks \cup {Nobody}
    /\ pc \in [Tasks -> Places]
    /\ state \in [Tasks -> {"none", "queued", "running", "completed", "failed", "cancelled"}]
    /\ cancel \subseteq Tasks
    /\ source \in Sizes /\ sized \in BOOLEAN
    /\ local \in {"none", "old"} \cup Tasks
    /\ total \in [Tasks -> Sizes \cup {Unknown}]
    /\ bytes \in [Tasks -> Sizes]
    /\ temp \subseteq Tasks /\ visible \subseteq Tasks
    /\ outcome \in [Tasks -> Outcomes]

Init ==
    /\ table = {} /\ created = <<>> /\ admitting = Nobody
    /\ pc = [t \in Tasks |-> "idle"]
    /\ state = [t \in Tasks |-> "none"]
    /\ cancel = {}
    /\ source \in Sizes /\ sized \in BOOLEAN
    /\ local \in {"none", "old"}
    /\ total = [t \in Tasks |-> Unknown]
    /\ bytes = [t \in Tasks |-> 0]
    /\ temp = {} /\ visible = {}
    /\ outcome = [t \in Tasks |-> "none"]

Goto(t, place) == pc' = [pc EXCEPT ![t] = place]
Active(t) == state[t] \in {"queued", "running"}
Terminal(t) == state[t] \in {"completed", "failed", "cancelled"}

-----------------------------------------------------------------------------
(* Transfers::start.  The task is created, with its time, before the lock. *)
Begin(t) ==
    /\ pc[t] = "idle" /\ t \notin cancel
    /\ created' = Append(created, t)
    /\ Goto(t, "arrive")
    /\ UNCHANGED <<table, admitting, state, cancel, places, work, outcome>>

(* Those of the first n that were created; the clock is left out.          *)
Oldest(n) == {created[i] : i \in 1 .. n}

(* Mutant of Prune: what is old enough leaves, active or not.              *)
PruneByAge(t) ==
    /\ pc[t] = "arrive" /\ admitting = Nobody
    /\ admitting' = t
    /\ \E n \in 0 .. Len(created) : table' = table \ Oldest(n)
    /\ Goto(t, "count")
    /\ UNCHANGED <<created, state, cancel, places, work, outcome>>

(* Under the lock of the table: the ended ones that were created more than *)
(* ten minutes ago leave, however many these are (all seen at one moment:  *)
(* one that ends while retain walks over them may stay for the next start).*)
Prune(t) ==
    /\ pc[t] = "arrive" /\ admitting = Nobody
    /\ admitting' = t
    /\ \E n \in 0 .. Len(created) :
          table' = {u \in table : Terminal(u) => u \notin Oldest(n)}
    /\ Goto(t, "count")
    /\ UNCHANGED <<created, state, cancel, places, work, outcome>>

Full == Cardinality({u \in table : Active(u)}) >= MaxActive

Count(t) ==
    /\ pc[t] = "count"
    /\ \/ ~Full /\ Goto(t, "evict") /\ UNCHANGED admitting
       \/ Full /\ Goto(t, "refused") /\ admitting' = Nobody
    /\ UNCHANGED <<table, created, state, cancel, places, work, outcome>>

Before(t, u) == \E i, k \in 1 .. Len(created) : i <= k /\ created[i] = t /\ created[k] = u

(* The ended transfer that was created first.                              *)
First(t) == t \in table /\ Terminal(t) /\ \A u \in table : Terminal(u) => Before(t, u)

(* Mutant of Evict: the check that the table is full is off by one.        *)
EvictLate(t) ==
    /\ pc[t] = "evict"
    /\ \/ /\ Cardinality(table) > MaxTasks
          /\ \E u \in table : First(u) /\ table' = table \ {u}
       \/ /\ Cardinality(table) <= MaxTasks \/ \A u \in table : ~Terminal(u)
          /\ UNCHANGED table
    /\ Goto(t, "insert")
    /\ UNCHANGED <<created, admitting, state, cancel, places, work, outcome>>

Evict(t) ==
    /\ pc[t] = "evict"
    /\ \/ /\ Cardinality(table) >= MaxTasks
          /\ \E u \in table : First(u) /\ table' = table \ {u}
       \/ /\ Cardinality(table) < MaxTasks \/ \A u \in table : ~Terminal(u)
          /\ UNCHANGED table
    /\ Goto(t, "insert")
    /\ UNCHANGED <<created, admitting, state, cancel, places, work, outcome>>

(* The task is inserted, the lock released and the work spawned.           *)
Insert(t) ==
    /\ pc[t] = "insert"
    /\ table' = table \cup {t}
    /\ admitting' = Nobody
    /\ state' = [state EXCEPT ![t] = "queued"]
    /\ Goto(t, "queued")
    /\ UNCHANGED <<created, cancel, places, work, outcome>>

(* transfer/cancel looks the transfer up under the lock and cancels it     *)
(* unless it has ended.                                                    *)
Cancel(t) ==
    /\ admitting = Nobody
    /\ t \in table /\ ~Terminal(t)
    /\ cancel' = cancel \cup {t}
    /\ UNCHANGED <<lists, pc, state, places, work, outcome>>

(* The session of the transfers is cancelled, and the tokens of all its    *)
(* transfers with it, of those too that are being started; no other starts.*)
Close ==
    /\ cancel' = {t \in Tasks : pc[t] \notin {"ended", "refused"}}
    /\ UNCHANGED <<lists, pc, state, places, work, outcome>>

-----------------------------------------------------------------------------
(* The spawned work, from the moment it has its permit and its slot.       *)

(* A result before there is a temporary file.                              *)
End(t, result) ==
    /\ outcome' = [outcome EXCEPT ![t] = result]
    /\ Goto(t, "finish")

(* Mutant of Fail: the cause is reported, not the file left behind.        *)
FailQuietly(t, code) ==
    /\ Goto(t, "finish")
    /\ temp' \in {temp, temp \ {t}}
    /\ outcome' = [outcome EXCEPT ![t] = code]

(* An error after it: the file is removed, or this fails too.              *)
Fail(t, code) ==
    /\ Goto(t, "finish")
    /\ \/ temp' = temp \ {t} /\ outcome' = [outcome EXCEPT ![t] = code]
       \/ UNCHANGED temp /\ outcome' = [outcome EXCEPT ![t] = "cleanup_failed"]

Run(t) ==
    /\ pc[t] = "queued" /\ t \notin cancel
    /\ state' = [state EXCEPT ![t] = "running"]
    /\ Goto(t, "stat")
    /\ UNCHANGED <<lists, cancel, places, work, outcome>>

(* The size, if the remote tells it; or an error.                          *)
Stat(t) ==
    /\ pc[t] = "stat" /\ t \notin cancel
    /\ \/ /\ total' = [total EXCEPT ![t] = IF sized THEN source ELSE Unknown]
          /\ Goto(t, "look") /\ UNCHANGED outcome
       \/ End(t, "failed") /\ UNCHANGED total
    /\ UNCHANGED <<lists, state, cancel, places, bytes, temp, visible>>

(* An early look at the destination: whatever it finds may have changed by *)
(* the time of the publication.  Then a temporary file is created, and     *)
(* opened again for writing; if that fails it is dropped, removed or not.  *)
Look(t) ==
    /\ pc[t] = "look" /\ t \notin cancel
    /\ \/ /\ local = "none" \/ t \in Overwrites
          /\ temp' = temp \cup {t}
          /\ Goto(t, "read") /\ UNCHANGED outcome
       \/ temp' \in {temp, temp \cup {t}} /\ End(t, "failed")
    /\ UNCHANGED <<lists, state, cancel, places, total, bytes, visible>>

(* The next buffer is read and written, or the file ends, or either fails. *)
Read(t) ==
    /\ pc[t] = "read" /\ t \notin cancel
    /\ \/ /\ bytes[t] < source
          /\ total[t] # Unknown => bytes[t] < total[t]
          /\ bytes' = [bytes EXCEPT ![t] = @ + 1]
          /\ UNCHANGED <<pc, temp, outcome>>
       \/ bytes[t] >= source /\ Goto(t, "sync") /\ UNCHANGED <<bytes, temp, outcome>>
       \/ Fail(t, "failed") /\ UNCHANGED bytes
    /\ UNCHANGED <<lists, state, cancel, places, total, visible>>

(* Mutant of Sync: a source that shrank goes unnoticed.                    *)
SyncUnchecked(t) ==
    /\ pc[t] = "sync"
    /\ \/ t \notin cancel /\ Goto(t, "publish") /\ UNCHANGED <<temp, outcome>>
       \/ t \in cancel /\ Fail(t, "cancelled")
       \/ Fail(t, "failed")
    /\ UNCHANGED <<lists, state, cancel, places, total, bytes, visible>>

(* Flushed and synchronized; the size and the token are tested once more.  *)
Sync(t) ==
    /\ pc[t] = "sync"
    /\ \/ /\ total[t] # Unknown => bytes[t] = total[t]
          /\ t \notin cancel
          /\ Goto(t, "publish") /\ UNCHANGED <<temp, outcome>>
       \/ /\ total[t] # Unknown => bytes[t] = total[t]
          /\ t \in cancel
          /\ Fail(t, "cancelled")
       \/ Fail(t, "failed")
    /\ UNCHANGED <<lists, state, cancel, places, total, bytes, visible>>

(* One rename; without overwrite one that replaces nothing, which the      *)
(* tempfile library does in a single step (persist_noclobber).             *)
Publish(t) ==
    /\ pc[t] = "publish"
    /\ \/ /\ local = "none" \/ t \in Overwrites
          /\ local' = t
          /\ temp' = temp \ {t} /\ visible' = visible \cup {t}
          /\ End(t, "completed")
       \/ Fail(t, "failed") /\ UNCHANGED <<local, visible>>
    /\ UNCHANGED <<lists, state, cancel, source, sized, total, bytes>>

(* Control::run and Control::check: cancellation, or the deadline.  A      *)
(* download that waits for its permit also fails when its session closes.  *)
Interrupt(t) ==
    LET code == IF t \in cancel THEN "cancelled" ELSE "failed" IN
    /\ \/ pc[t] \in {"queued", "stat", "look"} /\ End(t, code) /\ UNCHANGED temp
       \/ pc[t] = "read" /\ Fail(t, code)
    /\ UNCHANGED <<lists, state, cancel, places, total, bytes, visible>>

(* Task::finish, without the lock of the table.  The work is over, and what *)
(* is left of it is in the report.                                         *)
Finish(t) ==
    /\ pc[t] = "finish"
    /\ state' = [state EXCEPT ![t] = IF outcome[t] = "cleanup_failed" THEN "failed"
                                     ELSE outcome[t]]
    /\ Goto(t, "ended")
    /\ cancel' = cancel \ {t}
    /\ total' = [total EXCEPT ![t] = Unknown]
    /\ bytes' = [bytes EXCEPT ![t] = 0]
    /\ temp' = temp \ {t} /\ visible' = visible \ {t}
    /\ outcome' = [outcome EXCEPT ![t] = "none"]
    /\ UNCHANGED <<lists, places>>

(* Other programs, here and on the remote.                                 *)
Outsider ==
    /\ \/ local' \in {"none", "old"} /\ UNCHANGED source
       \/ source' \in Sizes /\ UNCHANGED local
    /\ UNCHANGED <<lists, pc, state, cancel, sized, work, outcome>>

Next ==
    \/ Close \/ Outsider
    \/ \E t \in Tasks :
          \/ Begin(t) \/ Prune(t) \/ Count(t) \/ Evict(t) \/ Insert(t) \/ Cancel(t)
          \/ Run(t) \/ Stat(t) \/ Look(t) \/ Read(t) \/ Sync(t) \/ Publish(t)
          \/ Interrupt(t) \/ Finish(t)

Spec == Init /\ [][Next]_vars

-----------------------------------------------------------------------------
(* Properties.                                                             *)

Actives == {t \in Tasks : Active(t)}

(* The lock is held by the one that is being admitted, and the snapshot    *)
(* says whether a transfer is at work.                                     *)
LockInv ==
    \A t \in Tasks :
        /\ pc[t] \in {"count", "evict", "insert"} <=> admitting = t
        /\ pc[t] \in Admission \cup {"idle", "refused"} <=> state[t] = "none"
        /\ pc[t] \in Working <=> Active(t)

(* Who comes to the end has a result.                                      *)
ResultInv ==
    \A t \in Tasks : pc[t] = "finish" => outcome[t] # "none"

(* While a transfer is being admitted the table has room for it.           *)
RoomInv ==
    /\ Cardinality(table) <= MaxTasks
    /\ Cardinality(Actives) <= MaxActive
    /\ \A t \in Tasks : pc[t] \in {"evict", "insert"} => Cardinality(Actives) < MaxActive
    /\ \A t \in Tasks : pc[t] = "insert" => Cardinality(table) < MaxTasks

(* Every transfer that has not ended can be listed and cancelled, and is   *)
(* waited for by a shutdown: neither pruning nor eviction loses it.        *)
ListedInv ==
    /\ \A t \in table : state[t] # "none"
    /\ Actives \subseteq table

(* The table keeps its two limits without forgetting a transfer at work,   *)
(* while transfers end in the middle of an admission.                      *)
TableInv == TypeOK /\ LockInv /\ ResultInv /\ RoomInv /\ ListedInv

(* What a download reports is what happened to the files: the destination  *)
(* was published completely or not at all ("never report cancellation      *)
(* after the final file became visible", transfer.rs:672), and a temporary *)
(* file with content stays behind only when the report says so.            *)
ReportsAreTrue ==
    \A t \in Tasks : pc[t] = "finish" =>
        /\ outcome[t] = "completed" <=> t \in visible
        /\ t \in visible /\ total[t] # Unknown => bytes[t] = total[t]
        /\ t \in temp => outcome[t] = "cleanup_failed" \/ bytes[t] = 0
=============================================================================
