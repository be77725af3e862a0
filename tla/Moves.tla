--------------------------------- MODULE Moves ---------------------------------
(***************************************************************************)
(* The calls that change files (backend/src/operations.rs: rename, copy,   *)
(* write, createDirectory and delete, with move_or_copy, copy_file and     *)
(* rename_directory, and the outcome Session::execute reports).            *)
(*                                                                         *)
(* A remote that cannot rename a file has it copied and deleted; a remote  *)
(* that cannot copy has it streamed through the plugin; a directory is     *)
(* always copied file by file and then deleted.  Every request to the      *)
(* remote can fail, applied or not, and every call can be cut short.       *)
(* Calls of one connection are serialized by its mutations lock; another   *)
(* client of the remote may create a file at any time.                     *)
(***************************************************************************)
CONSTANTS
    Movers,    \* calls of one connection that change files
    Dirs,      \* directories of the remote
    Home,      \* the one that has files in the beginning
    Names,     \* file names
    Absent,    \* no file
    Torn,      \* a file a stream did not finish
    Foreign,   \* the file of another client
    Written,   \* what filesystem/write writes
    Nobody     \* the mutations lock is free

MovesAssumption ==
    /\ Home \in Dirs
    /\ Names \cap {Absent, Torn, Foreign, Written} = {}
    /\ Absent \notin {Torn, Foreign, Written} /\ Torn \notin {Foreign, Written}
    /\ Foreign # Written
    /\ Nobody \notin Movers

(* Original contents are called by the name they had first.                *)
Contents == Names
Files == Contents \cup {Absent, Torn, Foreign, Written}

(* A whole directory, or one file: from one directory to another, or where *)
(* it is.                                                                  *)
Moving == {"rename", "copy"}
Jobs == {j \in [method : Moving \cup {"write", "mkdir", "delete"}, whole : BOOLEAN,
                from : Dirs, to : Dirs, names : (SUBSET Names) \ {{}}, overwrite : BOOLEAN] :
            /\ j.from # j.to <=> j.method \in Moving
            /\ IF j.whole THEN j.names = Names /\ ~j.overwrite
               ELSE \E n \in Names : j.names = {n}
            /\ j.method = "write" => ~j.whole
            /\ j.method = "mkdir" => j.whole
            /\ j.method = "delete" => ~j.overwrite}
Over == [method |-> "none", whole |-> FALSE, from |-> Home, to |-> Home, names |-> {},
         overwrite |-> FALSE]

VARIABLES
    renames,    \* whether the remote renames files
    copies,     \* whether it copies them
    store,      \* directory -> name -> file
    dirs,       \* directories that exist by themselves
    mutations,  \* holder of the connection's mutations lock
    before,     \* the remote when the holder of the lock took it
    pc,
    job,        \* what a call is asked for, until it is over
    todo,       \* listed files not copied yet
    result      \* what a call is about to report

remote == <<renames, copies>>
vars == <<remote, store, dirs, mutations, before, pc, job, todo, result>>

(* From the first request to the return.                                   *)
Inside == {"look", "mkdir", "list", "copy", "stream", "rename", "erase", "write", "delete",
           "report"}
Results == {"none", "done", "refused", "failed", "partial", "interrupted"}

(* Every call is where its lock says, and nothing outside of the values.   *)
TypeOK ==
    /\ renames \in BOOLEAN /\ copies \in BOOLEAN
    /\ store \in [Dirs -> [Names -> Files]]
    /\ before \in [Dirs -> [Names -> Files]]
    /\ dirs \subseteq Dirs
    /\ mutations \in Movers \cup {Nobody}
    /\ pc \in [Movers -> Inside \cup {"queued", "over"}]
    /\ \A m \in Movers : pc[m] \in Inside <=> mutations = m
    /\ job \in [Movers -> Jobs \cup {Over}]
    /\ todo \in [Movers -> SUBSET Names]
    /\ result \in [Movers -> Results]

Clean == [d \in Dirs |-> [n \in Names |-> IF d = Home THEN n ELSE Absent]]

Init ==
    /\ renames \in BOOLEAN /\ copies \in BOOLEAN
    /\ store = Clean /\ before = Clean
    /\ dirs = {Home}
    /\ mutations = Nobody
    /\ pc = [m \in Movers |-> "queued"]
    /\ job \in [Movers -> Jobs]
    /\ todo = [m \in Movers |-> {}]
    /\ result = [m \in Movers |-> "none"]

-----------------------------------------------------------------------------
Present(d, n) == store[d][n] # Absent
Exists(d) == d \in dirs \/ \E n \in Names : Present(d, n)

Goto(m, place) == pc' = [pc EXCEPT ![m] = place]

Report(m, outcome) ==
    /\ Goto(m, "report")
    /\ result' = [result EXCEPT ![m] = outcome]

End(m) ==
    /\ Goto(m, "over")
    /\ job' = [job EXCEPT ![m] = Over]
    /\ todo' = [todo EXCEPT ![m] = {}] /\ result' = [result EXCEPT ![m] = "none"]

(* Mutant of Failure: the error of the failing request is passed on.       *)
FailurePlain(m) == "failed"

(* What an error after the first tests is reported as.                     *)
Failure(m) ==
    IF job[m].method = "rename" /\ (job[m].whole \/ pc[m] = "erase")
    THEN "partial" ELSE "failed"

Put(d, n, file) == store' = [store EXCEPT ![d][n] = file]

(* Mutant of Lock: calls of one connection do not wait for each other.     *)
LockUnserialized(m) ==
    /\ pc[m] = "queued"
    /\ mutations' = m
    /\ before' = store
    /\ Goto(m, "look")
    /\ UNCHANGED <<remote, store, dirs, job, todo, result>>

Lock(m) ==
    /\ pc[m] = "queued" /\ mutations = Nobody
    /\ mutations' = m
    /\ before' = store
    /\ Goto(m, "look")
    /\ UNCHANGED <<remote, store, dirs, job, todo, result>>

(* The tests of the source and of the destination, which change nothing.   *)
Taken(j) == \E n \in j.names : Present(j.to, n) /\ ~j.overwrite
Gone(j) == \E n \in j.names : ~Present(j.from, n)

Refused(j) ==
    CASE j.method = "copy"   -> j.whole \/ Gone(j) \/ Taken(j)
      [] j.method = "rename" -> IF j.whole THEN ~Exists(j.from) \/ Exists(j.to)
                                ELSE Gone(j) \/ Taken(j)
      [] j.method = "write"  -> Taken(j)
      [] j.method = "mkdir"  -> Exists(j.to)
      [] j.method = "delete" -> IF j.whole THEN j.from \notin dirs \/ \E n \in Names : Present(j.from, n)
                                ELSE Gone(j)

(* The first request after the tests.                                      *)
Start(j) ==
    CASE j.method \in {"write", "mkdir", "delete"} -> j.method
      [] j.method \in Moving /\ j.whole -> "mkdir"
      [] j.method = "rename" /\ ~j.whole /\ renames -> "rename"
      [] OTHER -> "copy"

(* A write may also be refused for its etag, or because it is not to       *)
(* create a file.                                                          *)
Look(m) ==
    /\ pc[m] = "look"
    /\ \/ (Refused(job[m]) \/ job[m].method = "write") /\ Report(m, "refused")
       \/ Report(m, "failed")
       \/ ~Refused(job[m]) /\ Goto(m, Start(job[m])) /\ UNCHANGED result
    /\ todo' = [todo EXCEPT ![m] = job[m].names]
    /\ UNCHANGED <<remote, store, dirs, mutations, before, job>>

-----------------------------------------------------------------------------
(* A directory: create the target, list the source, copy, delete; or       *)
(* create it and no more.                                                  *)

Mkdir(m) ==
    /\ pc[m] = "mkdir"
    /\ \/ /\ dirs' = dirs \cup {job[m].to}
          /\ IF job[m].method = "mkdir" THEN Report(m, "done") ELSE Goto(m, "list") /\ UNCHANGED result
       \/ dirs' \in {dirs, dirs \cup {job[m].to}} /\ Report(m, Failure(m))
    /\ UNCHANGED <<remote, store, mutations, before, job, todo>>

(* The recursive listing is not told of a file that appears meanwhile.     *)
List(m) ==
    /\ pc[m] = "list"
    /\ \/ /\ todo' = [todo EXCEPT ![m] = {n \in Names : Present(job[m].from, n)}]
          /\ Goto(m, IF todo'[m] = {} THEN "erase" ELSE "copy")
          /\ UNCHANGED result
       \/ Report(m, Failure(m)) /\ UNCHANGED todo
    /\ UNCHANGED <<remote, store, dirs, mutations, before, job>>

(* The next file, when the last one is complete.                           *)
Copied(m, n) ==
    /\ todo' = [todo EXCEPT ![m] = @ \ {n}]
    /\ IF job[m].method = "rename"
       THEN Goto(m, IF todo[m] = {n} THEN "erase" ELSE "copy") /\ UNCHANGED result
       ELSE Report(m, "done")

(* The destination of one file.  What another client creates there right   *)
(* after the test may be overwritten.                                      *)
Free(j, n) == store[j.to][n] \in {Absent, Foreign} \/ j.overwrite

(* Mutant of Copy: an error of the copy is not looked at.                  *)
CopyUnchecked(m) ==
    LET j == job[m] IN
    /\ pc[m] = "copy"
    /\ \E n \in todo[m] :
          /\ copies /\ Present(j.from, n)
          /\ store' \in {store, [store EXCEPT ![j.to][n] = store[j.from][n]]}
          /\ Copied(m, n)
    /\ UNCHANGED <<remote, dirs, mutations, before, job>>

(* copy_file: the destination is tested again for each file of a directory *)
(* and the remote copies, or a stream begins.                              *)
Copy(m) ==
    LET j == job[m] IN
    /\ pc[m] = "copy"
    /\ \E n \in todo[m] :
          \/ /\ Present(j.from, n) /\ Free(j, n)
             /\ \/ copies /\ Put(j.to, n, store[j.from][n]) /\ Copied(m, n)
                \/ ~copies /\ Put(j.to, n, Torn) /\ Goto(m, "stream") /\ UNCHANGED <<result, todo>>
          \/ /\ copies /\ Present(j.from, n) /\ Free(j, n)
             /\ Put(j.to, n, store[j.from][n])
             /\ Report(m, Failure(m)) /\ UNCHANGED todo
          \/ UNCHANGED <<store, todo>> /\ Report(m, Failure(m))
    /\ UNCHANGED <<remote, dirs, mutations, before, job>>

(* The stream ends; after an error its writer is aborted, which may or may *)
(* not remove what was written.                                            *)
Stream(m) ==
    LET j == job[m] IN
    /\ pc[m] = "stream"
    /\ \E n \in {x \in todo[m] : store[j.to][x] = Torn} :
          \/ Present(j.from, n) /\ Put(j.to, n, store[j.from][n]) /\ Copied(m, n)
          \/ /\ \E left \in {Absent, Torn, store[j.from][n]} : Put(j.to, n, left)
             /\ Report(m, Failure(m)) /\ UNCHANGED todo
    /\ UNCHANGED <<remote, dirs, mutations, before, job>>

(* The delete of the source: one file, or all that a directory holds, one  *)
(* after the other.                                                        *)
Erase(m) ==
    LET j == job[m]
        left == {n \in j.names : Present(j.from, n)} IN
    /\ pc[m] = "erase"
    /\ \/ /\ \E n \in left : Put(j.from, n, Absent)
          /\ \/ UNCHANGED <<pc, result>>
             \/ Report(m, Failure(m))
          /\ UNCHANGED dirs
       \/ /\ left = {}
          /\ dirs' = IF j.whole THEN dirs \ {j.from} ELSE dirs
          /\ Report(m, "done")
          /\ UNCHANGED store
       \/ UNCHANGED <<store, dirs>> /\ Report(m, Failure(m))
    /\ UNCHANGED <<remote, mutations, before, job, todo>>

(* The remote renames a file.                                              *)
Rename(m) ==
    LET j == job[m] IN
    /\ pc[m] = "rename"
    /\ \E n \in j.names :
          \/ /\ Present(j.from, n)
             /\ store' = [store EXCEPT ![j.to][n] = store[j.from][n], ![j.from][n] = Absent]
             /\ Report(m, "done") \/ Report(m, Failure(m))
          \/ UNCHANGED store /\ Report(m, Failure(m))
    /\ UNCHANGED <<remote, dirs, mutations, before, job, todo>>

(* The content of a file at once, or less of it when that fails.           *)
Write(m) ==
    LET j == job[m] IN
    /\ pc[m] = "write"
    /\ \E n \in j.names :
          \/ Free(j, n) /\ Put(j.to, n, Written) /\ Report(m, "done")
          \/ Free(j, n) /\ Put(j.to, n, Torn) /\ Report(m, Failure(m))
          \/ UNCHANGED store /\ Report(m, Failure(m))
    /\ UNCHANGED <<remote, dirs, mutations, before, job, todo>>

(* One file, or a directory that was empty: some remotes delete what has   *)
(* been put into it since.                                                 *)
Delete(m) ==
    LET j == job[m] IN
    /\ pc[m] = "delete"
    /\ \/ /\ store' = [store EXCEPT ![j.from] = [n \in Names |-> IF n \in j.names THEN Absent ELSE @[n]]]
          /\ dirs' = IF j.whole THEN dirs \ {j.from} ELSE dirs
          /\ Report(m, "done") \/ Report(m, Failure(m))
       \/ UNCHANGED <<store, dirs>> /\ Report(m, Failure(m))
    /\ UNCHANGED <<remote, mutations, before, job, todo>>

-----------------------------------------------------------------------------
(* The call is cancelled with its session, or meets its deadline.  A       *)
(* request under way may have been applied: each of the steps above has an *)
(* error that says so, and the caller of this one is told the same as if   *)
(* its answer had been lost.                                               *)
Interrupt(m) ==
    \/ /\ pc[m] \in Inside \ {"report"}
       /\ Report(m, "interrupted")
       /\ UNCHANGED <<remote, store, dirs, mutations, before, job, todo>>
    \/ /\ pc[m] = "queued"
       /\ End(m)
       /\ UNCHANGED <<remote, store, dirs, mutations, before>>

(* Mutant of Return: the lock is forgotten.                                *)
ReturnLocked(m) ==
    /\ pc[m] = "report"
    /\ End(m)
    /\ before' = Clean
    /\ UNCHANGED <<remote, store, dirs, mutations>>

(* The call returns and drops the lock.                                    *)
Return(m) ==
    /\ pc[m] = "report"
    /\ mutations' = Nobody
    /\ End(m)
    /\ before' = Clean
    /\ UNCHANGED <<remote, store, dirs>>

(* Another client of the remote creates a file (one, as a bound).          *)
Outsider ==
    /\ \A d \in Dirs, n \in Names : store[d][n] # Foreign
    /\ \E d \in Dirs, n \in Names : ~Present(d, n) /\ Put(d, n, Foreign)
    /\ UNCHANGED <<remote, dirs, mutations, before, pc, job, todo, result>>

Next ==
    \/ Outsider
    \/ \E m \in Movers :
          \/ Lock(m) \/ Look(m) \/ Mkdir(m) \/ List(m) \/ Copy(m) \/ Stream(m)
          \/ Erase(m) \/ Rename(m) \/ Write(m) \/ Delete(m) \/ Interrupt(m) \/ Return(m)

Spec == Init /\ [][Next]_vars

-----------------------------------------------------------------------------
(* Properties.                                                             *)

Somewhere(c) == \E d \in Dirs, n \in Names : store[d][n] = c

(* A step that makes a content disappear is the overwrite of a target, or  *)
(* the delete of a file, that its caller asked for: no interruption,       *)
(* failure or sequence of calls erases the only complete copy ("never      *)
(* erase source before every copy succeeds", the comment in                *)
(* rename_directory), and no directory is deleted with a file of this      *)
(* connection in it.                                                       *)
LossIsAsked ==
    \A c \in Contents : Somewhere(c) /\ ~Somewhere(c)' =>
        \E m \in Movers :
            /\ pc[m] \in Inside
            /\ job[m].overwrite \/ (job[m].method = "delete" /\ ~job[m].whole)
            /\ \E n \in job[m].names : store[job[m].to][n] = c

Kept(d) == \A n \in Names : before[d][n] # Absent => store[d][n] = before[d][n]

(* What the outcome says is true when it is reported.  A refusal has       *)
(* changed nothing.  The error of a move without the advice to inspect     *)
(* both locations, other than of a native rename, leaves the source        *)
(* complete.  Success leaves at the target what was at the source, or what *)
(* was written, and what was deleted is gone.                              *)
ReportsAreHonest ==
    \A m \in Movers : pc[m] = "report" =>
        LET j == job[m] IN
        /\ result[m] = "refused" => Kept(j.from) /\ Kept(j.to)
        /\ result[m] = "failed" /\ j.method \in Moving /\ ~(renames /\ j.method = "rename") =>
              Kept(j.from)
        /\ result[m] = "done" =>
              \A n \in j.names :
                 /\ j.method \in Moving /\ before[j.from][n] # Absent =>
                       store[j.to][n] = before[j.from][n]
                 /\ j.method = "write" => store[j.to][n] = Written
                 /\ j.method = "delete" => store[j.from][n] \in {Absent, Foreign}

(* Nothing is outside of its values, the calls are where their lock says,  *)
(* and what they report is true.                                           *)
CallsAreHonest == TypeOK /\ ReportsAreHonest
=============================================================================
