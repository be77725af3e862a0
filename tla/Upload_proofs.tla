----------------------------- MODULE Upload_proofs -----------------------------
(***************************************************************************)
(* Proofs about Upload, for every set of uploads and every size of the     *)
(* source: UploadInv is inductive, and the reports follow from it.         *)
(***************************************************************************)
EXTENDS Upload, TLAPS

USE DEF remote, destination, Goto, Leaves, End, EndEarly, Fail, Becomes

(* Whatever a publication does, it does to its own file and the target.    *)
Effect(u) ==
    /\ target' \in {target, u, "torn"}
    /\ since' = started \/ UNCHANGED destination
    /\ \A v \in Uploads : temp'[v] \in {temp[v], "none"} /\ (v # u => temp'[v] = temp[v])
    /\ temp' \in [Uploads -> {"none", "partial", "full"}]

-----------------------------------------------------------------------------
(* A queued upload has touched nothing and reported nothing.               *)
LEMMA InitEstablishes ==
    Init => UploadInv
BY UploadAssumption
   DEF Init, UploadInv, TypeOK, LockInv, ProgressInv, ReportInv, Succeeded, Early, Late,
       Locked, Places, Causes, Results

(* Every action preserves each part of the invariant.                      *)
LEMMA NextPreserves ==
    UploadInv /\ [Next]_vars => UploadInv'
<1> SUFFICES ASSUME UploadInv, [Next]_vars PROVE UploadInv'
  OBVIOUS
<1> USE UploadAssumption
<1>1. ASSUME NEW u \in Uploads, Begin(u) PROVE UploadInv'
  <2>1. TypeOK'
    BY <1>1 DEF Begin, UploadInv, TypeOK, Places, Causes, Results
  <2>2. LockInv'
    BY <1>1 DEF Begin, UploadInv, TypeOK, LockInv, Locked, Places
  <2>3. ProgressInv'
    BY <1>1 DEF Begin, UploadInv, TypeOK, LockInv, ProgressInv, Succeeded, Blamed, Arrived, Early, Late,
       Locked
  <2>4. ReportInv'
    BY <1>1 DEF Begin, UploadInv, TypeOK, ProgressInv, ReportInv
  <2> QED
    BY <2>1, <2>2, <2>3, <2>4 DEF UploadInv
<1>2. ASSUME NEW u \in Uploads, Check(u) PROVE UploadInv'
  <2>1. TypeOK'
    BY <1>2 DEF Check, Refused, UploadInv, TypeOK, Places, Causes, Results
  <2>2. LockInv'
    BY <1>2 DEF Check, Refused, UploadInv, TypeOK, LockInv, Locked, Places
  <2>3. ProgressInv'
    BY <1>2 DEF Check, Refused, UploadInv, TypeOK, LockInv, ProgressInv, Succeeded, Blamed, Arrived,
       Early, Late, Locked
  <2>4. ReportInv'
    BY <1>2 DEF Check, Refused, UploadInv, TypeOK, ProgressInv, ReportInv, Early, Late
  <2> QED
    BY <2>1, <2>2, <2>3, <2>4 DEF UploadInv
<1>3. ASSUME NEW u \in Uploads, Open(u) PROVE UploadInv'
  <2>1. TypeOK'
    BY <1>3 DEF Open, UploadInv, TypeOK, Places, Causes, Results
  <2>2. LockInv'
    BY <1>3 DEF Open, UploadInv, TypeOK, LockInv, Locked, Places
  <2>3. ProgressInv'
    BY <1>3 DEF Open, UploadInv, TypeOK, LockInv, ProgressInv, Succeeded, Blamed, Arrived, Early, Late,
       Locked
  <2>4. ReportInv'
    BY <1>3 DEF Open, UploadInv, TypeOK, ProgressInv, ReportInv
  <2> QED
    BY <2>1, <2>2, <2>3, <2>4 DEF UploadInv
<1>4. ASSUME NEW u \in Uploads, Send(u) PROVE UploadInv'
  <2>1. TypeOK'
    BY <1>4 DEF Send, UploadInv, TypeOK, Places, Causes, Results
  <2>2. LockInv'
    BY <1>4 DEF Send, UploadInv, TypeOK, LockInv, Locked, Places
  <2>3. ProgressInv'
    BY <1>4 DEF Send, UploadInv, TypeOK, LockInv, ProgressInv, Succeeded, Blamed, Arrived, Early, Late,
       Locked
  <2>4. ReportInv'
    BY <1>4 DEF Send, UploadInv, TypeOK, ProgressInv, ReportInv
  <2> QED
    BY <2>1, <2>2, <2>3, <2>4 DEF UploadInv
<1>5. ASSUME NEW u \in Uploads, CloseWriter(u) PROVE UploadInv'
  <2>1. TypeOK'
    BY <1>5 DEF CloseWriter, UploadInv, TypeOK, Places, Causes, Results
  <2>2. LockInv'
    BY <1>5 DEF CloseWriter, UploadInv, TypeOK, LockInv, Locked, Places
  <2>3. ProgressInv'
    BY <1>5 DEF CloseWriter, UploadInv, TypeOK, LockInv, ProgressInv, Succeeded, Blamed, Arrived, Early,
       Late, Locked
  <2>4. ReportInv'
    BY <1>5 DEF CloseWriter, UploadInv, TypeOK, ProgressInv, ReportInv
  <2> QED
    BY <2>1, <2>2, <2>3, <2>4 DEF UploadInv
<1>6. ASSUME NEW u \in Uploads, Recheck(u) PROVE UploadInv'
  <2>1. TypeOK'
    BY <1>6 DEF Recheck, Refused, UploadInv, TypeOK, Places, Causes, Results
  <2>2. LockInv'
    BY <1>6 DEF Recheck, Refused, UploadInv, TypeOK, LockInv, Locked, Places
  <2>3. ProgressInv'
    BY <1>6 DEF Recheck, Refused, UploadInv, TypeOK, LockInv, ProgressInv, Succeeded, Blamed, Arrived,
       Early, Late, Locked
  <2>4. ReportInv'
    BY <1>6 DEF Recheck, Refused, UploadInv, TypeOK, ProgressInv, ReportInv
  <2> QED
    BY <2>1, <2>2, <2>3, <2>4 DEF UploadInv
<1>7. ASSUME NEW u \in Uploads, Publish(u) PROVE UploadInv'
  <2>0. pc[u] = "publish" /\ UNCHANGED <<remote, sent, mutations, cancel, started, result>>
    BY <1>7 DEF Publish
  <2>1. PICK place \in {"clean", "abort"}, code \in {cause[u], "remote"} :
           /\ pc' = [pc EXCEPT ![u] = place]
           /\ cause' = [cause EXCEPT ![u] = code]
           /\ place = "abort" => code # "none"
           /\ lingering' = lingering \/ (place = "abort" /\ lingering' = lingering \cup {u})
    BY <1>7 DEF Publish, Undecided, UploadInv, TypeOK
  <2>2. Effect(u)
    BY <1>7 DEF Publish, Published, Undecided, Effect, UploadInv, TypeOK
  <2>3. place = "clean" => target' = u
    BY <1>7, <2>1 DEF Publish, Published, UploadInv, TypeOK
  <2>4. u \in started /\ u \notin lingering
    BY <2>0 DEF UploadInv, ProgressInv, Blamed
  <2>5. TypeOK'
    <3>1. pc' \in [Uploads -> Places] /\ cause' \in [Uploads -> Causes]
      BY <2>1 DEF UploadInv, TypeOK, Causes, Places
    <3>2. target' \in {"none", "foreign", "torn"} \cup Uploads /\ since' \subseteq Uploads
      BY <2>2 DEF UploadInv, TypeOK, Effect
    <3>3. lingering' \subseteq Uploads
      BY <2>1 DEF UploadInv, TypeOK
    <3> QED
      BY <2>0, <2>2, <3>1, <3>2, <3>3 DEF UploadInv, TypeOK, Effect
  <2>6. LockInv'
    BY <2>0, <2>1 DEF UploadInv, TypeOK, LockInv, Locked, Places
  <2>7. ProgressInv'
    BY <2>0, <2>1, <2>2, <2>3, <2>4
       DEF UploadInv, TypeOK, ProgressInv, Succeeded, Blamed, Arrived, Effect, Early, Late
  <2>8. ReportInv'
    BY <2>0, <2>1, <2>2 DEF UploadInv, TypeOK, ReportInv, Effect
  <2> QED
    BY <2>5, <2>6, <2>7, <2>8 DEF UploadInv
<1>8. ASSUME NEW u \in Uploads, Abort(u) PROVE UploadInv'
  <2>1. TypeOK'
    BY <1>8 DEF Abort, UploadInv, TypeOK, Places, Causes, Results
  <2>2. LockInv'
    BY <1>8 DEF Abort, UploadInv, TypeOK, LockInv, Locked, Places
  <2>3. ProgressInv'
    BY <1>8 DEF Abort, UploadInv, TypeOK, LockInv, ProgressInv, Succeeded, Blamed, Arrived, Early, Late,
       Locked
  <2>4. ReportInv'
    BY <1>8 DEF Abort, UploadInv, TypeOK, ProgressInv, ReportInv
  <2> QED
    BY <2>1, <2>2, <2>3, <2>4 DEF UploadInv
<1>9. ASSUME NEW u \in Uploads, Clean(u) PROVE UploadInv'
  <2>1. TypeOK'
    BY <1>9 DEF Clean, Outcome, UploadInv, TypeOK, Places, Causes, Results
  <2>2. LockInv'
    BY <1>9 DEF Clean, Outcome, UploadInv, TypeOK, LockInv, Locked, Places
  <2>3. ProgressInv'
    BY <1>9 DEF Clean, Outcome, UploadInv, TypeOK, LockInv, ProgressInv, Succeeded, Blamed, Arrived,
       Early, Late, Locked
  <2>4. ReportInv'
    BY <1>9 DEF Clean, Outcome, UploadInv, TypeOK, ProgressInv, ReportInv
  <2> QED
    BY <2>1, <2>2, <2>3, <2>4 DEF UploadInv
<1>10. ASSUME NEW u \in Uploads, RequestCancel(u) PROVE UploadInv'
  <2>1. TypeOK'
    BY <1>10 DEF RequestCancel, UploadInv, TypeOK, Places, Causes, Results
  <2>2. LockInv'
    BY <1>10 DEF RequestCancel, UploadInv, TypeOK, LockInv, Locked, Places
  <2>3. ProgressInv'
    BY <1>10 DEF RequestCancel, UploadInv, TypeOK, LockInv, ProgressInv, Succeeded, Blamed, Arrived,
       Early, Late, Locked
  <2>4. ReportInv'
    BY <1>10 DEF RequestCancel, UploadInv, TypeOK, ProgressInv, ReportInv
  <2> QED
    BY <2>1, <2>2, <2>3, <2>4 DEF UploadInv
<1>11. ASSUME NEW u \in Uploads, Interrupt(u) PROVE UploadInv'
  <2>1. CASE pc[u] = "publish"
    <3>1. PICK code \in {"cancelled", "timeout"} :
          /\ pc' = [pc EXCEPT ![u] = "abort"]
          /\ cause' = [cause EXCEPT ![u] = code]
          /\ lingering \subseteq lingering' /\ lingering' \subseteq lingering \cup {u}
          /\ UNCHANGED <<remote, sent, mutations, cancel, started, result>>
      BY <1>11, <2>1 DEF Interrupt, Undecided, UploadInv, TypeOK
    <3>2. Effect(u)
      BY <1>11, <2>1 DEF Interrupt, Published, Undecided, Effect, UploadInv, TypeOK
    <3>3. u \in started
      BY <2>1 DEF UploadInv, ProgressInv
    <3>4. TypeOK'
      <4>1. pc' \in [Uploads -> Places] /\ cause' \in [Uploads -> Causes]
        BY <3>1 DEF UploadInv, TypeOK, Causes, Places
      <4>2. target' \in {"none", "foreign", "torn"} \cup Uploads /\ since' \subseteq Uploads
        BY <3>2 DEF UploadInv, TypeOK, Effect
      <4> QED
        BY <3>1, <3>2, <4>1, <4>2 DEF UploadInv, TypeOK, Effect
    <3>5. LockInv'
      BY <2>1, <3>1 DEF UploadInv, TypeOK, LockInv, Locked, Places
    <3>6. ProgressInv'
      BY <2>1, <3>1, <3>2, <3>3
         DEF UploadInv, TypeOK, ProgressInv, Succeeded, Blamed, Arrived, Effect, Early,
             Late
    <3>7. ReportInv'
      BY <2>1, <3>1, <3>2 DEF UploadInv, TypeOK, ReportInv, Effect
    <3> QED
      BY <3>4, <3>5, <3>6, <3>7 DEF UploadInv
  <2>2. CASE pc[u] \in {"queued", "check"}
    <3>1. TypeOK'
      BY <1>11, <2>2 DEF Interrupt, UploadInv, TypeOK, Places, Causes, Results
    <3>2. LockInv'
      BY <1>11, <2>2 DEF Interrupt, UploadInv, TypeOK, LockInv, Locked, Places
    <3>3. ProgressInv'
      BY <1>11, <2>2 DEF Interrupt, UploadInv, TypeOK, LockInv, ProgressInv, Succeeded, Blamed, Arrived,
         Early, Late, Locked
    <3>4. ReportInv'
      BY <1>11, <2>2 DEF Interrupt, UploadInv, TypeOK, ProgressInv, ReportInv, Early,
         Late
    <3> QED
      BY <3>1, <3>2, <3>3, <3>4 DEF UploadInv
  <2>3. CASE pc[u] \in {"open", "close"}
    <3>1. TypeOK'
      BY <1>11, <2>3 DEF Interrupt, UploadInv, TypeOK, Places, Causes, Results
    <3>2. LockInv'
      BY <1>11, <2>3 DEF Interrupt, UploadInv, TypeOK, LockInv, Locked, Places
    <3>3. ProgressInv'
      BY <1>11, <2>3 DEF Interrupt, UploadInv, TypeOK, LockInv, ProgressInv, Succeeded, Blamed, Arrived,
         Early, Late, Locked
    <3>4. ReportInv'
      BY <1>11, <2>3 DEF Interrupt, UploadInv, TypeOK, ProgressInv, ReportInv
    <3> QED
      BY <3>1, <3>2, <3>3, <3>4 DEF UploadInv
  <2>4. CASE pc[u] \in {"send", "recheck", "inspect"}
    <3>1. TypeOK'
      BY <1>11, <2>4 DEF Interrupt, UploadInv, TypeOK, Places, Causes, Results
    <3>2. LockInv'
      BY <1>11, <2>4 DEF Interrupt, UploadInv, TypeOK, LockInv, Locked, Places
    <3>3. ProgressInv'
      BY <1>11, <2>4 DEF Interrupt, UploadInv, TypeOK, LockInv, ProgressInv, Succeeded, Blamed, Arrived,
         Early, Late, Locked
    <3>4. ReportInv'
      BY <1>11, <2>4 DEF Interrupt, UploadInv, TypeOK, ProgressInv, ReportInv
    <3> QED
      BY <3>1, <3>2, <3>3, <3>4 DEF UploadInv
  <2> QED
    BY <1>11, <2>1, <2>2, <2>3, <2>4 DEF Interrupt
<1>12. ASSUME NEW u \in Uploads, Land(u) PROVE UploadInv'
  <2>0. /\ u \in lingering
        /\ lingering' \subseteq lingering
        /\ UNCHANGED <<remote, pc, sent, mutations, cancel, started, cause, result>>
    BY <1>12 DEF Land
  <2>1. Effect(u)
    BY <1>12 DEF Land, Published, Effect, UploadInv, TypeOK
  <2>2. TypeOK'
    BY <2>0, <2>1 DEF UploadInv, TypeOK, Effect
  <2>3. LockInv'
    BY <2>0 DEF UploadInv, LockInv
  <2>4. ProgressInv'
    BY <2>0, <2>1
       DEF UploadInv, TypeOK, ProgressInv, Succeeded, Blamed, Arrived, Effect, Early, Late
  <2>5. ReportInv'
    BY <2>0, <2>1 DEF UploadInv, TypeOK, ReportInv, Effect
  <2> QED
    BY <2>2, <2>3, <2>4, <2>5 DEF UploadInv
<1>13. CASE Outsider
  BY <1>13 DEF Outsider, UploadInv, TypeOK, LockInv, ProgressInv, ReportInv, Succeeded,
     Blamed, Arrived
<1>14. ASSUME NEW u \in Uploads, Inspect(u) PROVE UploadInv'
  <2>1. TypeOK'
    BY <1>14 DEF Inspect, Refused, UploadInv, TypeOK, Places, Causes, Results
  <2>2. LockInv'
    BY <1>14 DEF Inspect, Refused, UploadInv, TypeOK, LockInv, Locked, Places
  <2>3. ProgressInv'
    BY <1>14 DEF Inspect, Refused, UploadInv, TypeOK, LockInv, ProgressInv, Succeeded,
       Blamed, Arrived, Early, Late, Locked
  <2>4. ReportInv'
    BY <1>14 DEF Inspect, Refused, UploadInv, TypeOK, ProgressInv, ReportInv
  <2> QED
    BY <2>1, <2>2, <2>3, <2>4 DEF UploadInv
<1>15. CASE UNCHANGED vars
  BY <1>15 DEF vars, UploadInv, TypeOK, LockInv, ProgressInv, ReportInv, Succeeded,
     Blamed, Arrived
<1> QED
  BY <1>1, <1>2, <1>3, <1>4, <1>5, <1>6, <1>7, <1>8, <1>9, <1>10, <1>11, <1>12, <1>13,
     <1>14, <1>15 DEF Next

(* In every reachable state the reports of upload_file agree with what it  *)
(* can have done to the destination and to its temporary file.             *)
THEOREM UploadInvariantHolds ==
    Spec => []UploadInv
BY InitEstablishes, NextPreserves, PTL DEF Spec

(* An upload reported as cancelled or failed has changed nothing.          *)
THEOREM InterruptedUploadsAreHarmless ==
    Spec => []InterruptedIsHarmless
<1>1. UploadInv => InterruptedIsHarmless
  BY DEF UploadInv, ProgressInv, ReportInv, Blamed, InterruptedIsHarmless
<1> QED
  BY <1>1, UploadInvariantHolds, PTL

(* A completed upload is the one that was published last, and clean.       *)
THEOREM CompletedUploadsArePublished ==
    Spec => []CompletedIsPublished
<1>1. UploadInv => CompletedIsPublished
  BY DEF UploadInv, ProgressInv, ReportInv, Succeeded, CompletedIsPublished
<1> QED
  BY <1>1, UploadInvariantHolds, PTL

(* A temporary file that outlives its upload is reported.                  *)
THEOREM LeftoversAreReported ==
    Spec => []LeftoverIsReported
<1>1. UploadInv => LeftoverIsReported
  BY DEF UploadInv, ReportInv, LeftoverIsReported
<1> QED
  BY <1>1, UploadInvariantHolds, PTL

-----------------------------------------------------------------------------
(* A remote keeps its way to publish.                                      *)
LEMMA RemoteIsConstant ==
    [Next]_vars => UNCHANGED remote
BY DEF Next, vars, Outsider, Begin, Check, Open, Send, CloseWriter, Recheck, Inspect,
       Publish, Abort, Clean, RequestCancel, Interrupt, Land

(* Who changes the destination: another client, the upload that holds the  *)
(* lock and is publishing, or an abandoned publication.                    *)
LEMMA WhoPublishes ==
    ASSUME UploadInv, [Next]_vars, target' \notin {target, "foreign"}
    PROVE  \E u \in Uploads :
              /\ \/ pc[u] = "publish"
                 \/ u \in lingering /\ (how = "stream" \/ temp[u] = "full")
              /\ \/ target' = u /\ (how = "exclusive" => ~Refused(u))
                 \/ target' = "torn" /\ how = "stream"
<1>1. PICK u \in Uploads : Publish(u) \/ Interrupt(u) \/ Land(u)
  BY DEF Next, vars, Outsider, Begin, Check, Open, Send, CloseWriter, Recheck, Inspect,
     Abort, Clean, RequestCancel
<1>2. CASE Publish(u)
  BY <1>2 DEF Publish, Undecided, Published
<1>3. CASE Interrupt(u)
  BY <1>3 DEF Interrupt, Undecided, Published
<1>4. CASE Land(u)
  BY <1>4 DEF Land, Published
<1> QED
  BY <1>1, <1>2, <1>3, <1>4

-----------------------------------------------------------------------------
(* Without overwrite, a file that is at the destination when an upload is  *)
(* past its recheck came after it; and where no request is applied late,   *)
(* it is another client's as long as the upload has not published.         *)
FreshInv ==
    \A u \in Uploads \ Overwrites :
        /\ u \in started => target = "none" \/ u \in since
        /\ ~late /\ pc[u] \in {"inspect", "publish"} => target \in {"none", "foreign"}

IdleInv == ~late => lingering = {}

(* A change of the destination is after every recheck before it, and the   *)
(* upload that makes it has done its publishing, if nothing is late.       *)
LEMMA FreshStep ==
    UploadInv /\ FreshInv /\ IdleInv /\ [Next]_vars => FreshInv' /\ IdleInv'
<1> SUFFICES ASSUME UploadInv, FreshInv, IdleInv, [Next]_vars PROVE FreshInv' /\ IdleInv'
  OBVIOUS
<1> USE UploadAssumption DEF FreshInv, IdleInv
<1>1. ASSUME NEW u \in Uploads, Recheck(u) PROVE FreshInv' /\ IdleInv'
  BY <1>1 DEF Recheck, Refused, UploadInv, TypeOK
<1>2. ASSUME NEW u \in Uploads, Publish(u) \/ Interrupt(u), pc[u] = "publish"
      PROVE  FreshInv' /\ IdleInv'
  <2>1. \A v \in Uploads : pc'[v] \in {"inspect", "publish"} => pc'[v] = pc[v] /\ v # u
    BY <1>2 DEF Publish, Interrupt, UploadInv, TypeOK
  <2>2. \A v \in Uploads : pc[v] \in {"inspect", "publish"} => v = u
    BY <1>2 DEF UploadInv, LockInv, Locked, Places
  <2>3. started' = started /\ late' = late /\ (~late => lingering' = lingering)
    BY <1>2 DEF Publish, Interrupt, Undecided
  <2>4. since' = started \/ UNCHANGED destination
    BY <1>2 DEF Publish, Interrupt, Undecided, Published
  <2> QED
    BY <2>1, <2>2, <2>3, <2>4
<1>3. ASSUME NEW u \in Uploads, Interrupt(u), pc[u] # "publish" PROVE FreshInv' /\ IdleInv'
  BY <1>3 DEF Interrupt, UploadInv, TypeOK
<1>4. ASSUME NEW u \in Uploads,
             \/ Begin(u) \/ Check(u) \/ Open(u) \/ Send(u) \/ CloseWriter(u) \/ Inspect(u)
             \/ Abort(u) \/ Clean(u) \/ RequestCancel(u)
      PROVE  FreshInv' /\ IdleInv'
  BY <1>4 DEF Begin, Check, Open, Send, CloseWriter, Inspect, Abort, Clean, RequestCancel,
     UploadInv, TypeOK
<1>5. ASSUME NEW u \in Uploads, Land(u) PROVE FreshInv' /\ IdleInv'
  <2>1. late /\ late' = late /\ started' = started /\ UNCHANGED pc
    BY <1>5 DEF Land
  <2>2. since' = started \/ UNCHANGED destination
    BY <1>5 DEF Land, Published
  <2> QED
    BY <2>1, <2>2
<1>6. CASE Outsider \/ UNCHANGED vars
  BY <1>6 DEF Outsider, vars
<1>7. ASSUME NEW u \in Uploads, Publish(u) PROVE pc[u] = "publish"
  BY <1>7 DEF Publish
<1> QED
  BY <1>1, <1>2, <1>3, <1>4, <1>5, <1>6, <1>7 DEF Next

(* What an upload without overwrite replaces came after its recheck, from  *)
(* another client or from a remote that applies requests late; a copy that *)
(* can be told to replace nothing replaces nothing.                        *)
THEOREM UploadsNeverClobber ==
    Spec => NeverClobbers
<1>1. Init => FreshInv /\ IdleInv
  BY DEF Init, FreshInv, IdleInv
<1>2. ASSUME UploadInv, FreshInv, IdleInv, [Next]_vars,
             target # "none", target' \notin {target, "foreign"}
      PROVE  \E u \in Uploads :
                /\ target' \in {u, "torn"}
                /\ \/ u \in Overwrites
                   \/ how # "exclusive" /\ u \in since /\ (late \/ target = "foreign")
  <2>1. PICK u \in Uploads :
           /\ pc[u] = "publish" \/ u \in lingering
           /\ \/ target' = u /\ (how = "exclusive" => ~Refused(u))
              \/ target' = "torn" /\ how = "stream"
    BY <1>2, WhoPublishes
  <2>2. u \in started
    BY <1>2, <2>1 DEF UploadInv, ProgressInv, Blamed
  <2>3. CASE u \notin Overwrites
    <3>1. u \in since /\ (late \/ target = "foreign")
      BY <1>2, <2>1, <2>2, <2>3 DEF FreshInv, IdleInv
    <3>2. how # "exclusive"
      BY <1>2, <2>1, <2>3 DEF Refused
    <3> QED
      BY <2>1, <3>1, <3>2
  <2> QED
    BY <2>1, <2>3
<1>3. UploadInv /\ FreshInv /\ IdleInv /\ [Next]_vars
        => [target # "none" /\ target' \notin {target, "foreign"} =>
              \E u \in Uploads :
                 /\ target' \in {u, "torn"}
                 /\ \/ u \in Overwrites
                    \/ /\ how # "exclusive" /\ u \in since
                       /\ late \/ target = "foreign"]_vars
  BY <1>2
<1> QED
  BY <1>1, <1>3, FreshStep, UploadInvariantHolds, PTL DEF Spec, NeverClobbers
-----------------------------------------------------------------------------
(* A half-written destination has an upload to blame: it had started its   *)
(* publication, met an error, and is on its way to report it or has.       *)
TornInv == target = "torn" => \E u \in Uploads : Blamed(u)

(* Whoever is to blame stays so, and tearing a file makes one to blame.    *)
LEMMA TornStep ==
    UploadInv /\ TornInv /\ [Next]_vars => TornInv'
<1> SUFFICES ASSUME UploadInv, TornInv, [Next]_vars, target' = "torn"
             PROVE  \E u \in Uploads : Blamed(u)'
  BY DEF TornInv
<1> USE UploadAssumption
<1>1. ASSUME NEW v \in Uploads, Blamed(v) PROVE Blamed(v)'
  <2>1. ASSUME NEW u \in Uploads, u # v,
               \/ Begin(u) \/ Check(u) \/ Open(u) \/ Send(u) \/ CloseWriter(u)
               \/ Recheck(u) \/ Inspect(u) \/ Publish(u) \/ Abort(u) \/ Clean(u)
               \/ RequestCancel(u) \/ Interrupt(u) \/ Land(u)
        PROVE  pc'[v] = pc[v] /\ cause'[v] = cause[v] /\ started \subseteq started'
    BY <2>1 DEF Begin, Check, Open, Send, CloseWriter, Recheck, Inspect, Publish, Abort,
       Clean, RequestCancel, Interrupt, Land, UploadInv, TypeOK
  <2>2. CASE \/ Begin(v) \/ Check(v) \/ Open(v) \/ Send(v) \/ CloseWriter(v)
             \/ Recheck(v) \/ Inspect(v) \/ Publish(v) \/ Interrupt(v)
    BY <1>1, <2>2 DEF Blamed, Begin, Check, Open, Send, CloseWriter, Recheck, Inspect,
       Publish, Interrupt
  <2>3. CASE Abort(v) \/ Clean(v) \/ RequestCancel(v) \/ Land(v) \/ Outsider \/ UNCHANGED vars
    BY <1>1, <2>3 DEF Blamed, Abort, Clean, RequestCancel, Land, Outsider, vars, UploadInv,
       TypeOK
  <2> QED
    BY <1>1, <2>1, <2>2, <2>3 DEF Next, Blamed
<1>2. CASE target = "torn"
  BY <1>1, <1>2 DEF TornInv
<1>3. CASE target # "torn" /\ \E u \in Uploads : Land(u)
  BY <1>1, <1>3 DEF Land, UploadInv, ProgressInv
<1>4. CASE target # "torn" /\ ~\E u \in Uploads : Land(u)
  <2>1. PICK u \in Uploads : Publish(u) \/ Interrupt(u)
    BY <1>4 DEF Next, vars, Outsider, Begin, Check, Open, Send, CloseWriter, Recheck,
       Inspect, Abort, Clean, RequestCancel
  <2>2. pc[u] = "publish" /\ pc'[u] = "abort" /\ cause'[u] # "none" /\ started' = started
    BY <1>4, <2>1 DEF Publish, Interrupt, Published, UploadInv, TypeOK
  <2> QED
    BY <2>2 DEF Blamed, UploadInv, ProgressInv
<1> QED
  BY <1>2, <1>3, <1>4

(* Whatever an upload reports, wherever it was cut short, is true of the   *)
(* destination and of its temporary file.                                  *)
THEOREM UploadOutcomesAreTrue ==
    Spec => []OutcomesAreTrue
<1>1. Init => TornInv
  BY DEF Init, TornInv
<1>2. UploadInv /\ TornInv => TornIsReported
  <2> SUFFICES ASSUME UploadInv, NEW u \in Uploads, Blamed(u)
               PROVE  result[u] \in {"none", "partial_transfer", "cleanup_failed"}
    BY DEF TornInv, TornIsReported, Blamed
  <2> QED
    BY DEF Blamed, UploadInv, ReportInv, TypeOK, Results
<1> QED
  BY <1>1, <1>2, TornStep, UploadInvariantHolds, InterruptedUploadsAreHarmless,
     CompletedUploadsArePublished, LeftoversAreReported, PTL DEF Spec, OutcomesAreTrue

(* Whoever changes the destination has not ended, or has told by its       *)
(* report that it still may: neither the late end of a rename or copy nor  *)
(* that of a stream contradicts what was reported.                         *)
THEOREM CleanupIsFinal ==
    Spec => ConfirmedCleanupIsFinal
<1>1. ASSUME UploadInv, [Next]_vars, target' \notin {target, "foreign"}
      PROVE  \E u \in Uploads : target' \in {u, "torn"} /\ MayStillChange(u)
  <2>1. PICK u \in Uploads :
           /\ \/ pc[u] = "publish"
              \/ u \in lingering /\ (how = "stream" \/ temp[u] = "full")
           /\ target' \in {u, "torn"}
    BY <1>1, WhoPublishes
  <2>2. CASE pc[u] = "publish"
    BY <1>1, <2>1, <2>2 DEF UploadInv, TypeOK, ReportInv, MayStillChange
  <2>3. CASE u \in lingering
    <3>1. u \in started /\ cause[u] # "none"
      BY <1>1, <2>3 DEF UploadInv, ProgressInv, Blamed
    <3>2. result[u] \in {"none", "partial_transfer", "cleanup_failed"}
      BY <1>1, <3>1 DEF UploadInv, ReportInv, TypeOK, Results
    <3>3. CASE pc[u] # "publish"
      <4>1. how # "stream" => result[u] \in {"none", "cleanup_failed"}
        BY <1>1, <2>1, <3>2, <3>3 DEF UploadInv, ReportInv
      <4> QED
        BY <2>1, <3>2, <4>1 DEF MayStillChange
    <3> QED
      BY <2>2, <3>3
  <2> QED
    BY <2>1, <2>2, <2>3
<1>2. UploadInv /\ [Next]_vars
        => [target' \notin {target, "foreign"} =>
              \E u \in Uploads : target' \in {u, "torn"} /\ MayStillChange(u)]_vars
  BY <1>1
<1> QED
  BY <1>2, UploadInvariantHolds, PTL DEF Spec, ConfirmedCleanupIsFinal
=============================================================================
