-------------------------------- MODULE MCSlots --------------------------------
(* Instances of Slots for TLC: two connections that upload and change      *)
(* things at once, so that the two acquisition orders meet; with six jobs, *)
(* a connection also has more jobs than permits.                           *)
EXTENDS Slots, TLC

CONSTANTS a, b,          \* connections: one without query timeout, one with
          ua, ma, da,    \* an upload, a mutation and a download of a
          ub, sb, rb     \* an upload, a save and a read of b

FourJobs == {ua, ma, ub, sb}
SixJobs == FourJobs \cup {da, rb}

ConnOfJob == [j \in Jobs |-> IF j \in {ua, ma, da} THEN a ELSE b]
KindOfJob ==
    [j \in Jobs |-> CASE j \in {ua, ub} -> "upload"
                     [] j = ma -> "mutation"
                     [] j = sb -> "save"
                     [] j = da -> "download"
                     [] j = rb -> "read"]
=============================================================================
