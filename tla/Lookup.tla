--------------------------------- MODULE Lookup ---------------------------------
(***************************************************************************)
(* What stands at a path (backend/src/operations.rs stat, exists and       *)
(* destination, with the codes of error.rs): functions of what the remote  *)
(* answers.  An answer has three parts: for the path itself (which has no  *)
(* slash at its end), for the path with one, and for a listing of that     *)
(* directory.                                                              *)
(***************************************************************************)
EXTENDS FiniteSets

Entries == {"file", "dir", "other"}

(* Kinds of errors of the remote, and of those that are equally treated.   *)
Kinds == {"ConfigInvalid", "NotFound", "PermissionDenied", "AlreadyExists", "Unsupported",
          "RateLimited", "Unexpected"}

Answers == [path : Entries \cup Kinds, slash : {"dir"} \cup Kinds,
            list : {"entries", "empty"} \cup Kinds]

(* remote(): the code of an error.                                         *)
Code(kind) ==
    CASE kind = "ConfigInvalid"    -> "configuration"
      [] kind = "NotFound"         -> "not_found"
      [] kind = "PermissionDenied" -> "permission_denied"
      [] kind = "AlreadyExists"    -> "already_exists"
      [] kind = "Unsupported"      -> "unsupported"
      [] kind = "RateLimited"      -> "rate_limited"
      [] OTHER                     -> "backend"

Codes == {Code(kind) : kind \in Kinds}

(* Mutant of Stat: any error of the path itself is asked about again.      *)
StatAgain(a) ==
    IF a.path \in Entries THEN a.path
    ELSE IF a.slash \notin Kinds THEN a.slash
    ELSE Code(a.slash)

(* stat: a path that is not found, or redirected, may be a directory.      *)
Stat(a) ==
    IF a.path \in Entries THEN a.path
    ELSE IF a.path \in {"NotFound", "Unexpected"} /\ a.slash \notin Kinds THEN a.slash
    ELSE Code(a.path)

(* exists: "present", "absent" or a code.  A directory that only its       *)
(* content makes is found by a listing, where there is one.                *)
Exists(a, lists) ==
    LET found == Stat(a) IN
    IF found \in Entries THEN "present"
    ELSE IF found # "not_found" THEN found
    ELSE IF ~lists \/ a.list \in {"empty", "NotFound"} THEN "absent"
    ELSE IF a.list = "entries" THEN "present"
    ELSE Code(a.list)

(* destination: "free" or a code.  What is there is looked at again before *)
(* it is overwritten (the second answer).                                  *)
Destination(a, again, lists, overwrite) ==
    LET found == Exists(a, lists) IN
    IF found = "absent" THEN "free"
    ELSE IF found # "present" THEN found
    ELSE IF ~overwrite THEN "already_exists"
    ELSE IF Stat(again) \notin Entries THEN Stat(again)
    ELSE IF Stat(again) = "dir" THEN "unsupported"
    ELSE "free"

-----------------------------------------------------------------------------
(* A destination is called free only after the remote has said that        *)
(* nothing is there (no error but this one is taken for it) or that what   *)
(* is there is no directory and may be overwritten.                        *)
DestinationIsKnown(a, again, lists, overwrite) ==
    Destination(a, again, lists, overwrite) = "free" =>
        \/ /\ a.path = "NotFound" /\ a.slash \in Kinds
           /\ lists => a.list \in {"empty", "NotFound"}
        \/ /\ overwrite
           /\ again.path \in Entries \ {"dir"}
           /\ a.path \in Entries \/ a.slash = "dir" \/ a.list = "entries"
=============================================================================
