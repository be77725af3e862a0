------------------------------ MODULE Capabilities ------------------------------
(***************************************************************************)
(* What a session offers (backend/src/session.rs, capabilities and         *)
(* require) and what its operations ask of the remote (operations.rs,      *)
(* transfer.rs and workbench.rs).                                          *)
(***************************************************************************)
EXTENDS FiniteSets

(* Requests that a remote may support.                                     *)
Remote == {"stat", "list", "read", "write", "createDir", "delete", "copy", "rename"}

Mutations == {"write", "mkdir", "delete", "copy", "rename", "upload", "edit"}
Operations == Mutations \cup {"list", "read", "stat", "download"}

(* Mutant of Advertised: an upload is not asked for its cleanup.           *)
AdvertisedUncleaned(c, readOnly) ==
    {op \in Operations :
        /\ op \in Mutations => ~readOnly /\ "stat" \in c
        /\ CASE op \in {"list", "read", "stat", "write", "delete"} -> op \in c
             [] op = "download" -> "read" \in c
             [] op = "mkdir"  -> "createDir" \in c
             [] op = "copy"   -> "copy" \in c \/ {"read", "write"} \subseteq c
             [] op = "rename" -> \/ "rename" \in c
                                 \/ "delete" \in c /\ ("copy" \in c \/ {"read", "write"} \subseteq c)
             [] op = "upload" -> "write" \in c /\ c \cap {"rename", "copy", "read"} # {}
             [] op = "edit"   -> {"read", "write"} \subseteq c}

(* capabilities(): what is offered with the capabilities c.                *)
Advertised(c, readOnly) ==
    {op \in Operations :
        /\ op \in Mutations => ~readOnly /\ "stat" \in c
        /\ CASE op \in {"list", "read", "stat", "write", "delete"} -> op \in c
             [] op = "download" -> "read" \in c
             [] op = "mkdir"  -> "createDir" \in c
             [] op = "copy"   -> "copy" \in c \/ {"read", "write"} \subseteq c
             [] op = "rename" -> \/ "rename" \in c
                                 \/ "delete" \in c /\ ("copy" \in c \/ {"read", "write"} \subseteq c)
             [] op = "upload" -> {"write", "delete"} \subseteq c /\ c \cap {"rename", "copy", "read"} # {}
             [] op = "edit"   -> {"read", "write"} \subseteq c}

(* require(): the code with which an operation is refused, or none.        *)
Require(op, c, readOnly, closed) ==
    IF closed THEN "not_connected"
    ELSE IF op \in Mutations /\ readOnly THEN "read_only"
    ELSE IF op \notin Advertised(c, readOnly) THEN "unsupported"
    ELSE "none"

-----------------------------------------------------------------------------
(* The requests each operation makes of a file (a directory for list and   *)
(* mkdir), as far as they go when nothing fails.                           *)

(* file_metadata is content without stat, exists without list.             *)
Metadata(c) == {"stat"} \cap c
Probe(c) == {"stat"} \cup ({"list"} \cap c)

(* copy_file.                                                              *)
CopyFile(c) == Probe(c) \cup IF "copy" \in c THEN {"copy"} ELSE {"read", "write"}

Publish(c) == IF "rename" \in c THEN {"rename"} ELSE CopyFile(c)

Requested(op, c) ==
    CASE op = "stat"     -> {"stat"}
      [] op = "list"     -> {"stat", "list"}
      [] op \in {"read", "download"} -> Metadata(c) \cup {"read"}
      [] op = "write"    -> Probe(c) \cup {"write"}
      [] op = "mkdir"    -> Probe(c) \cup {"createDir"}
      [] op = "delete"   -> {"stat", "delete"}
      [] op = "copy"     -> CopyFile(c)
      [] op = "rename"   -> IF "rename" \in c THEN Probe(c) \cup {"rename"}
                            ELSE CopyFile(c) \cup {"delete"}
      [] op = "upload"   -> Probe(c) \cup {"write"} \cup Publish(c) \cup {"delete"}
      [] op = "edit"     -> {"stat", "read", "write"}

-----------------------------------------------------------------------------
(* An open session refuses exactly the operations whose requests its       *)
(* remote cannot all serve (the cleanup of an upload is one of them), and  *)
(* with a read-only connection those that change files.  No service lists  *)
(* and does not stat.                                                      *)
AdvertisedWorks(c, readOnly) ==
    ("list" \notin c \/ "stat" \in c) =>
        \A op \in Operations :
            Require(op, c, readOnly, FALSE) = "none" <=>
                Requested(op, c) \subseteq c /\ (readOnly => op \notin Mutations)
=============================================================================
