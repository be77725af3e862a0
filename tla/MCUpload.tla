------------------------------- MODULE MCUpload -------------------------------
(* Instances of Upload for TLC.                                            *)
EXTENDS Upload, TLC

CONSTANTS first, retry   \* an upload and another one to the same place
=============================================================================
