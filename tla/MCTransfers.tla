------------------------------ MODULE MCTransfers ------------------------------
(* Three downloads to one path for TLC: one replaces what it finds there,  *)
(* and there is room for two, so that the third needs one to have ended.   *)
EXTENDS Transfers, TLC

CONSTANTS o1, n1, n2

Interchangeable == Permutations({n1, n2})
=============================================================================
