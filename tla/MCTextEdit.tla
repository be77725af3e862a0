------------------------------- MODULE MCTextEdit -------------------------------
(* Instances of TextEdit for TLC.                                          *)
EXTENDS TextEdit, TLC

CONSTANTS s1, s2, t1, t2, p

Interchangeable == Permutations(Calls) \cup Permutations(Tokens)
=============================================================================
