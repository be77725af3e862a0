------------------------------- MODULE MCClosing -------------------------------
(* An instance of Closing for TLC: three guards, one of them of the call.  *)
EXTENDS Closing, TLC

CONSTANTS g1, g2, g3
=============================================================================
