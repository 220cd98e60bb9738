--------------------------- MODULE MCClientMemory ---------------------------
(* Constants of ClientMemory for TLC.                                      *)
EXTENDS ClientMemory, TLC

CONSTANTS a1, a2, a3, a4, t1, t2
=============================================================================
