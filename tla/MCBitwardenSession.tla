------------------------- MODULE MCBitwardenSession -------------------------
(* An instance of BitwardenSession for TLC: the constants are plain sets and *)
(* numbers, given in the configuration.                                      *)
EXTENDS BitwardenSession
=============================================================================
