--------------------------- MODULE MCWrapperSession ---------------------------
(* Instances of WrapperSession for TLC: the constants are plain numbers,    *)
(* given in the configurations.                                             *)
EXTENDS WrapperSession
=============================================================================
