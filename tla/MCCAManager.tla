----------------------------- MODULE MCCAManager -----------------------------
(* Instances of CAManager for TLC.                                          *)
EXTENDS CAManager

Installed(id, good, from) == [id |-> id, good |-> good, notBefore |-> from, notAfter |-> 9]
(* Two usable pairs, one that becomes valid later, and one that is no CA.   *)
Pairs4 == {Installed(1, TRUE, 0), Installed(2, TRUE, 0), Installed(3, TRUE, 2), Installed(4, FALSE, 0)}
=============================================================================
