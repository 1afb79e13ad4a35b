---------------------------- MODULE MCToolExecutor ----------------------------
(* Instances of ToolExecutor for TLC.                                       *)
EXTENDS ToolExecutor

Pipes == <<"stdout", "stderr">>
OneStream == <<"stdout">>
ThreeChunks == [s \in StreamSet |-> 3]
(* Enough of stdout to spill and to exceed the limit, one chunk of stderr.  *)
MostlyStdout == [s \in StreamSet |-> IF s = "stdout" THEN 3 ELSE 1]
=============================================================================
