---------------------------- MODULE MCConfigReload ----------------------------
(* An instance of ConfigReload for TLC.                                     *)
EXTENDS ConfigReload

File(id, listen, audit) == [id |-> id, valid |-> TRUE, listen |-> listen, audit |-> audit]
Broken == [id |-> 9, valid |-> FALSE, listen |-> 0, audit |-> 0]

(* The proxy off, on and moved; the audit file kept and moved.              *)
MCFiles == {File(1, 0, 1), File(2, 1, 1), File(3, 2, 2), Broken}
MCBootFiles == {File(2, 1, 1)}
=============================================================================
