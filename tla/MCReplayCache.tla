---------------------------- MODULE MCReplayCache ----------------------------
(* An instance of ReplayCache for TLC.  The floor is 2 * Drift as in the     *)
(* code; the lifetimes are the default, here the least that outlasts the time *)
(* in which a request verifies, and the floor.                               *)
EXTENDS ReplayCache, TLC

MCConfigTTLs == {0, 1}
MCTimestamps == {1, 3}
MCConfigMax == {1, 2}
Symmetry == {p @@ q @@ r : p \in Permutations(Handlers), q \in Permutations(Messages),
                              r \in Permutations(Requests)}
=============================================================================
