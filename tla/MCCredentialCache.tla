-------------------------- MODULE MCCredentialCache --------------------------
(* An instance of CredentialCache for TLC: the cache disabled and on, and a *)
(* lifetime that the refresh margin uses up.                                *)
EXTENDS CredentialCache

MCLifetimes == {NoExpiry, 1}
MCTTLs == {0, 1, 2}
=============================================================================
