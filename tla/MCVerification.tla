--------------------------- MODULE MCVerification ---------------------------
(* The verification service on one host, for TLC: two clients, two runs and *)
(* two invocations of the installation tools.                               *)
EXTENDS VerificationInstaller, TLC

Symmetry == Permutations(Peer) \union Permutations(Run)
=============================================================================
