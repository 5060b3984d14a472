----------------------------- MODULE MCKeyStore -----------------------------
(* TLC instances of KeyStore.                                              *)
EXTENDS KeyStore, TLC

Symmetry == Permutations(Servers) \cup Permutations(Rotators) \cup Permutations(Kids)

=============================================================================
