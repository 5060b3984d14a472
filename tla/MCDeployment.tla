---------------------------- MODULE MCDeployment ----------------------------
(* TLC instance of Deployment.                                             *)
EXTENDS Deployment, TLC

Symmetry ==
    Permutations(Servers) \cup Permutations(Rotators) \cup Permutations(Kids)
    \cup Permutations(Migrators)

=============================================================================
