---------------------------- MODULE MCJtiReplay ----------------------------
(* TLC instances of JtiReplay.                                             *)
EXTENDS JtiReplay, TLC

Symmetry == Permutations(Requests) \cup Permutations(DpopProofs) \cup Permutations(Assertions)

=============================================================================
