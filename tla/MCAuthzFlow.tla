---------------------------- MODULE MCAuthzFlow ----------------------------
(* TLC instances of AuthzFlow.                                             *)
EXTENDS AuthzFlow, TLC

\* Identifiers and users are only compared with one another.
Symmetry ==
    Permutations(Requests) \cup Permutations(Interactions) \cup Permutations(Codes)
    \cup Permutations(Users) \cup Permutations(Sids)

=============================================================================
