------------------------------ MODULE MCServer ------------------------------
(* TLC instances of Server.                                                *)
EXTENDS Server, TLC

\* Identifiers, people and keys are only compared with one another.
Symmetry ==
    Permutations(Requests) \cup Permutations(Interactions) \cup Permutations(Codes)
    \cup Permutations(Users) \cup Permutations(Sids) \cup Permutations(TokenRequests)
    \cup Permutations(AccessTokens) \cup Permutations(Keys)

=============================================================================
