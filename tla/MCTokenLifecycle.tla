-------------------------- MODULE MCTokenLifecycle --------------------------
(* TLC instances of TokenLifecycle.                                        *)
EXTENDS TokenLifecycle, TLC

\* Requests, random identifiers, key thumbprints and PKCE verifiers are only
\* compared with one another.
Symmetry ==
    Permutations(Requests) \cup Permutations(Grants)
    \cup Permutations(AccessTokens) \cup Permutations(RefreshTokens)
    \cup Permutations(Keys) \cup Permutations(Verifiers)
    \cup Permutations(Scopes) \cup Permutations(Subjects)

=============================================================================
