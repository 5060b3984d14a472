--------------------------- MODULE MCTokenReaders ---------------------------
(* TLC instances of TokenReaders.                                          *)
EXTENDS TokenReaders, TLC

\* As in MCTokenLifecycle, with the reading requests.
Symmetry ==
    Permutations(Requests) \cup Permutations(Grants)
    \cup Permutations(AccessTokens) \cup Permutations(RefreshTokens)
    \cup Permutations(Keys) \cup Permutations(Verifiers)
    \cup Permutations(Scopes) \cup Permutations(Subjects)
    \cup Permutations(Readers)

=============================================================================
