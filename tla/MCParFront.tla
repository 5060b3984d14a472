----------------------------- MODULE MCParFront -----------------------------
(* TLC instance of ParFront.                                               *)
EXTENDS ParFront, TLC

CONSTANTS x, y, k1, k2

Reg(uris, scope) == [redirectUris |-> uris, scope |-> scope]
MCRegistrations == {Reg({x, y}, {"openid", "email"}), Reg({x}, {"openid"}), Reg({y}, {})}

Pushed(uri, scope, jkt, proof, prompt) ==
    [redirectUri |-> uri, scope |-> scope, dpopJkt |-> jkt, proofJkt |-> proof, prompt |-> prompt]
MCBodies ==
    {Pushed(x, {}, Null, k2, "unset"),
     Pushed(x, {"openid"}, k1, k2, "none"),
     Pushed(y, {"openid"}, k1, k1, "none")}

Symmetry == Permutations(Sources)

=============================================================================
