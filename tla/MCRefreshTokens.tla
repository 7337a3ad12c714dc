--------------------------- MODULE MCRefreshTokens ---------------------------
(* RefreshTokens on small instances: tokens and requests are               *)
(* interchangeable model values.                                           *)
EXTENDS RefreshTokens, TLC

Symmetry == Permutations(Token) \union Permutations(Proc) \union Permutations(Agent)
=============================================================================
