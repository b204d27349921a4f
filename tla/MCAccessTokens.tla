--------------------------- MODULE MCAccessTokens ---------------------------
(* AccessTokens for TLC: four ticks a second, lifetimes of less than a     *)
(* second, of a second, and of more and less than whole seconds.           *)
EXTENDS AccessTokens

Lifetimes == {1, 3, 4, 5, 9}
=============================================================================
