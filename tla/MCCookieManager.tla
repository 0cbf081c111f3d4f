-------------------------- MODULE MCCookieManager --------------------------
(* Small instances of CookieManager for TLC.                               *)
EXTENDS CookieManager, TLC

Symmetric == Permutations(Players \ Bots) \cup Permutations(Names)
                \cup Permutations(Versions)
=============================================================================
