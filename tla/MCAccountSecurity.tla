--------------------------- MODULE MCAccountSecurity ---------------------------
(* Values for TLC.                                                         *)
EXTENDS AccountSecurity, TLC

CONSTANTS h1, h2, h3

Symmetric == Permutations(Handlers)
================================================================================
