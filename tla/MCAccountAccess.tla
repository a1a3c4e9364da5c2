-------------------------- MODULE MCAccountAccess --------------------------
(* AccountAccess on small instances.  Links, sessions and handlers are      *)
(* interchangeable, and so are the users that are not there from the start. *)
EXTENDS AccountAccess, TLC

CONSTANTS a1, a2, u1, l1, l2, s1, s2, h1, h2    \* model values

AccessSymmetry ==
    Permutations(Links) \cup Permutations(Sessions) \cup Permutations(Handlers)
=============================================================================
