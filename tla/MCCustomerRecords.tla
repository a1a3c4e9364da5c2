-------------------------- MODULE MCCustomerRecords --------------------------
(* CustomerRecords on a small instance.                                    *)
EXTENDS CustomerRecords, TLC

CONSTANTS c1, c2    \* model values

CallSymmetry == Permutations(Calls)
=============================================================================
