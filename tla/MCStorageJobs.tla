---------------------------- MODULE MCStorageJobs ----------------------------
(* Values for TLC.                                                         *)
EXTENDS StorageJobs, TLC

CONSTANTS p1, p2, r1, r2

Symmetric == Permutations(Packages) \cup Permutations(Runners)
==============================================================================
