---------------------------- MODULE MCBookingIntake ----------------------------
(* Values for TLC: two booking calls with one key and different bodies, a  *)
(* receive call with the same key on another path, and a bay move; the map *)
(* holds two answers.                                                      *)
EXTENDS BookingIntake, TLC

CONSTANTS k1, k2, b1, b2, p1, p2, bayA, bayB, h1, h2, light, heavy

MCCalls ==
    {[path |-> "bookings", key |-> k1, declared |-> light],
     [path |-> "bookings", key |-> k1, declared |-> heavy],
     [path |-> "receive", key |-> k1, booking |-> b1, count |-> 1, bay |-> bayA],
     [path |-> "move", key |-> k2, packages |-> {p1}, from |-> bayA, to |-> bayB],
     [path |-> "locker", key |-> NoKey, bay |-> bayB]}

Symmetric == Permutations(Handlers)
==============================================================================
