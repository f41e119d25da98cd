----------------------------- MODULE MCBookings -----------------------------
(* Bookings on a small instance: what a customer asks for, one amplifier   *)
(* and two cables, of two amplifiers and three cables.                     *)
EXTENDS Bookings, TLC
CONSTANTS u1, u2, b1, b2, d1, d2

Asked == {<<[kind |-> "any", unit |-> NoUnit, qty |-> 1],
            [kind |-> "bulk", unit |-> NoUnit, qty |-> 2]>>}
SymmetryUnits == Permutations(Desks) \cup Permutations(Units)
=============================================================================
