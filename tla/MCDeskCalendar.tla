-------------------------- MODULE MCDeskCalendar --------------------------
(* The calendar on small instances. *)
EXTENDS DeskCalendar, TLC
CONSTANTS u1, u2, m1, r1
ThisUnit(u) == [kind |-> "unit", unit |-> u, qty |-> 1]
AnyUnit == [kind |-> "any", unit |-> Stock, qty |-> 1]
Cables(n) == [kind |-> "bulk", unit |-> Stock, qty |-> n]
SmallAsks == (m1 :> {<<AnyUnit, Cables(1)>>}) @@ (r1 :> {<<ThisUnit(u1)>>, <<Cables(1)>>})
TwoWindows == {Window(1, 2), Window(3, 4)}
OneWindow == {Window(1, 2)}
=============================================================================
