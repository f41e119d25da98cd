----------------------------- MODULE ExactlyOnce ----------------------------
(***************************************************************************)
(* What the offline write path promises a person with a phone, with no     *)
(* queue, network or server in it: a write that was recorded is held until *)
(* it has landed or been refused; it lands once; a refused write never     *)
(* lands, and is forgotten only when the person drops it.                  *)
(***************************************************************************)
CONSTANT Writes

VARIABLE fate

Init == fate = [w \in Writes |-> "unborn"]

Move(S, from, to) ==
    /\ S # {}
    /\ \A w \in S : fate[w] = from
    /\ fate' = [w \in Writes |-> IF w \in S THEN to ELSE fate[w]]

Record(w) == Move({w}, "unborn", "held")
Land(S)   == Move(S, "held", "landed")
Refuse(S) == Move(S, "held", "refused")
Drop(S)   == Move(S, "refused", "dropped")

Next ==
    \/ \E w \in Writes : Record(w)
    \/ \E S \in SUBSET Writes : Land(S) \/ Refuse(S) \/ Drop(S)

Spec == Init /\ [][Next]_fate
=============================================================================
