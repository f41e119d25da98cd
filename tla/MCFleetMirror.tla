--------------------------- MODULE MCFleetMirror ---------------------------
(* One phone, two assets and one other device of the house. *)
EXTENDS FleetMirror
=============================================================================
