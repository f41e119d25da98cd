------------------------------ MODULE MCHisaab ------------------------------
(* Hisaab on small instances.                                              *)
EXTENDS Hisaab
CONSTANTS desk, office, j1
MCDesks == {desk, office}
=============================================================================
