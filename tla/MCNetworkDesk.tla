---------------------------- MODULE MCNetworkDesk ----------------------------
(* The network desk on small instances. *)
EXTENDS NetworkDesk, TLC
CONSTANTS h1, l1, l2, u1, w1, p1, p2
=============================================================================
