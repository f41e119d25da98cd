---------------------------- MODULE MCCursorPull ----------------------------
(* CursorPull on small instances.                                          *)
EXTENDS CursorPull, TLC
CONSTANTS a, b, p, t1, t2, floor, desk
MCTables == {{a, b}, {p}}
MCRows == {a, b, p}
OneTable == {{a, b}}
TwoRows == {a, b}
Writer == Permutations({t1, t2})
=============================================================================
