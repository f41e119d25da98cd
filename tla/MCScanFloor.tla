----------------------------- MODULE MCScanFloor -----------------------------
EXTENDS ScanFloor, TLC

CONSTANTS amp, cable, code, spare, e1, e2, j1, j2

MCStuck == (code :> amp) @@ (spare :> NoItem)
Day(lenses, s, r, m, k, t) ==
    [cameras |-> lenses, sessions |-> s, rows |-> r, moves |-> m, kills |-> k, sheets |-> t]

(* Two cameras overlapping; one camera and its sheets; a long day by hand; *)
(* a day on which the app is killed.                                       *)
MCDays == {Day(Eyes, 2, 1, 3, 0, 0), Day({e1}, 2, 2, 3, 0, 2),
           Day({}, 3, 2, 5, 0, 2), Day({}, 2, 2, 3, 1, 2)}
Symmetry == Permutations(Jobs)
=============================================================================
