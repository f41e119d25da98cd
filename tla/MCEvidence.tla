----------------------------- MODULE MCEvidence -----------------------------
(* A scan, a photo that fills the budget, one that half fills it, and a    *)
(* note; a ladder of three steps, with a table a later step widens, as     *)
(* booking_lines is made by step 5 and widened by step 6.                  *)
EXTENDS Evidence

CONSTANTS s1, p1, p2

MCWeight == [i \in Media |-> IF i = p1 THEN 2 ELSE 1]
MCBaseline == {TheTable("sync_meta"), TheTable("jobs"), TheTable("outbox")}
MCLadder == <<
    <<[do |-> "column", table |-> "jobs", column |-> "closed_at"]>>,
    <<[do |-> "table", table |-> "lines"]>>,
    <<[do |-> "column", table |-> "lines", column |-> "rate"],
      [do |-> "table", table |-> "members"]>> >>

(* A database of any wave, stamped or older than the stamp, empty or with  *)
(* a scan and a photo waiting.                                             *)
Found(v, stamp, s, i) ==
    [schema |-> Given(v), stamp |-> stamp, outbox |-> s, effect |-> s, rows |-> i,
     uploaded |-> {}, queue |-> SetToSeq(i), done |-> {}]
MCInherited ==
    {Found(v, 0, s, {}) : v \in 1..4, s \in {{}, {s1}}}
        \cup {Found(v, v, {}, i) : v \in 2..4, i \in {{}, {p2}}}
=============================================================================
