----------------------------- MODULE ChangeLog -----------------------------
(***************************************************************************)
(* The server side of cursor sync: how syncable rows get their change      *)
(* numbers and how those numbers become visible.                           *)
(*                                                                         *)
(* Every insert or update of a syncable row draws the next change_seq in a *)
(* BEFORE ROW trigger (set_change_seq).  The statement's AFTER STATEMENT   *)
(* trigger (bump_org_watermark) then updates the organisation's one        *)
(* watermark row, and the lock on that row is kept until the transaction   *)
(* ends.  Numbers are drawn when a row is written and seen when its        *)
(* transaction commits, so they can become visible out of order.           *)
(*                                                                         *)
(* One organisation is modelled.  A row is its current version; a deleted  *)
(* row is a version like any other (soft delete).                          *)
(***************************************************************************)
EXTENDS Naturals

CONSTANTS
    Rows,       \* the syncable rows of the organisation
    Writers,    \* the database sessions that write them
    Nobody,     \* no writer
    MaxSeq,     \* bound: change numbers drawn
    MaxXid      \* bound: transactions started

ASSUME NobodyAssumption == Nobody \notin Writers
ASSUME BoundsAssumption == MaxSeq \in Nat /\ MaxXid \in Nat

VARIABLES
    row,        \* the committed version of each row: change_seq and changed_xid8
    pend,       \* the uncommitted version of each row and who wrote it
    tx,         \* the open transaction of each writer
    holder,     \* who holds the lock on the watermark row
    mark,       \* org_sync_watermark.max_change_seq, as committed
    nextSeq,    \* the sequence change_seq_seq
    nextXid,    \* the next transaction id
    horizon     \* the numbers up to here were drawn more than 3 seconds ago

logVars == <<row, pend, tx, holder, mark, nextSeq, nextXid, horizon>>

-----------------------------------------------------------------------------
NoVersion == [seq |-> 0, xid |-> 0]
NotPending == [seq |-> 0, by |-> Nobody]
Closed == [xid |-> 0, at |-> "closed"]

OpenTx == {t \in Writers : tx[t].at # "closed"}
InFlight == {r \in Rows : pend[r].by # Nobody}
WrittenBy(t) == {r \in Rows : pend[r].by = t}

LogInit ==
    /\ row = [r \in Rows |-> NoVersion]
    /\ pend = [r \in Rows |-> NotPending]
    /\ tx = [t \in Writers |-> Closed]
    /\ holder = Nobody
    /\ mark = 0
    /\ nextSeq = 1
    /\ nextXid = 1
    /\ horizon = 0

(* A transaction gets its id at its first write, which need not be to a    *)
(* syncable row.                                                           *)
Begin(t) ==
    /\ tx[t] = Closed
    /\ nextXid <= MaxXid
    /\ tx' = [tx EXCEPT ![t] = [xid |-> nextXid, at |-> "between"]]
    /\ nextXid' = nextXid + 1
    /\ UNCHANGED <<row, pend, holder, mark, nextSeq, horizon>>

(* set_change_seq for one row of a statement.  Two transactions cannot     *)
(* write one row at a time: the second waits for the row's lock.           *)
WriteRow(t, r) ==
    /\ t \in OpenTx
    /\ pend[r].by \in {Nobody, t}
    /\ nextSeq <= MaxSeq
    /\ pend' = [pend EXCEPT ![r] = [seq |-> nextSeq, by |-> t]]
    /\ nextSeq' = nextSeq + 1
    /\ tx' = [tx EXCEPT ![t].at = "statement"]
    /\ UNCHANGED <<row, holder, mark, nextXid, horizon>>

(* bump_org_watermark at the end of the statement: wait for the watermark  *)
(* row's lock and keep it.                                                 *)
BumpWatermark(t) ==
    /\ tx[t].at = "statement"
    /\ holder \in {Nobody, t}
    /\ holder' = t
    /\ tx' = [tx EXCEPT ![t].at = "between"]
    /\ UNCHANGED <<row, pend, mark, nextSeq, nextXid, horizon>>

Released(t) == IF holder = t THEN Nobody ELSE holder

Greatest_Excluded(m, t) ==
    /\ m \in (IF WrittenBy(t) = {} THEN {mark} ELSE {pend[r].seq : r \in WrittenBy(t)})
    /\ \A r \in WrittenBy(t) : pend[r].seq <= m

(* The upsert keeps the greatest number, so m covers the old watermark and *)
(* every row the transaction wrote.                                        *)
Greatest(m, t) ==
    /\ m \in {mark} \cup {pend[r].seq : r \in WrittenBy(t)}
    /\ mark <= m
    /\ \A r \in WrittenBy(t) : pend[r].seq <= m

Commit(t) ==
    /\ tx[t].at = "between"
    /\ row' = [r \in Rows |-> IF r \in WrittenBy(t)
                              THEN [seq |-> pend[r].seq, xid |-> tx[t].xid]
                              ELSE row[r]]
    /\ pend' = [r \in Rows |-> IF r \in WrittenBy(t) THEN NotPending ELSE pend[r]]
    /\ \E m \in 0..nextSeq : Greatest(m, t) /\ mark' = m
    /\ tx' = [tx EXCEPT ![t] = Closed]
    /\ holder' = Released(t)
    /\ UNCHANGED <<nextSeq, nextXid, horizon>>

(* An error, a lost connection, or the loser of a deadlock on the          *)
(* watermark row and a syncable row: the numbers drawn are never used.     *)
Abort(t) ==
    /\ t \in OpenTx
    /\ pend' = [r \in Rows |-> IF r \in WrittenBy(t) THEN NotPending ELSE pend[r]]
    /\ tx' = [tx EXCEPT ![t] = Closed]
    /\ holder' = Released(t)
    /\ UNCHANGED <<row, mark, nextSeq, nextXid, horizon>>

(* Three seconds pass for the numbers up to n.                             *)
Age ==
    /\ \E n \in (horizon + 1)..(nextSeq - 1) : horizon' = n
    /\ UNCHANGED <<row, pend, tx, holder, mark, nextSeq, nextXid>>

LogNext ==
    \/ \E t \in Writers :
          Begin(t) \/ BumpWatermark(t) \/ Commit(t) \/ Abort(t)
    \/ \E t \in Writers, r \in Rows : WriteRow(t, r)
    \/ Age
=============================================================================
