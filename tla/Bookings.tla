------------------------------ MODULE Bookings ------------------------------
(***************************************************************************)
(* The promise calendar: bookings, their lines, and the reservations that  *)
(* hold units and bulk stock for a window.                                 *)
(*                                                                         *)
(* Several desks call the booking RPCs at once.  Each call is one database *)
(* transaction at READ COMMITTED: it sees what was committed when the      *)
(* statement began, waits for rows and product locks that others hold, and *)
(* its own writes become visible when it commits.  Every booking RPC but   *)
(* reallocate first cancels the pencils it finds expired.  The tables are  *)
(* synced, so the first write of a call also takes the org's watermark row *)
(* and keeps it: of two calls that have written, one waits for the other.  *)
(*                                                                         *)
(* A line for n units is n lines.  Time is cut into slots; the turnaround  *)
(* buffer is a number of slots, the prep buffer is left out.               *)
(***************************************************************************)
EXTENDS Naturals, Sequences, FiniteSetsExt

CONSTANTS
    Ids,        \* bookings
    Units,      \* the units of one serialized product
    NoUnit,     \* what a bulk line holds
    Desks,      \* concurrent callers
    Nobody,     \* no caller
    Mortal,     \* pencils whose expiry falls within the behaviour
    Asks,       \* what customers ask for: sequences of lines
    MaxLines,   \* bound: the lines of the longest booking
    MaxSlot,    \* bound: the last slot a customer asks for
    MaxTurn,    \* bound: the longest turnaround
    OnHand      \* the shelf count of one bulk product

ASSUME BookingAssumption ==
    /\ NoUnit \notin Units /\ Nobody \notin Desks /\ Nobody \notin Ids
    /\ MaxLines \in Nat \ {0} /\ MaxSlot \in Nat \ {0} /\ MaxTurn \in Nat /\ OnHand \in Nat

Line == [kind : {"unit"}, unit : Units, qty : {1}]
        \cup [kind : {"any"}, unit : {NoUnit}, qty : {1}]
        \cup [kind : {"bulk"}, unit : {NoUnit}, qty : Nat \ {0}]

ASSUME AsksAssumption ==
    \A ask \in Asks : ask # <<>> /\ ask \in Seq(Line) /\ Len(ask) <= MaxLines

VARIABLES
    booking,    \* the committed row of each booking
    claim,      \* the committed reservation of each line of each booking
    job,        \* the job of each booking
    lapsed,     \* pencils whose pencil_expires_at has passed
    tx,         \* the transaction each desk has open
    feed        \* the desk whose transaction holds the watermark row

vars == <<booking, claim, job, lapsed, tx, feed>>

-----------------------------------------------------------------------------
Lines == 1..MaxLines
Rows == Ids \X Lines

NoBooking == [status |-> "none", from |-> 1, until |-> 1, turn |-> 0,
              ask |-> <<>>]
NoClaim == [state |-> "none", unit |-> NoUnit, qty |-> 0, slots |-> {}]
Idle == [at |-> "idle", op |-> "none", b |-> Nobody, new |-> NoBooking,
         line |-> 1, expired |-> {}, sees |-> {}, drops |-> {},
         writes |-> [i \in Lines |-> NoClaim], products |-> {}, wrote |-> FALSE]

Init ==
    /\ booking = [b \in Ids |-> NoBooking]
    /\ claim = [r \in Rows |-> NoClaim]
    /\ job = [b \in Ids |-> "none"]
    /\ lapsed = {}
    /\ tx = [t \in Desks |-> Idle]
    /\ feed = Nobody

(* blocked_period: the customer's window and the turnaround behind it.     *)
Blocked(bk) == bk.from..(bk.until + bk.turn)

-----------------------------------------------------------------------------
(* Locks.  A transaction holds the bookings it has locked or cancelled,    *)
(* the reservations it has written, and the products it has locked.        *)

HoldsBooking(t, b) ==
    \/ tx[t].at \in {"lines", "done"} /\ tx[t].b = b
    \/ tx[t].at \in {"lock", "lines", "done"} /\ b \in tx[t].expired

HoldsRow(t, r) ==
    \/ r \in tx[t].drops
    \/ r[1] = tx[t].b /\ tx[t].writes[r[2]].state # "none"

BookingFree(t, b) == \A s \in Desks \ {t} : ~HoldsBooking(s, b)
RowFree(t, r) == \A s \in Desks \ {t} : ~HoldsRow(s, r)
ProductFree_NoLock(t, p) == TRUE
ProductFree(t, p) == \A s \in Desks \ {t} : p \notin tx[s].products

(* A call goes on once the watermark has been bumped for what it wrote.    *)
Bumped(t) == tx[t].wrote => feed = t

(* asset_reservations_no_double_booking.                                   *)
Clash(c, d) ==
    /\ c.state = "confirmed" /\ d.state = "confirmed"
    /\ c.unit = d.unit /\ c.unit # NoUnit
    /\ c.slots \cap d.slots # {}

(* The reservations t sees: the committed ones under its own writes.       *)
View(t, r) ==
    IF r \in tx[t].drops THEN NoClaim
    ELSE IF r[1] = tx[t].b /\ tx[t].writes[r[2]].state # "none" THEN tx[t].writes[r[2]]
    ELSE claim[r]

Admits_CommittedOnly(t, new) ==
    \A r \in DOMAIN new : \A q \in Rows \ {r} :
        ~Clash(new[r], IF q \in DOMAIN new THEN new[q] ELSE View(t, q))

(* The rows of `new' can take these next versions: none of them overlaps   *)
(* another, a reservation that t sees, or one that another transaction is  *)
(* about to commit.                                                        *)
Admits(t, new) ==
    \A r \in DOMAIN new :
        /\ \A q \in Rows \ {r} :
              ~Clash(new[r], IF q \in DOMAIN new THEN new[q] ELSE View(t, q))
        /\ \A s \in Desks \ {t}, i \in Lines : ~Clash(new[r], tx[s].writes[i])

-----------------------------------------------------------------------------
(* A call begins; prune_expired_pencils lists the pencils that have        *)
(* expired when the transaction starts.                                    *)
Begin(t) ==
    /\ tx[t].at = "idle"
    /\ \E op \in {"create", "confirm", "cancel", "extend", "convert"}, b \in Ids :
          /\ IF op = "create"
             THEN /\ booking[b].status = "none"
                  /\ \A s \in Desks : tx[s].at # "idle" => tx[s].b # b
             ELSE booking[b].status # "none"
          /\ LET old == {x \in Ids \cap lapsed : booking[x].status = "pencil"}
             IN tx' = [tx EXCEPT ![t] = [Idle EXCEPT
                          !.at = IF old = {} THEN "lock" ELSE "see",
                          !.op = op, !.b = b, !.expired = old]]
    /\ UNCHANGED <<booking, claim, job, lapsed, feed>>

(* bump_org_watermark waits for the call that holds the watermark row.     *)
Bump(t) ==
    /\ tx[t].wrote /\ feed = Nobody
    /\ feed' = t
    /\ UNCHANGED <<booking, claim, job, lapsed, tx>>

(* The update of their reservations finds the rows committed by now ...    *)
SeeClaims(t) ==
    /\ tx[t].at = "see"
    /\ tx' = [tx EXCEPT ![t].at = "drop",
                        ![t].sees = {r \in Rows : /\ r[1] \in tx[t].expired
                                                  /\ claim[r].state # "none"}]
    /\ UNCHANGED <<booking, claim, job, lapsed, feed>>

(* ... and deletes them once no other transaction holds one of them.       *)
DropClaims(t) ==
    /\ tx[t].at = "drop"
    /\ \A r \in tx[t].sees : RowFree(t, r)
    /\ tx' = [tx EXCEPT ![t].at = "prune", ![t].drops = tx[t].sees,
                        ![t].wrote = tx[t].sees # {}]
    /\ UNCHANGED <<booking, claim, job, lapsed, feed>>

(* The update of the bookings waits for their rows, and then asks only for *)
(* their ids, whatever has become of them.                                 *)
PruneBookings(t) ==
    /\ tx[t].at = "prune" /\ Bumped(t)
    /\ \A x \in tx[t].expired : BookingFree(t, x)
    /\ tx' = [tx EXCEPT ![t].at = "lock", ![t].wrote = TRUE]
    /\ UNCHANGED <<booking, claim, job, lapsed, feed>>

-----------------------------------------------------------------------------
(* create_booking: a draft, or a pencil that claims the units its lines    *)
(* name and the bulk stock they want, without blocking anybody.            *)
Create(t) ==
    /\ tx[t].at = "lock" /\ tx[t].op = "create" /\ Bumped(t)
    /\ \E ask \in Asks, s \in {"draft", "pencil"}, turn \in 0..MaxTurn,
          from \in 1..MaxSlot : \E until \in from..MaxSlot :
          LET bk == [status |-> s, from |-> from, until |-> until, turn |-> turn,
                     ask |-> ask]
          IN tx' = [tx EXCEPT
                ![t].at = "done", ![t].new = bk, ![t].wrote = TRUE,
                ![t].writes = [i \in Lines |->
                    IF s = "pencil" /\ i <= Len(ask) /\ ask[i].kind # "any"
                    THEN [state |-> "pencil", unit |-> ask[i].unit, qty |-> ask[i].qty,
                          slots |-> Blocked(bk)]
                    ELSE NoClaim]]
    /\ UNCHANGED <<booking, claim, job, lapsed, feed>>

(* The `for update' of the other RPCs, and what they then read.            *)
Locks(t, op) ==
    /\ tx[t].at = "lock" /\ tx[t].op = op /\ Bumped(t)
    /\ BookingFree(t, tx[t].b)
    /\ tx[t].b \notin tx[t].expired
    /\ booking[tx[t].b].status \notin {"none", "cancelled"}

(* confirm_booking up to the lines; the turnaround may be changed here.    *)
StartConfirm(t) ==
    /\ Locks(t, "confirm")
    /\ booking[tx[t].b].status # "confirmed"
    /\ \E turn \in 0..MaxTurn :
          tx' = [tx EXCEPT ![t].at = "lines",
                           ![t].new = [booking[tx[t].b] EXCEPT !.status = "confirmed",
                                                               !.turn = turn]]
    /\ UNCHANGED <<booking, claim, job, lapsed, feed>>

(* Units the booking's lines demand by name, and units picked so far.      *)
Picked(t) ==
    {tx[t].new.ask[i].unit : i \in DOMAIN tx[t].new.ask}
    \cup {tx[t].writes[i].unit : i \in {j \in Lines : tx[t].writes[j].state # "none"}}

(* stock_reserved_peak of everybody else, over the window, as t sees it.   *)
CoverAt(t, d) ==
    MapThenSumSet(LAMBDA r : claim[r].qty,
        {r \in Rows : /\ r[1] \notin {tx[t].b} \cup tx[t].expired
                      /\ booking[r[1]].status = "confirmed"
                      /\ claim[r].state = "confirmed" /\ claim[r].unit = NoUnit
                      /\ d \in claim[r].slots})

StockFits(t, qty, slots) == \A d \in slots : CoverAt(t, d) + qty <= OnHand

(* The reservation a line of a confirmation writes.                        *)
LineClaim(t, i, c) ==
    LET line == tx[t].new.ask[i]
        r == <<tx[t].b, i>>
        slots == Blocked(tx[t].new)
        held == claim[r].state # "none"
    IN  /\ c = [state |-> "confirmed", unit |-> c.unit, qty |-> line.qty, slots |-> slots]
        /\ \/ /\ line.kind = "unit"
              /\ c.unit = IF held THEN claim[r].unit ELSE line.unit
           \/ /\ line.kind = "any"
              /\ ProductFree(t, "fleet")
              /\ c.unit \in Units \ Picked(t)
           \/ /\ line.kind = "bulk"
              /\ ProductFree(t, "bulk")
              /\ c.unit = NoUnit
              /\ StockFits(t, line.qty, slots)

ProductOf(kind) ==
    IF kind = "any" THEN {"fleet"} ELSE IF kind = "bulk" THEN {"bulk"} ELSE {}

ConfirmLine(t) ==
    LET i == tx[t].line
        r == <<tx[t].b, i>>
    IN  /\ tx[t].at = "lines" /\ Bumped(t)
        /\ RowFree(t, r)
        /\ \E u \in Units \cup {NoUnit} :
              LET c == [state |-> "confirmed", unit |-> u, qty |-> tx[t].new.ask[i].qty,
                        slots |-> Blocked(tx[t].new)]
              IN  /\ LineClaim(t, i, c)
                  /\ Admits(t, [q \in {r} |-> c])
                  /\ tx' = [tx EXCEPT
                        ![t].at = IF i = Len(tx[t].new.ask) THEN "done" ELSE "lines",
                        ![t].line = IF i = Len(tx[t].new.ask) THEN i ELSE i + 1,
                        ![t].writes[i] = c, ![t].wrote = TRUE,
                        ![t].products = @ \cup ProductOf(tx[t].new.ask[i].kind)]
        /\ UNCHANGED <<booking, claim, job, lapsed, feed>>

(* cancel_booking: refused while a live job carries the gear.              *)
Cancel(t) ==
    LET live == {r \in Rows : r[1] = tx[t].b /\ claim[r].state # "none"}
    IN  /\ Locks(t, "cancel")
        /\ job[tx[t].b] # "open"
        /\ \A r \in live : RowFree(t, r)
        /\ tx' = [tx EXCEPT ![t].at = "done", ![t].wrote = TRUE,
                            ![t].new = [booking[tx[t].b] EXCEPT !.status = "cancelled"],
                            ![t].drops = @ \cup live]
        /\ UNCHANGED <<booking, claim, job, lapsed, feed>>

Moved_UnitsOnly(r, bk) ==
    IF claim[r].unit = NoUnit THEN claim[r] ELSE [claim[r] EXCEPT !.slots = Blocked(bk)]

(* extend_booking: the new end keeps the turnaround.  When a confirmed     *)
(* booking's new window meets somebody's promise, or no longer fits the    *)
(* stock, the collisions are returned and nothing is written.              *)
Moved(r, bk) == [claim[r] EXCEPT !.slots = Blocked(bk)]

Collides(t, live, bk) ==
    \E r \in live :
        \/ \E q \in Rows : q[1] # tx[t].b /\ Clash(Moved(r, bk), View(t, q))
        \/ /\ claim[r].state = "confirmed" /\ claim[r].unit = NoUnit
           /\ ~StockFits(t, claim[r].qty, Blocked(bk))

Extend(t) ==
    LET live == {r \in Rows : r[1] = tx[t].b /\ claim[r].state # "none"}
        bulk == {r \in live : claim[r].unit = NoUnit /\ claim[r].state = "confirmed"}
    IN  /\ Locks(t, "extend")
        /\ bulk # {} => ProductFree(t, "bulk")
        /\ \E until \in booking[tx[t].b].from..MaxSlot :
              LET bk == [booking[tx[t].b] EXCEPT !.until = until]
              IN  IF Collides(t, live, bk)
                  THEN tx' = [tx EXCEPT ![t].at = "done", ![t].new = booking[tx[t].b]]
                  ELSE /\ \A r \in live : RowFree(t, r)
                       /\ Admits(t, [r \in live |-> Moved(r, bk)])
                       /\ tx' = [tx EXCEPT
                             ![t].at = "done", ![t].new = bk, ![t].wrote = TRUE,
                             ![t].writes = [i \in Lines |->
                                 IF <<tx[t].b, i>> \in live
                                 THEN Moved(<<tx[t].b, i>>, bk) ELSE NoClaim],
                             ![t].products = IF bulk = {} THEN {} ELSE {"bulk"}]
        /\ UNCHANGED <<booking, claim, job, lapsed, feed>>

(* convert_booking_to_job: a confirmed booking gets its one job.           *)
Convert(t) ==
    /\ Locks(t, "convert")
    /\ booking[tx[t].b].status = "confirmed" /\ job[tx[t].b] = "none"
    /\ tx' = [tx EXCEPT ![t].at = "done", ![t].wrote = TRUE,
                        ![t].new = booking[tx[t].b]]
    /\ UNCHANGED <<booking, claim, job, lapsed, feed>>

Ends(t) ==
    /\ tx' = [tx EXCEPT ![t] = Idle]
    /\ feed' = IF feed = t THEN Nobody ELSE feed

Commit(t) ==
    /\ tx[t].at = "done" /\ Bumped(t)
    /\ claim' = [r \in Rows |-> View(t, r)]
    /\ booking' = [b \in Ids |->
                      IF b = tx[t].b THEN tx[t].new
                      ELSE IF b \in tx[t].expired THEN [booking[b] EXCEPT !.status = "cancelled"]
                      ELSE booking[b]]
    /\ job' = IF tx[t].op = "convert" THEN [job EXCEPT ![tx[t].b] = "open"] ELSE job
    /\ Ends(t)
    /\ UNCHANGED lapsed

(* A refusal, a deadlock or a lost connection: everything the call did,    *)
(* its pruning included, is undone.                                        *)
Rollback(t) ==
    /\ tx[t].at # "idle"
    /\ Ends(t)
    /\ UNCHANGED <<booking, claim, job, lapsed>>

-----------------------------------------------------------------------------
Reallocate_AnyRow(r, u) ==
    /\ claim[r].state # "none" /\ claim[r].unit # u
    /\ feed = Nobody
    /\ \A t \in Desks : ~HoldsRow(t, r)
    /\ claim' = [claim EXCEPT ![r].unit = u]
    /\ UNCHANGED <<booking, job, lapsed, tx, feed>>

Reallocate_CommittedOnly(r, u) ==
    /\ claim[r].state # "none" /\ claim[r].unit \notin {NoUnit, u}
    /\ feed = Nobody
    /\ \A t \in Desks : ~HoldsRow(t, r)
    /\ \A q \in Rows \ {r} : ~Clash([claim[r] EXCEPT !.unit = u], claim[q])
    /\ claim' = [claim EXCEPT ![r].unit = u]
    /\ UNCHANGED <<booking, job, lapsed, tx, feed>>

(* reallocate_reservation swaps the unit of one reservation; it neither    *)
(* prunes nor locks the booking, and is one statement.                     *)
Reallocate(r, u) ==
    /\ claim[r].state # "none" /\ claim[r].unit \notin {NoUnit, u}
    /\ feed = Nobody
    /\ \A t \in Desks : ~HoldsRow(t, r)
    /\ LET c == [claim[r] EXCEPT !.unit = u]
       IN  /\ \A q \in Rows \ {r} : ~Clash(c, claim[q])
           /\ \A s \in Desks, i \in Lines : ~Clash(c, tx[s].writes[i])
           /\ claim' = [claim EXCEPT ![r] = c]
    /\ UNCHANGED <<booking, job, lapsed, tx, feed>>

(* close_job, once the gear has come home, and reopen_job; neither asks    *)
(* for the booking.                                                        *)
JobTurns(b, from, to) ==
    /\ job[b] = from
    /\ feed = Nobody
    /\ job' = [job EXCEPT ![b] = to]
    /\ UNCHANGED <<booking, claim, lapsed, tx, feed>>

CloseJob(b) == JobTurns(b, "open", "closed")
ReopenJob(b) == JobTurns(b, "closed", "open")

Lapse(b) ==
    /\ b \in Mortal \ lapsed /\ booking[b].status = "pencil"
    /\ lapsed' = lapsed \cup {b}
    /\ UNCHANGED <<booking, claim, job, tx, feed>>

Next ==
    \/ \E t \in Desks :
          \/ Begin(t) \/ Bump(t) \/ SeeClaims(t) \/ DropClaims(t) \/ PruneBookings(t)
          \/ Create(t) \/ StartConfirm(t) \/ ConfirmLine(t)
          \/ Cancel(t) \/ Extend(t) \/ Convert(t)
          \/ Commit(t) \/ Rollback(t)
    \/ \E r \in Rows, u \in Units : Reallocate(r, u)
    \/ \E b \in Ids : CloseJob(b) \/ ReopenJob(b) \/ Lapse(b)

Spec == Init /\ [][Next]_vars
-----------------------------------------------------------------------------
Window == SUBSET (1..(MaxSlot + MaxTurn))
BookingRow == [status : {"none", "draft", "pencil", "confirmed", "cancelled"},
               from : 1..MaxSlot, until : 1..MaxSlot, turn : 0..MaxTurn,
               ask : Asks \cup {<<>>}]
Claim == [state : {"none", "pencil", "confirmed"}, unit : Units \cup {NoUnit},
          qty : Nat, slots : Window]
Transaction ==
    [at : {"idle", "see", "drop", "prune", "lock", "lines", "done"},
     op : {"none", "create", "confirm", "cancel", "extend", "convert"},
     b : Ids \cup {Nobody}, new : BookingRow, line : Lines,
     expired : SUBSET Ids, sees : SUBSET Rows, drops : SUBSET Rows,
     writes : [Lines -> Claim], products : SUBSET {"fleet", "bulk"}, wrote : BOOLEAN]

(* A reservation of a unit is for one of it.                               *)
OneThing(c) == c.unit # NoUnit => c.qty = 1

(* The rows and the open transactions have their types, and a reservation  *)
(* of a unit is for one of it.                                             *)
BookingTypeOK ==
    /\ booking \in [Ids -> BookingRow]
    /\ claim \in [Rows -> Claim]
    /\ \A r \in Rows : OneThing(claim[r])
    /\ job \in [Ids -> {"none", "open", "closed"}]
    /\ lapsed \subseteq Ids
    /\ tx \in [Desks -> Transaction]
    /\ feed \in Desks \cup {Nobody}

(* No unit is promised twice for one moment, whoever confirms, extends and *)
(* reallocates at the same time.                                           *)
NoDoublePromise ==
    \A r \in Rows, q \in Rows : r # q => ~Clash(claim[r], claim[q])

(* No unit is promised twice, and none is about to be: no call sees a       *)
(* double promise, its own writes included, and no two calls hold one that *)
(* they might both commit.                                                 *)
NoClash ==
    /\ NoDoublePromise
    /\ \A t \in Desks, r \in Rows, q \in Rows : r # q => ~Clash(View(t, r), View(t, q))
    /\ \A t \in Desks, s \in Desks, i \in Lines, j \in Lines :
          t # s => ~Clash(tx[t].writes[i], tx[s].writes[j])

CallOK(t) ==
    /\ tx[t].at # "idle" => tx[t].b \in Ids
    /\ tx[t].at \in {"see", "drop", "prune", "lock"} =>
          tx[t].line = 1 /\ \A i \in Lines : tx[t].writes[i] = NoClaim
    /\ tx[t].at \in {"lines", "done"} => tx[t].new.ask \in Asks
    /\ tx[t].at = "lines" => tx[t].line \in DOMAIN tx[t].new.ask
    /\ \A i \in Lines : OneThing(tx[t].writes[i])

(* The inductive invariant behind NoDoublePromise.                         *)
BookInv ==
    /\ BookingTypeOK
    /\ \A b \in Ids :
          booking[b].status \notin {"none", "cancelled"} => booking[b].ask \in Asks
    /\ \A t \in Desks : CallOK(t)
    /\ NoClash

(* At no moment is more bulk stock promised than there is.                 *)
StockHolds ==
    \A d \in 1..(MaxSlot + MaxTurn) :
        MapThenSumSet(LAMBDA r : claim[r].qty,
            {r \in Rows : /\ claim[r].state = "confirmed" /\ claim[r].unit = NoUnit
                          /\ booking[r[1]].status = "confirmed"
                          /\ d \in claim[r].slots}) <= OnHand

(* There is no confirmed but unallocated booking: every line of a          *)
(* confirmed booking holds something for the whole blocked window.         *)
ConfirmedIsAllocated ==
    \A b \in Ids : booking[b].status = "confirmed" =>
        \A i \in DOMAIN booking[b].ask :
            /\ claim[<<b, i>>].state = "confirmed"
            /\ claim[<<b, i>>].slots = Blocked(booking[b])

(* Only cancel_booking takes a confirmed promise back.                     *)
PromisesStand ==
    [][\A b \in Ids :
          booking[b].status = "confirmed" /\ booking'[b].status = "cancelled" =>
              \E t \in Desks : tx[t].op = "cancel" /\ tx[t].b = b]_vars
=============================================================================
