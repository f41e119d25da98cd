--------------------------- MODULE CalendarRules ---------------------------
(***************************************************************************)
(* The rules of the promise calendar as functions of a calendar's rows.    *)
(* The phone (packages/core/src/bookings.ts, apps/app/src/demo/bookings.ts)*)
(* runs them over its mirror and the server (0022) over its tables; where  *)
(* the two differ the operator takes what differs as a parameter.          *)
(*                                                                         *)
(* A book is [rows, claims, jobs]: a row for each booking's name, the      *)
(* reservations, and the bookings that became a job.  A line for n units   *)
(* is n lines.  The exposure of a booking, its customer's credentials and  *)
(* black list, and the fitness of a unit are left out.                     *)
(***************************************************************************)
EXTENDS Integers, Sequences, FiniteSets, FiniteSetsExt

CONSTANTS
    Bookings,
    Units,    \* the units of one serialized product
    Stock,    \* the bulk product
    OnHand,   \* how many of it the house has
    Prep,     \* hours of preparation
    Turn,     \* hours of turnaround
    Ttl       \* the life of a pencil

ASSUME RulesAssumption ==
    /\ Stock \notin Units
    /\ OnHand \in Nat /\ Prep \in Nat /\ Turn \in Nat /\ Ttl \in Nat \ {0}

(* A booking is called one thing by the phone that made it and another by  *)
(* the server.                                                             *)
Names == Bookings \X {"phone", "server"}

NoRow == [status |-> "none", from |-> 0, until |-> 0, hfrom |-> 0, huntil |-> 0,
          expires |-> 0, lines |-> <<>>]
EmptyBook == [rows |-> [b \in Names |-> NoRow], claims |-> {}, jobs |-> {}]

Window(from, until) == [from |-> from, until |-> until]
HeldWindow(row) == Window(row.hfrom, row.huntil)

(* '[)': windows that touch do not overlap.                                *)
Overlaps(v, w) == v.from < w.until /\ w.from < v.until

BlockedPeriod(w) == Window(w.from - Prep, w.until + Turn)

(* A pencil is alive until its stored expiry.                              *)
IsLivePencil(row, now) == row.status = "pencil" /\ row.expires > now
StampOf(row, now) ==
    IF row.status = "pencil" /\ ~IsLivePencil(row, now) THEN "cancelled" ELSE row.status

-----------------------------------------------------------------------------
(* Claims.                                                                 *)

OfBooking(book, b) == {c \in book.claims : c.booking = b}

(* The promises on a thing that meet a window, but for one booking's own.  *)
Promises(book, thing, w, b) ==
    {c \in book.claims : /\ c.thing = thing /\ c.state = "confirmed"
                         /\ book.rows[c.booking].status = "confirmed"
                         /\ c.booking # b /\ Overlaps(c, w)}

QtyAt(claims, t) == MapThenSumSet(LAMBDA c : c.qty, {c \in claims : c.from <= t /\ t < c.until})

(* peakOverlap: the most that is claimed at once inside the window.        *)
PeakOverlap(claims, w) == Max({0} \cup {QtyAt(claims, t) : t \in w.from..(w.until - 1)})

(* What of the bulk product is left over a window for booking b.           *)
LeftOver(book, w, b) == OnHand - PeakOverlap(Promises(book, Stock, w, b), w)

-----------------------------------------------------------------------------
(* planConfirm and the loop of confirm_booking: the ways to bind a thing   *)
(* to every line.  Units demanded by name are spoken for first; the order  *)
(* in which free units are tried is by wear, which the phone does not have.*)
Demanded(lines) == {lines[i].unit : i \in {j \in DOMAIN lines : lines[j].kind = "unit"}}

LineFits_StockUnchecked(book, b, w, line, thing, demanded) ==
    \/ line.kind = "unit" /\ thing = line.unit /\ Promises(book, thing, w, b) = {}
    \/ line.kind = "any" /\ thing \in Units \ demanded /\ Promises(book, thing, w, b) = {}
    \/ line.kind = "bulk" /\ thing = Stock /\ line.qty <= OnHand
LineFits(book, b, w, line, thing, demanded) ==
    \/ /\ line.kind = "unit" /\ thing = line.unit
       /\ Promises(book, thing, w, b) = {}
    \/ /\ line.kind = "any" /\ thing \in Units \ demanded
       /\ Promises(book, thing, w, b) = {}
    \/ /\ line.kind = "bulk" /\ thing = Stock
       /\ line.qty <= LeftOver(book, w, b)   \* b holds nothing confirmed yet

PlanConfirm(book, b, hold) ==
    LET lines == book.rows[b].lines
    IN {plan \in [DOMAIN lines -> Units \cup {Stock}] :
           /\ \A i \in DOMAIN lines :
                 LineFits(book, b, hold, lines[i], plan[i], Demanded(lines))
           /\ \A i, j \in DOMAIN lines :
                 i # j /\ lines[i].kind = "any" /\ lines[j].kind = "any" => plan[i] # plan[j]}

(* May booking b be confirmed for this hold at all?                        *)
Confirmable(book, b, hold) ==
    /\ book.rows[b].status \in {"draft", "pencil"}
    /\ hold.from <= book.rows[b].from /\ book.rows[b].until <= hold.until

(* What a confirmation writes: a claim that a line already has is upgraded *)
(* where it stands, unless the line left the choice open.                  *)
Confirmed(book, b, hold, plan, guess) ==
    LET lines == book.rows[b].lines
        Upgraded(c) == IF lines[c.line].kind = "any" THEN c
                       ELSE [c EXCEPT !.state = "confirmed", !.from = hold.from, !.until = hold.until]
        own == OfBooking(book, b)
        open == {i \in DOMAIN lines : lines[i].kind = "any" \/ \A c \in own : c.line # i}
    IN [book EXCEPT
          !.rows[b].status = "confirmed", !.rows[b].expires = 0,
          !.rows[b].hfrom = hold.from, !.rows[b].huntil = hold.until,
          !.claims = (@ \ own) \cup {Upgraded(c) : c \in own}
                     \cup {[booking |-> b, line |-> i, thing |-> plan[i], qty |-> lines[i].qty,
                            from |-> hold.from, until |-> hold.until,
                            state |-> "confirmed", guess |-> guess] : i \in open}]

(* createBooking and create_booking: a draft, or a pencil with claims on   *)
(* what its lines name, which block nobody.                                *)
Created(book, b, w, lines, status, now, guess) ==
    LET hold == BlockedPeriod(w)
        row == [status |-> status, from |-> w.from, until |-> w.until,
                hfrom |-> hold.from, huntil |-> hold.until,
                expires |-> IF status = "pencil" THEN now + Ttl ELSE 0, lines |-> lines]
        named == {i \in DOMAIN lines : status = "pencil" /\ lines[i].kind # "any"}
    IN [book EXCEPT
          !.rows[b] = row,
          !.claims = @ \cup {[booking |-> b, line |-> i,
                              thing |-> IF lines[i].kind = "unit" THEN lines[i].unit ELSE Stock,
                              qty |-> lines[i].qty, from |-> hold.from, until |-> hold.until,
                              state |-> "pencil", guess |-> guess] : i \in named}]

Cancelled(book, bs) ==
    [book EXCEPT !.rows = [b \in Names |-> IF b \in bs THEN [@[b] EXCEPT !.status = "cancelled", !.expires = 0]
                                           ELSE @[b]],
                 !.claims = {c \in @ : c.booking \notin bs}]

(* pruneExpiredPencils and prune_expired_pencils.                          *)
Pruned(book, now) ==
    Cancelled(book, {b \in Names : /\ book.rows[b].status = "pencil"
                                   /\ ~IsLivePencil(book.rows[b], now)})

(* extendedWindow: the tail the booking has survives the extension.        *)
ExtendedHold(row, until) == Window(row.hfrom, until + (row.huntil - row.until))

(* extensionCollisions: the promises a longer hold would break.            *)
ExtensionCollisions(book, b, until) ==
    LET hold == ExtendedHold(book.rows[b], until)
        mine == {c \in OfBooking(book, b) : c.state = "confirmed"}
        short == {c \in mine : c.thing \in Units \/ LeftOver(book, hold, b) < c.qty}
    IN IF book.rows[b].status # "confirmed" THEN {}
       ELSE UNION {Promises(book, c.thing, hold, b) : c \in short}

Extended(book, b, until) ==
    LET hold == ExtendedHold(book.rows[b], until)
        own == OfBooking(book, b)
    IN [book EXCEPT
          !.rows[b].until = until, !.rows[b].huntil = hold.until,
          !.claims = (@ \ own) \cup {[c EXCEPT !.until = hold.until] : c \in own}]

(* reallocateReservation: a promised claim moves to another unit.          *)
MayMove(book, c, unit) ==
    /\ c.thing \in Units /\ unit \in Units
    /\ Promises(book, unit, c, c.booking) = {}
    /\ \A d \in OfBooking(book, c.booking) \ {c} : ~(d.thing = unit /\ d.state = "confirmed")

Moved(book, c, unit) == [book EXCEPT !.claims = (@ \ {c}) \cup {[c EXCEPT !.thing = unit]}]
=============================================================================
