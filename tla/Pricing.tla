------------------------------ MODULE Pricing ------------------------------
(***************************************************************************)
(* What a rental costs: the phone's pipeline (packages/core/src/pricing.ts)*)
(* and the server's price_booking (0024), which the first says it copies.  *)
(*                                                                         *)
(* Instants are ticks and dates are numbers.  A card's week is counted in  *)
(* half days (week_equals_days is numeric) and a multiplier in percent, so *)
(* that every amount below is exact until the rounding the code does.      *)
(***************************************************************************)
EXTENDS Integers, Sequences, FiniteSets

CONSTANTS
    DayLength,   \* ticks in a rental day
    Zone         \* ticks the house's zone is ahead of the clock's

ASSUME PricingAssumption ==
    /\ DayLength \in Nat \ {0}
    /\ Zone \in Nat

NoRate == -1
NoCard == [there |-> FALSE, week |-> 6, min |-> 1, mask |-> {}]
Card(week, min, mask) == [there |-> TRUE, week |-> week, min |-> min, mask |-> mask]

Window(a, b) == [from |-> a, until |-> b]
CeilDiv(a, b) == (a + b - 1) \div b
Highest(S) == CHOOSE x \in S : \A y \in S : y <= x
Atleast(a, b) == IF a >= b THEN a ELSE b
Atmost(a, b) == IF a <= b THEN a ELSE b

-----------------------------------------------------------------------------
(* Step 1: the days of the window, less the card's free weekdays, at least *)
(* the card's minimum.  Step 2: a week bills as week_equals_days.          *)
LocalDate(t) == (t + Zone) \div DayLength
IsoWeekday(day) == (day % 7) + 1

CalendarDays(w) == Atleast(1, CeilDiv(w.until - w.from, DayLength))
Dates(w) == LocalDate(w.from)..(LocalDate(w.from) + CalendarDays(w) - 1)
Dropped(w, mask) == {day \in Dates(w) : IsoWeekday(day) \in mask}
CountedDays(w, card) ==
    Atleast(CalendarDays(w) - Cardinality(Dropped(w, card.mask)), card.min)

WeekRule_NoCeiling(counted, week) == (counted \div 7) * week + 2 * (counted % 7)
WeekRule(counted, week) == (counted \div 7) * week + Atmost(2 * (counted % 7), week)

BillableHalves(w, card) == WeekRule(CountedDays(w, card), card.week)

(* Step 4: the dearest calendar day inside the window.  days is a set of   *)
(* [day, percent].                                                         *)
Multiplier(days, w) ==
    LET inside == {d.percent : d \in {x \in days : x.day \in Dates(w)}}
    IN  IF inside = {} THEN 100 ELSE Highest(inside)

(* Steps 3 and 5: the card's rate, unless the owner's last word stands; it *)
(* takes no multiplier.  Math.round of qty * days * rate * multiplier.     *)
CardRate(card, rates, p) == IF card.there /\ p \in DOMAIN rates THEN rates[p] ELSE NoRate
LineTotal(qty, halves, rate, percent) == (qty * halves * rate * percent + 100) \div 200

QuoteLine_MultiplyAll(line, card, rates, halves, percent) ==
    LET byCard == CardRate(card, rates, line.product)
        manual == line.rate # NoRate
        rate == IF manual THEN line.rate ELSE byCard
    IN  [product |-> line.product, qty |-> line.qty, rate |-> rate, manual |-> manual,
         total |-> IF rate = NoRate THEN NoRate
                   ELSE LineTotal(line.qty, halves, rate, percent)]
QuoteLine(line, card, rates, halves, percent) ==
    LET byCard == CardRate(card, rates, line.product)
        manual == line.rate # NoRate
        rate == IF manual THEN line.rate ELSE byCard
    IN  [product |-> line.product, qty |-> line.qty, rate |-> rate, manual |-> manual,
         total |-> IF rate = NoRate THEN NoRate
                   ELSE LineTotal(line.qty, halves, rate, IF manual THEN 100 ELSE percent)]

(* Step 6.  An unpriced line is counted, never a zero in the sum.          *)
Sum(lines) ==
    LET upTo[i \in 0..Len(lines)] ==
          IF i = 0 THEN 0
          ELSE upTo[i - 1] + IF lines[i].total = NoRate THEN 0 ELSE lines[i].total
    IN  upTo[Len(lines)]
Unpriced(lines) == Cardinality({i \in DOMAIN lines : lines[i].total = NoRate})

PriceQuote(card, rates, days, w, lines, status) ==
    LET halves == BillableHalves(w, card)
        percent == Multiplier(days, w)
        priced == [i \in DOMAIN lines |-> QuoteLine(lines[i], card, rates, halves, percent)]
    IN  [halves |-> halves, percent |-> percent, lines |-> priced,
         subtotal |-> Sum(priced), unpriced |-> Unpriced(priced),
         indicative |-> Unpriced(priced) > 0 \/ status # "confirmed"]

-----------------------------------------------------------------------------
(* The server's: its loop carries the counts, its card may be missing and  *)
(* its calendar rows are picked by order, dearest first.                   *)
ServerDays(card, w) ==
    LET first == (w.from + Zone) \div DayLength
        n == Atleast(1, CeilDiv(w.until - w.from, DayLength))
        free == {i \in 0..(n - 1) : card.there /\ ((first + i) % 7) + 1 \in card.mask}
        counted == Atleast(n - Cardinality(free), card.min)
    IN  [first |-> first, n |-> n,
         halves |-> (counted \div 7) * card.week + Atmost(2 * (counted % 7), card.week)]

ServerMultiplier(days, span) ==
    LET inside == {d \in days : d.day >= span.first /\ d.day < span.first + span.n}
        driver == CHOOSE d \in inside : \A e \in inside : d.percent >= e.percent
    IN  IF inside = {} THEN 100 ELSE driver.percent

PriceBooking(card, rates, days, w, lines, status) ==
    LET span == ServerDays(card, w)
        percent == ServerMultiplier(days, span)
        effective(l) == IF l.rate # NoRate THEN l.rate
                        ELSE IF card.there /\ l.product \in DOMAIN rates THEN rates[l.product]
                        ELSE NoRate
        times(l) == IF l.rate # NoRate THEN 100 ELSE percent
        priced == [i \in DOMAIN lines |->
            [product |-> lines[i].product, qty |-> lines[i].qty,
             rate |-> effective(lines[i]), manual |-> lines[i].rate # NoRate,
             total |-> IF effective(lines[i]) = NoRate THEN NoRate
                       ELSE (lines[i].qty * span.halves * effective(lines[i])
                               * times(lines[i]) + 100) \div 200]]
    IN  [halves |-> span.halves, percent |-> percent, lines |-> priced,
         subtotal |-> Sum(priced), unpriced |-> Unpriced(priced),
         indicative |-> Unpriced(priced) > 0 \/ status # "confirmed"]
=============================================================================
