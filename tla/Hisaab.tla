------------------------------- MODULE Hisaab -------------------------------
(***************************************************************************)
(* The house's whole account: MoneyBook, the expense book beside it        *)
(* (kharcha.ts; org_expenses on the server) and the do-not-rent switch,    *)
(* with what the money screens read off them (khata.ts, ledger.ts,         *)
(* hisaab.ts, KhataScreen.tsx).  The clock is the number of acts so far; a *)
(* month is any stretch of it.                                             *)
(***************************************************************************)
EXTENDS MoneyBook

CONSTANTS
    Spends,         \* what an expense may come to
    FromBooking     \* jobs that were made from a booking

ASSUME HisaabAssumption == Spends \subseteq Nat \ {0} /\ FromBooking \subseteq Jobs

VARIABLES
    spent,          \* org_expenses on the phone
    paidOut,        \* org_expenses on the server
    barred,         \* customers.blacklisted on the phone
    barredThere     \* and on the server

houseVars == <<spent, paidOut, barred, barredThere>>
hisaabVars == <<vars, houseVars>>

\* What an expense is tied to: a job, the booking a job came from, the unit,
\* or nothing (the office's own).
Expense == [kind : {"repair", "sub_hire", "misc"}, amount : Nat, job : Jobs \cup {NoJob},
            booking : Jobs \cup {NoJob}, gear : BOOLEAN, at : Nat, reverses : Nat]
Paid == [amount : Nat, reverses : Nat]

\* The type invariant.
HisaabTypeOK ==
    /\ MoneyTypeOK
    /\ spent \in Seq(Expense)
    /\ paidOut \in Seq(Paid)
    /\ {barred, barredThere} \subseteq BOOLEAN

-----------------------------------------------------------------------------
(* The expense book.                                                       *)

Now == Len(queue) + 1

\* liveExpenses: a reversal and what it voids both leave.
Live_TargetsStay(rows) == {e \in DOMAIN rows : rows[e].reverses = 0}
Live(rows) == {e \in DOMAIN rows : /\ rows[e].reverses = 0
                                   /\ \A r \in DOMAIN rows : rows[r].reverses # e}
\* totalExpenses, over the live rows of S.
Total(rows, S) == LET Of(e) == rows[e].amount IN SumOver(Live(rows) \cap S, Of)

Tied(kind, n, job, booking, gear, at) ==
    [kind |-> kind, amount |-> n, job |-> job, booking |-> booking, gear |-> gear,
     at |-> at, reverses |-> 0]

ExpenseOp(e, x) ==
    Op("expense", e, x.job, 0, {ExpenseThing(e)} \cup JobOf(x), JobOf(x))

\* recordExpense, from the sheet (which may date it back), or beside a
\* sub-hire, now.
RecordExpense ==
    /\ Room(1)
    /\ \E n \in Spends, at \in {0, Now},
          tie \in {<<"misc", NoJob, NoJob>>} \cup {<<"sub_hire", j, NoJob>> : j \in OpenJobs}
                  \cup {<<"sub_hire", NoJob, j>> : j \in FromBooking} :
         LET x == Tied(tie[1], n, tie[2], tie[3], FALSE, at)
         IN  /\ tie[1] = "misc" \/ at = Now
             /\ spent' = Append(spent, x)
             /\ queue' = Append(queue, ExpenseOp(Len(spent) + 1, x))
    /\ UNCHANGED <<book, pots, paidOut, barred, barredThere>> /\ Untouched

\* reverseExpense: the row copies its target; neither a reversal nor a
\* voided row can be voided.
ReverseExpense(e) ==
    /\ Room(1)
    /\ e \in Live(spent)
    /\ LET r == Len(spent) + 1
       IN  /\ spent' = Append(spent, [spent[e] EXCEPT !.reverses = e, !.at = Now])
           /\ queue' = Append(queue, Op("unspend", r, NoJob, 0,
                                        {ExpenseThing(r), ExpenseThing(e)}, {ExpenseThing(e)}))
    /\ UNCHANGED <<book, pots, paidOut, barred, barredThere>> /\ Untouched

\* recordServiced with what the workshop charged: the repair and the event
\* that names it, chained behind it, in one transaction.
RecordServiced ==
    /\ Room(2)
    /\ \E n \in Spends :
         LET e == Len(spent) + 1
             x == Tied("repair", n, NoJob, NoJob, TRUE, Now)
         IN  /\ spent' = Append(spent, x)
             /\ queue' = queue \o <<ExpenseOp(e, x),
                  [Op("serviced", 0, NoJob, 0, {ExpenseThing(e)}, {}) EXCEPT !.dep = Now]>>
    /\ UNCHANGED <<book, pots, paidOut, barred, barredThere>> /\ Untouched

\* setBlacklisted: the page's one door is the other way round.
SetBlacklisted ==
    /\ Room(1)
    /\ barred' = ~ barred
    /\ queue' = Append(queue, Op(IF barred THEN "unbar" ELSE "bar", 0, NoJob, 0, {Customer}, {Customer}))
    /\ UNCHANGED <<book, pots, spent, paidOut, barredThere>> /\ Untouched

-----------------------------------------------------------------------------
(* The server's answers: record_expense and reverse_expense each run in one *)
(* transaction, and the unique index lets one reversal of a row in.         *)

PaidRow(o) ==
    LET x == spent[queue[o].line]
    IN  [amount |-> x.amount,
         reverses |-> IF x.reverses = 0 THEN 0 ELSE Id(ExpenseThing(x.reverses))]

PaidFits(r) == r.reverses # 0 => r.reverses \in Live(paidOut)

ExpenseLands(o) ==
    /\ paidOut' = Append(paidOut, PaidRow(o))
    /\ Learn(o, Len(paidOut) + 1)
    /\ queue' = ToState({o}, "done")

ExpenseAnswered ==
    /\ Pending # {} /\ NothingSent
    /\ queue[First].op \in ExpenseOps /\ Resolved(First)
    /\ IF PaidFits(PaidRow(First)) THEN ExpenseLands(First)
       ELSE Park(First) /\ UNCHANGED <<paidOut, idMap>>
    /\ UNCHANGED <<serverVars, book, pots, gearOut, others, spent, barred, barredThere>>

BarLands ==
    /\ Pending # {} /\ NothingSent
    /\ queue[First].op \in BarOps /\ Resolved(First)
    /\ barredThere' = (queue[First].op = "bar")
    /\ queue' = ToState({First}, "done")
    /\ UNCHANGED <<serverVars, book, pots, idMap, gearOut, others, spent, paidOut, barred>>

OtherReverses ==
    /\ others < MaxOther
    /\ others' = others + 1
    /\ \E e \in Live(paidOut) : paidOut' = Append(paidOut, [paidOut[e] EXCEPT !.reverses = e])
    /\ UNCHANGED <<serverVars, phoneVars, spent, barred, barredThere>>

-----------------------------------------------------------------------------
(* What the screens read.  A line's time is the act that wrote it.          *)

When(i) == book[i].at
Within(t, from, until) == from <= t /\ t < until
Cuts == 1 .. Len(queue)
LinesIn(from, until) == {i \in DOMAIN book : Within(When(i), from, until)}

\* The charge lines nothing has settled: what billedBetween, jobMargin,
\* lifetimeValue and monthAccount all call billed.
Billed_ReversalOnly(S) == SumOver({i \in S \ Settled_ReversalOnly : book[i].kind \in ChargeKinds}, Amount)
Billed(S) == SumOver({i \in S \ Settled : book[i].kind \in ChargeKinds}, Amount)

\* kharchaBetween and monthProfit.
KharchaBetween(from, until) == Total(spent, {e \in DOMAIN spent : Within(spent[e].at, from, until)})
MonthProfit(from, until) == Billed(LinesIn(from, until)) - KharchaBetween(from, until)

\* jobMargin: an expense tied to the booking and to no job is the job's too.
SpentOn(j) == {e \in DOMAIN spent :
                 \/ spent[e].job = j
                 \/ spent[e].job = NoJob /\ j \in FromBooking /\ spent[e].booking = j}
JobMargin(j) == Billed({i \in DOMAIN book : book[i].job = j}) - Total(spent, SpentOn(j))

\* assetEarnings and assetCosts of the unit.
GearEarned == Billed({i \in DOMAIN book : book[i].gear /\ book[i].kind # "damage_charge"})
GearCost == Total(spent, {e \in DOMAIN spent : spent[e].gear /\ spent[e].kind = "repair"})

\* lifetimeValue.  A write-off of a late fee is a waiver; any other, named
\* or not, is money lost.
OffOf(S) == {i \in S : book[i].kind = "write_off"}
IsWaiver(i) == book[i].corrects # 0 /\ book[book[i].corrects].kind = "late_fee"
Minus(i) == -book[i].amount
Worth ==
    LET off == OffOf(DOMAIN book)
    IN  [charged |-> Billed(DOMAIN book),
         paid |-> SumOver({i \in DOMAIN book : book[i].kind = "payment"}, Minus),
         writtenOff |-> SumOver({i \in off : ~ IsWaiver(i)}, Minus),
         waived |-> SumOver({i \in off : IsWaiver(i)}, Minus),
         jobs |-> {book[i].job : i \in {k \in DOMAIN book \ Settled : book[k].kind \in ChargeKinds}}
                    \ {NoJob}]

\* monthlyStatementText: the lines it prints, and the closing figure.
Printed(from, until) == LinesIn(from, until)
Closing(until) == BalanceOf(LinesIn(0, until))

\* monthAccount's row for the client.
MonthRow(from, until) ==
    [billed |-> Billed(LinesIn(from, until)),
     paid |-> SumOver({i \in LinesIn(from, until) : book[i].kind = "payment"}, Minus),
     balance |-> Balance]

\* classifyDayScans and dayAccount: the jobs the unit went out on and came
\* back from, by the scans the outbox holds, each pair counted once, and what
\* was spent.  (Photos and dead stock are counted by other modules' rows.)
JobsMoved(kind, from, until) ==
    {queue[o].job : o \in {x \in ScansHeld(kind) : Within(x, from, until)}}
DayAccount(from, until) ==
    [out |-> JobsMoved("check_out", from, until), back |-> JobsMoved("check_in", from, until),
     kharcha |-> KharchaBetween(from, until)]

\* moneyStrip: what is owed, and what the month earned.
MoneyStrip(from, until) ==
    [owed |-> IF Balance > 0 THEN Balance ELSE 0, earned |-> Billed(LinesIn(from, until))]

\* balanceCardText: what the card opens with, and whether it dates the debt
\* and gives the line to pay on.
BalanceCard ==
    [says |-> IF Balance > 0 THEN "balance" ELSE IF Balance < 0 THEN "house owes" ELSE "nothing",
     recent |-> {i \in DOMAIN book : i > Len(book) - 3},
     since |-> OldestUnpaid,
     payOn |-> Balance > 0]

\* KhataScreen: a settlement is folded into the line it settles; the lines
\* that open the correction sheet; the account's own write-off.
Shown == {i \in DOMAIN book : \A k \in DOMAIN book : i \notin Settlers(k)}
Openable == {i \in Shown \ Settled : /\ book[i].kind \in ChargeKinds \cup {"payment"}
                                     /\ book[i].deposit = 0}
BalanceDoor == Balance > 0

\* applyTargets: the live charges of the deposit's job; the apply sheet offers
\* each, cut to what is left.
ApplyTargets(p) ==
    LET charges == {i \in DOMAIN book \ Settled : /\ book[i].kind \in ChargeKinds
                                                  /\ book[i].job = JobOfPot(p)}
    IN  IF JobOfPot(p) = NoJob THEN {} ELSE charges
Draws(p) == {IF book[i].amount < Remaining(p) THEN book[i].amount ELSE Remaining(p)
               : i \in ApplyTargets(p)}

-----------------------------------------------------------------------------

HisaabInit ==
    /\ Init
    /\ spent = <<>> /\ paidOut = <<>>
    /\ barred = FALSE /\ barredThere = FALSE

HisaabNext ==
    \/ Next /\ UNCHANGED houseVars
    \/ RecordExpense \/ RecordServiced
    \/ \E e \in DOMAIN spent : ReverseExpense(e)
    \/ SetBlacklisted
    \/ ExpenseAnswered \/ BarLands \/ OtherReverses

HisaabSpec == HisaabInit /\ [][HisaabNext]_hisaabVars

-----------------------------------------------------------------------------

\* What the page says was billed, paid, given up and drawn from deposits
\* accounts for what it says is owed, whatever was corrected, bounced or
\* waived on the way; and the lines it still shows as open add up to it
\* (khata.ts lifetimeValue, KhataScreen.tsx:240, ledger.ts:108).
PageAddsUp ==
    LET bounced == SumOver({i \in Settled : book[i].kind = "payment"}, Minus)
        unnamed == SumOver({i \in OffOf(DOMAIN book) : book[i].corrects = 0}, Minus)
        applied == SumOver({i \in DOMAIN book : book[i].kind = "deposit_apply"}, Minus)
    IN  /\ Worth.charged - Worth.paid + bounced - unnamed - applied = Balance
        /\ BalanceOf(Shown \ Settled) = Balance
        /\ Worth.waived = LET Fee(i) == book[i].amount IN SumOver(WaivedFees, Fee)

\* Each month's closing figure is the last one's plus the lines the month
\* prints, deposits' own lines moving nothing (ledger.ts:361); the card dates
\* a debt exactly when it asks for one.
StatementsChain ==
    /\ \A t \in Cuts : Closing(t) + BalanceOf(Printed(t, Now + 1)) = Balance
    /\ (BalanceCard.says = "balance") <=> (BalanceCard.since # 0)
    /\ (MoneyStrip(0, Now + 1).owed > 0) <=> BalanceDoor
    /\ \A t \in Cuts : MoneyStrip(t, Now + 1).earned = MonthRow(t, Now + 1).billed

\* The months' profits, and the jobs' margins with the office's own, are the
\* same money: no expense and no charge is told twice or dropped, a void
\* leaving every sum with what it voids (kharcha.ts:267, 319; expenses.ts);
\* and gear that is out on a scan the outbox holds is in some day's account.
ProfitAddsUp ==
    LET whole == MonthProfit(0, Now + 1)
        margins == SumOver(Jobs, JobMargin)
        overheads == Billed({i \in DOMAIN book : book[i].job = NoJob})
                  - Total(spent, DOMAIN spent \ UNION {SpentOn(j) : j \in Jobs})
    IN  /\ \A t \in Cuts : MonthProfit(0, t) + MonthProfit(t, Now + 1) = whole
        /\ \A o \in ScansHeld("check_out") : gearOut = queue[o].job =>
              \E t \in Cuts : gearOut \in DayAccount(t, t + 1).out
        /\ margins + overheads = whole
        /\ GearCost <= KharchaBetween(0, Now + 1)

\* Every figure of the money screens agrees with every other.
FiguresAgree == PotMatchesRows /\ PageAddsUp /\ StatementsChain /\ ProfitAddsUp

\* What a button offers can be done: a notice's correction, a line that
\* opens, an amount to draw from a deposit (khata.ts:564,
\* KhataScreen.tsx:241, DepositSection.tsx:345).
OffersCanBeTaken ==
    /\ NoticesCanBeActedOn
    /\ \A i \in Openable : SettleTarget(i)
    /\ \A p \in DOMAIN pots : Remaining(p) > 0 => Draws(p) \subseteq 1 .. Remaining(p)

\* With everything landed and nobody else at the books, the two expense books
\* and the two switches agree as well.
HouseBooksAgree ==
    /\ BooksAgree
    /\ AllLanded /\ others = 0 =>
         /\ Total(paidOut, DOMAIN paidOut) = Total(spent, DOMAIN spent)
         /\ barredThere = barred
=============================================================================
