----------------------------- MODULE MoneyBook -----------------------------
(***************************************************************************)
(* One phone's money book and the server's (MoneyServer).  Every act at    *)
(* the counter writes the local book at once and queues the op the server  *)
(* will judge later, chained behind the last op that named the same thing  *)
(* (apps/app/src/demo/khata.ts, deposits.ts, ops.ts); the pipe renames     *)
(* what the phone minted when the reply comes (packages/core/dispatch.ts). *)
(* The book is not pulled down: what a refusal leaves behind stays.  Rows  *)
(* and ops are named by their positions, which is also their time order.   *)
(***************************************************************************)
EXTENDS MoneyServer, FiniteSets, FiniteSetsExt, SequencesExt

CONSTANTS
    Phone, Other,       \* the two desks of this instance
    NewCharge,          \* kinds the charge sheet writes here
    Amounts,            \* what a charge or a payment may come to
    Taken,              \* what a deposit may come to
    Jobs,               \* jobs of this customer
    MaxOps,             \* bound: acts at the counter
    MaxOther,           \* bound: calls of the other desk
    Refusing            \* whether the server may refuse for reasons of its own

ASSUME MoneyBookAssumption ==
    /\ Desks = {Phone, Other} /\ Phone # Other
    /\ NewCharge \subseteq ChargeKinds
    /\ Amounts \subseteq Nat \ {0} /\ Taken \subseteq Nat \ {0}
    /\ {MaxOps, MaxOther} \subseteq Nat
    /\ Refusing \in BOOLEAN

VARIABLES
    book,       \* customer_ledger_entries on the phone
    pots,       \* deposits on the phone
    queue,      \* the ops, in seq order, with their state
    idMap,      \* id_map: the server's id of a thing this phone minted, 0 before
    gearOut,    \* the job the phone has the lent unit out on, NoJob for the shelf
    others      \* calls the other desk has made

phoneVars == <<book, pots, queue, idMap, gearOut>>
vars == <<serverVars, phoneVars, others>>

NoJob == "no job"
Lines == 1 .. MaxOps

\* What an op can name.
Customer == <<"customer", 0>>
LineThing(i) == <<"ledger_entry", i>>
PotThing(p) == <<"deposit", p>>
JobThing(j) == <<"job", j>>
ExpenseThing(e) == <<"expense", e>>
Things == {Customer} \cup {LineThing(i) : i \in Lines}
              \cup {PotThing(p) : p \in Lines} \cup {JobThing(j) : j \in Jobs}
              \cup {ExpenseThing(e) : e \in Lines}

LineRec == [kind : EntryKinds \cup DepositKinds, amount : Int, job : Jobs \cup {NoJob},
            corrects : Nat, reverses : Nat, deposit : Nat, gear : BOOLEAN, at : Nat]
\* An op's state: "done" is a row the ack has deleted.  `line` is the row of
\* the book (or of the expenses) that the op writes.
Scans == {"check_out", "check_in"}
ExpenseOps == {"expense", "unspend"}
BarOps == {"bar", "unbar"}
Elsewhere == {"create_customer", "create_job", "job", "serviced"} \cup Scans
OpRec == [op : Elsewhere \cup Verbs \cup {"lend"} \cup ExpenseOps \cup BarOps,
          line : Nat, job : Jobs \cup {NoJob}, deposit : Nat, names : SUBSET (Things \X {"phone", "server"}),
          dep : Nat, state : {"pending", "sent", "failed", "done"}]

\* The type invariant, with the server's.
MoneyTypeOK ==
    /\ ServerTypeOK
    /\ book \in Seq(LineRec)
    /\ pots \in Seq(Deposit) /\ \A p \in DOMAIN pots : pots[p].applied <= pots[p].amount
    /\ queue \in Seq(OpRec)
    /\ idMap \in [Things -> Nat]
    /\ gearOut \in Jobs \cup {NoJob}
    /\ others \in 0 .. MaxOther

-----------------------------------------------------------------------------
(* ops.ts: names, and the chain.                                           *)

\* A thing the pull brought has the server's id from the start.
Mapped(t) == idMap[t] # 0
NameOf(t) == <<t, IF Mapped(t) THEN "server" ELSE "phone">>
NamesFor(t) == {NameOf(t)} \cup (IF Mapped(t) THEN {<<t, "phone">>} ELSE {})

Pending == {o \in DOMAIN queue : queue[o].state \in {"pending", "sent"}}

LastNamed(S, ts) ==
    LET naming == {o \in S : \E t \in ts : queue[o].names \cap NamesFor(t) # {}}
    IN  IF naming = {} THEN 0 ELSE Max(naming)
LastOpNaming_NotInflight(ts) == LastNamed({o \in Pending : queue[o].state # "sent"}, ts)
LastOpNaming(ts) == LastNamed(Pending, ts)

\* The op of one act: `payload` are the things its payload holds, `named`
\* those it chains by.
Op(op, line, job, dep, payload, named) ==
    [op |-> op, line |-> line, job |-> job, deposit |-> dep,
     names |-> {NameOf(t) : t \in payload},
     dep |-> LastOpNaming(named), state |-> "pending"]

JobOf(l) == IF l.job = NoJob THEN {} ELSE {JobThing(l.job)}
SettledOf(l) == IF l.reverses # 0 THEN {LineThing(l.reverses)}
                ELSE IF l.corrects # 0 THEN {LineThing(l.corrects)} ELSE {}

-----------------------------------------------------------------------------
(* ledger.ts and khata.ts: what the book says.                             *)

SumOver(S, f(_)) == MapThenSumSet(f, S)
Amount(i) == book[i].amount

InPot(i) == book[i].kind \in DepositKinds
Owing_NoApply(i) == ~ InPot(i)
Owing(i) == ~ InPot(i) \/ book[i].kind = "deposit_apply"

\* projectLedger
BalanceOf(S) == SumOver({i \in S : Owing(i)}, Amount)
DepositHeldOf(S) == SumOver({i \in S : InPot(i)}, Amount)
Balance == BalanceOf(DOMAIN book)

Settlers(i) == {s \in DOMAIN book : i \in {book[s].reverses, book[s].corrects}}
Settled_ReversalOnly == {i \in DOMAIN book : \E s \in DOMAIN book : book[s].reverses = i}
Settled == {i \in DOMAIN book : Settlers(i) # {}}

\* oldestUnpaidMs: the start of the present stretch of debt, 0 for none.
Voided_None == {}
Voided == {i \in DOMAIN book : \E s \in DOMAIN book : book[s].reverses = i}
Walked == {i \in DOMAIN book : Owing(i) /\ i \notin Voided
                                 /\ book[i].reverses \notin Voided}
OldestUnpaid ==
    LET RunningAt(i) == BalanceOf({j \in Walked : j <= i})
        debt == {i \in Walked : \A j \in Walked : j >= i => RunningAt(j) > 0}
    IN  IF debt = {} THEN 0 ELSE Min(debt)

\* The scans the outbox still holds (decodeScanOps: an acked row is gone).
ScansHeld(kind) == {o \in DOMAIN queue : queue[o].op = kind /\ queue[o].state # "done"}

\* chargedButReturned: a charge on the unit, which was scanned in later.
CameBack(i) == \E o \in ScansHeld("check_in") : o > book[i].at
OnGear(i) == /\ book[i].kind \in {"charge", "damage_charge"}
             /\ book[i].gear /\ book[i].job # NoJob
ChargedNotices_ReversalOnly ==
    {i \in DOMAIN book \ Settled_ReversalOnly : OnGear(i) /\ CameBack(i)}
ChargedNotices == {i \in DOMAIN book \ Settled : OnGear(i) /\ CameBack(i)}

\* duplicateEntries: the second of two lines that look like one double tap,
\* whatever the clock says.
Duplicates == {b \in DOMAIN book \ Settled : \E a \in DOMAIN book \ Settled :
                 /\ a < b /\ book[a].kind = book[b].kind
                 /\ book[a].kind \in ChargeKinds /\ book[a].amount = book[b].amount}

\* waivedFees: what the page says was forgiven.
WaivedFees == {i \in DOMAIN book : /\ book[i].kind = "late_fee"
                                   /\ \E s \in Settlers(i) : book[s].kind = "write_off"}

Remaining(p) == IF pots[p].refunded THEN 0 ELSE pots[p].amount - pots[p].applied

-----------------------------------------------------------------------------
(* The acts at the counter.                                                *)

Room(n) == Len(queue) + n <= MaxOps

\* The customer's jobs on this phone: pulled, or made here.
OpenJobs == {j \in Jobs : \/ Mapped(JobThing(j))
                          \/ \E o \in DOMAIN queue : /\ queue[o].op \in {"create_job", "lend"}
                                                    /\ queue[o].job = j}

Line(kind, amount, job, corrects, reverses, dep) ==
    [kind |-> kind, amount |-> amount, job |-> job,
     corrects |-> corrects, reverses |-> reverses, deposit |-> dep, gear |-> FALSE,
     at |-> Len(queue) + 1]

\* recordEntry: the line, and its op unless a deposit call writes it.
EntryOp(l, i) == Op("entry", i, NoJob, 0,
                    {Customer, LineThing(i)} \cup JobOf(l) \cup SettledOf(l),
                    {Customer} \cup JobOf(l) \cup SettledOf(l))
RecordEntry(l) ==
    /\ book' = Append(book, l)
    /\ queue' = Append(queue, EntryOp(l, Len(book) + 1))

Untouched == UNCHANGED <<serverVars, idMap, gearOut, others>>

RecordCharge ==
    /\ Room(1)
    /\ \E k \in NewCharge, n \in Amounts, j \in OpenJobs :
         RecordEntry(Line(k, n, j, 0, 0, 0))
    /\ UNCHANGED pots /\ Untouched

RecordPayment ==
    /\ Room(1)
    /\ \E n \in Amounts : RecordEntry(Line("payment", -n, NoJob, 0, 0, 0))
    /\ UNCHANGED pots /\ Untouched

\* settleTarget: the checks both doors share.
SettleTarget(i) ==
    /\ book[i].deposit = 0
    /\ book[i].kind \notin {"reversal", "write_off", "adjustment"}
    /\ i \notin Settled

\* "Correct this", and the one tap of a notice (recordReversalOf).
CorrectEntry(i) ==
    /\ Room(1)
    /\ SettleTarget(i)
    /\ RecordEntry([Line("reversal", -book[i].amount, book[i].job, 0, i, 0)
                      EXCEPT !.gear = book[i].gear])
    /\ UNCHANGED pots /\ Untouched

WriteOffEntry(i) ==
    /\ Room(1)
    /\ SettleTarget(i)
    /\ book[i].amount > 0
    /\ RecordEntry([Line("write_off", -book[i].amount, book[i].job, i, 0, 0)
                      EXCEPT !.gear = book[i].gear])
    /\ UNCHANGED pots /\ Untouched

\* The whole of what is owed, naming no line.
WriteOffBalance ==
    /\ Room(1)
    /\ Balance > 0
    /\ RecordEntry(Line("write_off", -Balance, NoJob, 0, 0, 0))
    /\ UNCHANGED pots /\ Untouched

\* The fee and its write-off in one transaction: the second chains behind
\* the first.
WaiveLateFee ==
    /\ Room(2)
    /\ \E n \in Amounts, j \in OpenJobs :
         LET i == Len(book) + 1
             fee == Line("late_fee", n, j, 0, 0, 0)
             off == Line("write_off", -n, j, i, 0, 0)
         IN  /\ book' = book \o <<fee, off>>
             /\ queue' = queue \o <<EntryOp(fee, i),
                                    [EntryOp(off, i + 1) EXCEPT !.dep = Len(queue) + 1]>>
    /\ UNCHANGED pots /\ Untouched

HoldDeposit ==
    /\ Room(1)
    /\ \E n \in Taken, j \in OpenJobs \cup {NoJob} :
         LET p == Len(pots) + 1
             l == Line("deposit_hold", n, j, 0, 0, p)
             names == {Customer} \cup JobOf(l)
         IN  /\ book' = Append(book, l)
             /\ pots' = Append(pots, [amount |-> n, applied |-> 0, refunded |-> FALSE])
             /\ queue' = Append(queue, Op("hold", Len(book) + 1, NoJob, p,
                                          names \cup {PotThing(p)}, names))
    /\ Untouched

MoveDeposit(p, op, kind, n) ==
    /\ book' = Append(book, Line(kind, -n, NoJob, 0, 0, p))
    /\ queue' = Append(queue, Op(op, Len(book) + 1, NoJob, p, {PotThing(p)}, {PotThing(p)}))
    /\ Untouched

ApplyDeposit_Anything(p) ==
    /\ Room(1)
    /\ ~ pots[p].refunded
    /\ \E n \in 1 .. pots[p].amount :
         /\ MoveDeposit(p, "apply", "deposit_apply", n)
         /\ pots' = [pots EXCEPT ![p].applied = @ + n]

ApplyDeposit(p) ==
    /\ Room(1)
    /\ ~ pots[p].refunded
    /\ \E n \in 1 .. Remaining(p) :
         /\ MoveDeposit(p, "apply", "deposit_apply", n)
         /\ pots' = [pots EXCEPT ![p].applied = @ + n]

RefundDeposit_Whole(p) ==
    /\ Room(1)
    /\ Remaining(p) > 0
    /\ MoveDeposit(p, "refund", "deposit_refund", pots[p].amount)
    /\ pots' = [pots EXCEPT ![p].refunded = TRUE]

\* refundBlockers, read before the tap: the unit is out on the deposit's job,
\* or went out and no return of it is in the outbox.  A deposit against no job
\* has none.  (Damage flags are not modelled.)
JobOfPot(p) == book[CHOOSE i \in DOMAIN book : book[i].deposit = p].job
OnJob(j, kind) == {o \in ScansHeld(kind) : queue[o].job = j}
RefundBlocked(p) ==
    LET j == JobOfPot(p)
    IN  /\ j # NoJob
        /\ gearOut = j \/ (OnJob(j, "check_out") # {} /\ OnJob(j, "check_in") = {})

RefundDeposit(p) ==
    /\ Room(1)
    /\ Remaining(p) > 0
    /\ ~ RefundBlocked(p)
    /\ MoveDeposit(p, "refund", "deposit_refund", Remaining(p))
    /\ pots' = [pots EXCEPT ![p].refunded = TRUE]

\* createJob: the walk-in, for this customer.
CreateJob(j) ==
    /\ Room(1)
    /\ j \notin OpenJobs
    /\ queue' = Append(queue, Op("create_job", 0, j, 0, {Customer, JobThing(j)}, {Customer}))
    /\ UNCHANGED <<book, pots>> /\ Untouched

\* An op that names the job and nothing else (closeJob, reopenJob,
\* setExpectedBack); what it does to the job is not money.
JobOp(j) ==
    /\ Room(1)
    /\ j \in OpenJobs
    /\ queue' = Append(queue, Op("job", 0, j, 0, {JobThing(j)}, {JobThing(j)}))
    /\ UNCHANGED <<book, pots>> /\ Untouched

\* recordSubHireOut, when the account is a partner house's the server has
\* named: a job, and the hire's charge on the unit, both written by the op.
LendOut(j) ==
    /\ Room(1)
    /\ j \notin OpenJobs /\ Mapped(Customer)
    /\ LET i == Len(book) + 1
       IN  \E n \in Amounts :
             /\ book' = Append(book, [Line("charge", n, j, 0, 0, 0) EXCEPT !.gear = TRUE])
             /\ queue' = Append(queue,
                  [Op("lend", i, j, 0, {Customer, JobThing(j), LineThing(i)}, {}) EXCEPT !.dep = 0])
    /\ UNCHANGED pots /\ Untouched

\* The unit through the scanner on this customer's job; a scan is chained to
\* nothing.
ScanUnit(kind, j) ==
    /\ Room(1)
    /\ j \in OpenJobs
    /\ queue' = Append(queue, Op(kind, 0, j, 0, {}, {}))
    /\ gearOut' = IF kind = "check_out" THEN j ELSE NoJob
    /\ UNCHANGED <<book, pots, serverVars, idMap, others>>

-----------------------------------------------------------------------------
(* The pipe: the queue in seq order, one open call (Outbox and SyncEngine  *)
(* model its faults; here an op is answered, or refused for good).         *)

First == Min(Pending)

\* IdMap.rewrite over argsOf: what the phone minted goes out under the
\* server's id.
Id(t) == idMap[t]
Arg(thing(_), i) == IF i = 0 THEN 0 ELSE Id(thing(i))

RpcOf(o) ==
    LET q == queue[o]
        l == book[q.line]
        held == Arg(PotThing, IF q.op = "hold" THEN 0 ELSE q.deposit)
    IN  [verb |-> IF q.op = "lend" THEN "entry" ELSE q.op, kind |-> l.kind,
         amount |-> IF q.op \in {"apply", "refund"} THEN -l.amount ELSE l.amount,
         corrects |-> Arg(LineThing, l.corrects),
         reverses |-> Arg(LineThing, l.reverses), deposit |-> held]

\* Every thing the op's payload names, but for the one it mints, has a name
\* the server gave: a phone-minted id is no uuid and no row.
Mints(o) == CASE queue[o].op = "create_customer" -> {Customer}
              [] queue[o].op = "create_job" -> {JobThing(queue[o].job)}
              [] queue[o].op = "lend" -> {JobThing(queue[o].job), LineThing(queue[o].line)}
              [] queue[o].op = "entry" -> {LineThing(queue[o].line)}
              [] queue[o].op \in ExpenseOps -> {ExpenseThing(queue[o].line)}
              [] queue[o].op = "hold" -> {PotThing(queue[o].deposit)}
              [] OTHER -> {}
Uses(o) == {n[1] : n \in queue[o].names} \ Mints(o)
Resolved(o) == \A t \in Uses(o) : Mapped(t)

\* Park the op and everything chained behind it.
Subtree(root) ==
    LET under[o \in DOMAIN queue] ==
            o = root \/ (queue[o].dep # 0 /\ under[queue[o].dep])
    IN  {o \in Pending : under[o]}

ToState(S, s) == [o \in DOMAIN queue |-> IF o \in S THEN [queue[o] EXCEPT !.state = s]
                                          ELSE queue[o]]
Park(o) == queue' = ToState(Subtree(o), "failed")

NothingSent == \A o \in DOMAIN queue : queue[o].state # "sent"
Money(o) == queue[o].op \in Verbs \cup {"lend"}

Send_Unchecked ==
    /\ Pending # {} /\ NothingSent
    /\ Money(First) /\ Resolved(First)
    /\ call' = [call EXCEPT ![Phone] = RpcOf(First)]
    /\ queue' = ToState({First}, "sent")
    /\ UNCHANGED <<ledger, deposits, book, pots, idMap, gearOut, others>>

Send ==
    /\ Pending # {} /\ NothingSent
    /\ Money(First) /\ Resolved(First)
    /\ Begin(Phone, RpcOf(First))
    /\ queue' = ToState({First}, "sent")
    /\ UNCHANGED <<book, pots, idMap, gearOut, others>>

\* Refused outright: a name the server does not know, a check that fails,
\* or a reason that is not modelled.  A lock is waited for.
Refused ==
    /\ Pending # {} /\ NothingSent
    /\ \/ Refusing
       \/ ~ Resolved(First)
       \/ Money(First) /\ ~ Fits(RpcOf(First))
    /\ Park(First)
    /\ UNCHANGED <<serverVars, book, pots, idMap, gearOut, others>>

\* The reply's ids (ID_REPLY_RULES) and the ack in one local transaction.
NewId(o) == IF queue[o].op = "hold" THEN Len(deposits) + 1 ELSE Len(ledger) + 1
Learn(o, id) == idMap' = [t \in Things |-> IF t \in Mints(o) THEN id ELSE idMap[t]]

Answered ==
    /\ \E o \in Pending :
         /\ queue[o].state = "sent"
         /\ Commit(Phone)
         /\ Learn(o, NewId(o))
         /\ queue' = ToState({o}, "done")
    /\ UNCHANGED <<book, pots, gearOut, others>>

RolledBack ==
    /\ \E o \in Pending :
         /\ queue[o].state = "sent"
         /\ Refusing \/ IndexTaken(call[Phone])
         /\ RollBack(Phone)
         /\ Park(o)
    /\ UNCHANGED <<book, pots, idMap, gearOut, others>>

\* The customer's own op, a job's, a unit's and a scan have no row here.
AnsweredElsewhere ==
    /\ Pending # {} /\ NothingSent
    /\ queue[First].op \in Elsewhere /\ Resolved(First)
    /\ Learn(First, 1)
    /\ queue' = ToState({First}, "done")
    /\ UNCHANGED <<serverVars, book, pots, gearOut, others>>

-----------------------------------------------------------------------------
(* The other desk: any call on what the server holds.                      *)

Entry(kind, n, corrects, reverses) ==
    [verb |-> "entry", kind |-> kind, amount |-> n, corrects |-> corrects,
     reverses |-> reverses, deposit |-> 0]
Move(verb, kind, n, dep) ==
    [verb |-> verb, kind |-> kind, amount |-> n, corrects |-> 0, reverses |-> 0,
     deposit |-> dep]

OtherRpcs ==
    {Entry("reversal", -ledger[i].amount, 0, i) : i \in DOMAIN ledger}
    \cup {Entry(ledger[i].kind, n, i, 0) : i \in DOMAIN ledger, n \in Amounts}
    \cup {Move("apply", "deposit_apply", n, p) : p \in DOMAIN deposits, n \in Taken}
    \cup {Move("refund", "deposit_refund", 0, p) : p \in DOMAIN deposits}

OtherBegins ==
    /\ others < MaxOther
    /\ others' = others + 1
    /\ \E r \in OtherRpcs : Begin(Other, r)
    /\ UNCHANGED phoneVars

OtherEnds ==
    /\ Commit(Other) \/ RollBack(Other)
    /\ UNCHANGED <<phoneVars, others>>

-----------------------------------------------------------------------------

\* createCustomer queues the first op, chained behind nothing; or that op
\* landed long ago, and the customer and the jobs have the server's ids.
Init ==
    /\ ServerInit
    /\ book = <<>> /\ pots = <<>>
    /\ others = 0
    /\ gearOut = NoJob
    /\ \E landed \in BOOLEAN :
         /\ idMap = [t \in Things |->
                       IF landed /\ t[1] \in {"customer", "job"} THEN 1 ELSE 0]
         /\ queue = <<[op |-> "create_customer", line |-> 0, job |-> NoJob, deposit |-> 0,
                       names |-> {<<Customer, "phone">>}, dep |-> 0,
                       state |-> IF landed THEN "done" ELSE "pending"]>>

AtTheCounter ==
    \/ RecordCharge \/ RecordPayment \/ WriteOffBalance \/ WaiveLateFee \/ HoldDeposit
    \/ \E i \in DOMAIN book : CorrectEntry(i) \/ WriteOffEntry(i)
    \/ \E p \in DOMAIN pots : ApplyDeposit(p) \/ RefundDeposit(p)
    \/ \E j \in Jobs : CreateJob(j) \/ JobOp(j) \/ LendOut(j)
    \/ \E j \in Jobs, kind \in Scans : ScanUnit(kind, j)

Next ==
    \/ AtTheCounter
    \/ Send \/ Refused \/ Answered \/ RolledBack \/ AnsweredElsewhere
    \/ OtherBegins \/ OtherEnds

Spec == Init /\ [][Next]_vars

-----------------------------------------------------------------------------

\* Whatever the phone and the other desk do, the server's book moves only as
\* MoneyServer says: what is proved of it holds here.
ImplementsMoneyServer == ServerSpec

\* The pot the page shows is what the deposit rows say is left, on the phone
\* and on the server: the lines and the state beside them never tell
\* different stories (deposits.ts:19, 0017 deposits_refund_matches).
PotMatchesRows ==
    /\ DepositHeldOf(DOMAIN book) = SumOver(DOMAIN pots, Remaining)
    /\ LET Moved(i) == ledger[i].amount
           LeftOf(p) == IF deposits[p].refunded THEN 0 ELSE Left(p)
       IN  SumOver({i \in DOMAIN ledger : ledger[i].kind \in DepositKinds}, Moved)
             = SumOver(DOMAIN deposits, LeftOf)

\* A line is settled once, for all of it, and a settlement is never itself
\* settled: no sequence of taps turns a correction into a discount
\* (khata.ts settleTarget).
SettledOnce ==
    \A i \in Settled : /\ Cardinality(Settlers(i)) = 1
                       /\ \A s \in Settlers(i) : book[s].amount = -book[i].amount
                       /\ Settlers(i) \cap Settled = {}

\* What a notice offers to correct can be corrected: "a button that can never
\* do anything is worse than no button" (khata.ts:564).
NoticesCanBeActedOn == \A i \in ChargedNotices \cup Duplicates : SettleTarget(i)

\* Somebody who owes owes since a charge nobody has voided, and the date is
\* there exactly while they owe (ledger.ts oldestUnpaidMs).
DebtHasADate ==
    /\ (OldestUnpaid # 0) <=> Balance > 0
    /\ OldestUnpaid # 0 => /\ book[OldestUnpaid].kind \in ChargeKinds
                           /\ OldestUnpaid \notin Voided

\* An op waits behind the op that mints the customer, the job or the deposit
\* it names, however many acts lie between them and whatever was renamed
\* meanwhile: if the mint is refused the op parks with it, and is not sent
\* under a name no server knows (ops.ts:13, lastOpNaming).  What moves a
\* deposit waits behind every earlier move of it: a refund never runs without
\* the apply it was reckoned after.
ChainHolds ==
    \A o, m \in Pending :
        \/ (/\ o # m
            /\ queue[m].op \in {"create_customer", "create_job", "hold"}
            /\ Mints(m) \cap Uses(o) # {})
        \/ (m < o /\ queue[m].deposit # 0 /\ queue[m].deposit = queue[o].deposit)
        => o \in Subtree(m)

\* With nothing queued, nothing refused and nobody else at the books, the
\* server's balance (the rows no later row supersedes) and the phone's (all
\* of them) are the same, and so are the pots.
ServerBalance ==
    LET Live == {i \in DOMAIN ledger : ~ Corrected(i)}
        RowAmount(i) == ledger[i].amount
    IN  SumOver({i \in Live : ledger[i].kind \in EntryKinds \cup {"deposit_apply"}}, RowAmount)
AllLanded == \A o \in DOMAIN queue : queue[o].state = "done"
BooksAgree ==
    AllLanded /\ others = 0 =>
        /\ ServerBalance = Balance
        /\ DepositHeldOf(DOMAIN book) =
             LET LeftOf(p) == IF deposits[p].refunded THEN 0 ELSE Left(p)
             IN  SumOver(DOMAIN deposits, LeftOf)

\* A fee the page shows as waived costs the client nothing once the phone has
\* sent everything: "two lines that net to nothing ... The balance is
\* unchanged" (khata.ts:776-786).
WaivedCostsNothing ==
    Pending = {} =>
        \A i \in WaivedFees : Mapped(LineThing(i)) =>
            \E r \in DOMAIN ledger : idMap[LineThing(i)] \in {ledger[r].corrects, ledger[r].reverses}
=============================================================================
