----------------------------- MODULE NetworkDesk -----------------------------
(***************************************************************************)
(* A desk's phone keeps the network offline (apps/app/src/demo/network.ts  *)
(* and the job doors of read-model.ts): partner houses, gear borrowed from *)
(* them and lent to them, the jobs it leaves on, the crew that goes along. *)
(* Every write is decided on the phone's rows, shown at once and queued as *)
(* the server's verb; the server (0018, 0025, 0028) decides again when the *)
(* verb arrives.  Its jobs and units come back by the pull; its loans and  *)
(* its partner houses never do.                                            *)
(*                                                                         *)
(* Scans reach the server in the order they were made (FleetServer has the *)
(* late ones), the phone's clock is right, and a thing has one name here:  *)
(* MoneyBook and DeskCalendar have the renaming.                           *)
(***************************************************************************)
EXTENDS Integers, Sequences, FiniteSets, FiniteSetsExt, SequencesExt

CONSTANTS
    Houses,    \* partner houses
    Loans,     \* sub-hires recorded on this phone
    Fleet,     \* units the house owns
    NoUnit,    \* a sub-hire that names no unit
    Walkins,   \* jobs opened at the desk
    Crew,      \* people
    Dates,     \* the dates a job may be due
    Roles,     \* who holds the phone: "desk" or "manager"
    MaxActs,   \* bound: writes of the phone
    MaxMoves   \* bound: writes of the other desks

Borrowed(l) == <<"unit", l>>
LoanJob(l) == <<"job", l>>
Units == Fleet \cup {Borrowed(l) : l \in Loans}
Jobs == Walkins \cup {LoanJob(l) : l \in Loans}
NoJob == <<"no", "job">>

(* A loan, a unit and a job are named apart, and "no unit" names nothing.  *)
ASSUME NetworkAssumption ==
    /\ NoUnit \notin Houses \cup Loans \cup Units \cup Jobs
    /\ Fleet \cap {Borrowed(l) : l \in Loans} = {}

VARIABLES
    phone,     \* the phone's rows
    crew,      \* job_attendants on the phone: who this desk put on a job
    server,    \* the server's rows
    queue,     \* the phone's outbox, oldest first; a row that landed is gone
    receipts,  \* ops the server has taken
    news,      \* units and jobs the next page will tell
    page,      \* the page on its way
    phase,     \* the cycle: "pull", "asked" or "flush"
    role, acts, moves,
    strain     \* history: why phone and server may decide differently

vars == <<phone, crew, server, queue, receipts, news, page, phase, role, acts,
          moves, strain>>

NoLoan == [way |-> "none", house |-> NoUnit, unit |-> NoUnit, open |-> FALSE]
EmptyRows ==
    [houses |-> [h \in Houses |-> "none"],
     loans  |-> [l \in Loans |-> NoLoan],
     units  |-> [u \in Units |-> [at |-> IF u \in Fleet THEN "here" ELSE "none", job |-> NoJob]],
     jobs   |-> [j \in Jobs |-> [status |-> "none", due |-> 0, names |-> {}]]]
Nothing == [units |-> {}, jobs |-> {}]
NoPage == [units |-> {}, jobs |-> {}, rows |-> EmptyRows]

Live == {i \in DOMAIN queue : queue[i].state # "failed"}
LiveOps == {queue[i] : i \in Live}
FailedOps == {queue[i] : i \in DOMAIN queue \ Live}

-----------------------------------------------------------------------------
(* What the verbs do to a set of rows, the phone's or the server's.        *)
OpenLoans(rows, h) == {l \in Loans : rows.loans[l].open /\ rows.loans[l].house = h}

WithHouse(rows, h, state) == [rows EXCEPT !.houses[h] = state]

(* record_sub_hire_in: a serial makes a unit of the fleet, marked borrowed.*)
Borrow(rows, l, h, serial) ==
    LET unit == IF serial THEN Borrowed(l) ELSE NoUnit
    IN [rows EXCEPT
          !.loans[l] = [way |-> "in", house |-> h, unit |-> unit, open |-> TRUE],
          !.units = [u \in Units |-> IF u = unit THEN [at |-> "here", job |-> NoJob] ELSE @[u]]]

(* record_sub_hire_out: the job the desk scans against is made with it.    *)
Lend(rows, l, h, unit) ==
    [rows EXCEPT !.loans[l] = [way |-> "out", house |-> h, unit |-> unit, open |-> TRUE],
                 !.jobs[LoanJob(l)].status = "open"]

SetStatus(rows, j, status) == [rows EXCEPT !.jobs[j].status = status]

(* The reducer, the scans of this module: `retire` leaves the job column.  *)
Scanned(rows, o) ==
    CASE o.op = "checkOut" -> [rows EXCEPT !.units[o.unit] = [at |-> "out", job |-> o.job]]
      [] o.op = "checkIn" -> [rows EXCEPT !.units[o.unit] = [at |-> "here", job |-> NoJob]]
      [] o.op = "retire" -> [rows EXCEPT !.units[o.unit].at = "gone"]
      [] OTHER -> rows

(* stillOutCount, the phone's rule, and gear_still_out, the server's.      *)
StillOut(rows, j) == {u \in Units : rows.units[u].job = j /\ rows.units[u].at = "out"}
PointsAt(rows, j) == {u \in Units : rows.units[u].job = j}

-----------------------------------------------------------------------------
(* The queue.  An op hangs on the newest unsent op that names its thing.   *)
Blank == [op |-> "", house |-> NoUnit, loan |-> NoUnit, unit |-> NoUnit, job |-> NoJob,
          who |-> NoUnit, due |-> 0, flag |-> FALSE, names |-> {}, on |-> NoUnit,
          n |-> 0, parent |-> 0, state |-> "pending"]

Queued(q, o) ==
    LET n == Max({0} \cup {q[i].n : i \in DOMAIN q} \cup {r.n : r \in receipts}) + 1
        before == {q[i].n : i \in {k \in DOMAIN q : q[k].state # "failed" /\ o.on \in q[k].names}}
    IN Append(q, [o EXCEPT !.n = n, !.parent = Max({0} \cup before)])

Act == acts < MaxActs /\ acts' = acts + 1
Gated(o) == o.op \in {"addHouse", "editHouse", "removeHouse", "reopenJob"}
Strained(o) == strain' = IF Gated(o) /\ role = "desk" THEN strain \cup {"role"} ELSE strain

(* One write of the phone: its rows, then its op.                          *)
Write(rows, o) ==
    /\ Act /\ phone' = rows /\ queue' = Queued(queue, o) /\ Strained(o)
    /\ UNCHANGED <<server, receipts, news, page, phase, role, moves>>

HouseOp(op, h) == [Blank EXCEPT !.op = op, !.house = h, !.names = {h}, !.on = h]
LoanOp(op, l, h, unit) ==
    [Blank EXCEPT !.op = op, !.loan = l, !.house = h, !.unit = unit,
                  !.names = {h, l} \cup (IF op = "lend" THEN {LoanJob(l)} ELSE {}), !.on = h]
JobOp(op, j) == [Blank EXCEPT !.op = op, !.job = j, !.names = {j}, !.on = j]
ScanOp(op, unit, j) == [Blank EXCEPT !.op = op, !.unit = unit, !.job = j]

(* A new partner or job waits for nothing.                                 *)
UpsertPartner(h) ==
    /\ phone.houses[h] # "removed"
    /\ IF phone.houses[h] = "none"
       THEN Write(WithHouse(phone, h, "live"), [HouseOp("addHouse", h) EXCEPT !.on = NoUnit])
       ELSE Write(phone, HouseOp("editHouse", h))
    /\ UNCHANGED crew

RemovePartner(h) ==
    /\ phone.houses[h] = "live" /\ OpenLoans(phone, h) = {}
    /\ Write(WithHouse(phone, h, "removed"), HouseOp("removeHouse", h))
    /\ UNCHANGED crew

RecordSubHireIn(l, h, serial) ==
    /\ phone.houses[h] = "live" /\ phone.loans[l] = NoLoan
    /\ Write(Borrow(phone, l, h, serial),
             [LoanOp("borrow", l, h, IF serial THEN Borrowed(l) ELSE NoUnit) EXCEPT !.flag = serial])
    /\ UNCHANGED crew

RecordSubHireOut(l, h, unit) ==
    /\ phone.houses[h] = "live" /\ phone.loans[l] = NoLoan
    /\ unit # NoUnit => phone.units[unit].at # "gone"
    /\ Write(Lend(phone, l, h, unit), LoanOp("lend", l, h, unit))
    /\ UNCHANGED crew

MayClose_JobUnchecked(loan, job) ==
    /\ loan.open
    /\ loan.way = "in" /\ loan.unit # NoUnit => phone.units[loan.unit].at # "out"
MayClose(loan, job) ==
    /\ loan.open
    /\ loan.way = "in" /\ loan.unit # NoUnit => phone.units[loan.unit].at # "out"
    /\ loan.way = "out" /\ phone.jobs[job].status = "open" => StillOut(phone, job) = {}

(* closeSubHire writes what must come first as ops of their own: the scan  *)
(* that retires a borrowed unit, the closing of the job it was lent on.    *)
CloseSubHire(l) ==
    LET loan == phone.loans[l]
        unit == loan.unit
        job == LoanJob(l)
        sendsUnit == loan.way = "in" /\ unit # NoUnit /\ phone.units[unit].at # "gone"
        closesJob == loan.way = "out" /\ phone.jobs[job].status = "open"
        first == IF sendsUnit THEN Queued(queue, ScanOp("retire", unit, NoJob))
                 ELSE IF closesJob THEN Queued(queue, JobOp("closeJob", job))
                 ELSE queue
        rows == IF sendsUnit THEN [phone EXCEPT !.units[unit].at = "gone"]
                ELSE IF closesJob THEN SetStatus(phone, job, "closed")
                ELSE phone
    IN /\ Act /\ MayClose(loan, job)
       /\ phone' = [rows EXCEPT !.loans[l].open = FALSE]
       /\ queue' = Queued(first, [LoanOp("close", l, loan.house, unit) EXCEPT !.names = {l}, !.on = l])
       /\ UNCHANGED <<crew, server, receipts, news, page, phase, role, moves, strain>>

-----------------------------------------------------------------------------
(* Jobs, their dates and their crews.                                      *)
CreateJob(j) ==
    /\ phone.jobs[j].status = "none"
    /\ Write(SetStatus(phone, j, "open"), [JobOp("createJob", j) EXCEPT !.on = NoUnit])
    /\ UNCHANGED crew

SetExpectedBack(j, date) ==
    /\ phone.jobs[j].status # "none" /\ phone.jobs[j].due # date
    /\ Write([phone EXCEPT !.jobs[j].due = date], [JobOp("setDue", j) EXCEPT !.due = date])
    /\ UNCHANGED crew

CloseJob(j) ==
    /\ phone.jobs[j].status = "open" /\ StillOut(phone, j) = {}
    /\ Write(SetStatus(phone, j, "closed"), JobOp("closeJob", j))
    /\ UNCHANGED crew

ReopenJob(j) ==
    /\ phone.jobs[j].status = "closed"
    /\ Write(SetStatus(phone, j, "open"), JobOp("reopenJob", j))
    /\ UNCHANGED crew

(* rewriteAttendantNames writes the crew line from the desk's own rows.    *)
CrewWrite(op, j, who, on) ==
    /\ crew' = [crew EXCEPT ![j] = on]
    /\ Write([phone EXCEPT !.jobs[j].names = on],
             [JobOp(op, j) EXCEPT !.who = who, !.on = NoUnit])

AssignAttendant(j, who) ==
    phone.jobs[j].status # "none" /\ CrewWrite("assign", j, who, crew[j] \cup {who})

UnassignAttendant(j, who) ==
    who \in crew[j] /\ CrewWrite("unassign", j, who, crew[j] \ {who})

(* A session on the phone: out onto an open job, and back.                 *)
ScanOut(u, j) ==
    /\ phone.units[u].at = "here" /\ phone.jobs[j].status = "open"
    /\ LET o == ScanOp("checkOut", u, j) IN Write(Scanned(phone, o), o)
    /\ UNCHANGED crew

ScanIn(u) ==
    /\ phone.units[u].at = "out"
    /\ LET o == ScanOp("checkIn", u, NoJob) IN Write(Scanned(phone, o), o)
    /\ UNCHANGED crew

PhoneActs ==
    \/ \E h \in Houses : UpsertPartner(h) \/ RemovePartner(h)
    \/ \E l \in Loans :
          \/ \E h \in Houses, serial \in BOOLEAN : RecordSubHireIn(l, h, serial)
          \/ \E h \in Houses, unit \in Fleet \cup {NoUnit} : RecordSubHireOut(l, h, unit)
          \/ CloseSubHire(l)
    \/ \E j \in Walkins : CreateJob(j)
    \/ \E j \in Jobs :
          \/ \E date \in Dates : SetExpectedBack(j, date)
          \/ CloseJob(j) \/ ReopenJob(j)
          \/ \E who \in Crew : AssignAttendant(j, who) \/ UnassignAttendant(j, who)
          \/ \E u \in Units : ScanOut(u, j)
    \/ \E u \in Units : ScanIn(u)

-----------------------------------------------------------------------------
(* The server's verbs.  What it would refuse for a name it does not know,  *)
(* a role, a rule of its own or a constraint, it refuses whole.            *)
Known(j) == server.jobs[j].status # "none"
InFleet(u) == server.units[u].at \notin {"none", "gone"}

Admits(o) ==
    /\ Gated(o) => role = "manager"
    /\ CASE o.op = "addHouse" -> TRUE
         [] o.op = "editHouse" -> server.houses[o.house] = "live"
         [] o.op = "removeHouse" -> server.houses[o.house] = "live" /\ OpenLoans(server, o.house) = {}
         [] o.op = "borrow" -> server.houses[o.house] = "live"
         [] o.op = "lend" -> server.houses[o.house] = "live" /\ (o.unit # NoUnit => InFleet(o.unit))
         [] o.op = "close" ->
              LET loan == server.loans[o.loan]
                  job == LoanJob(o.loan)
              IN /\ loan.open /\ server.houses[loan.house] = "live"   \* sub_hires_check_org
                 /\ loan.way = "in" /\ loan.unit # NoUnit => server.units[loan.unit].at # "out"
                 /\ loan.way = "out" /\ server.jobs[job].status = "open" => PointsAt(server, job) = {}
         [] o.op = "createJob" -> TRUE
         [] o.op = "closeJob" -> server.jobs[o.job].status = "open" /\ PointsAt(server, o.job) = {}
         [] o.op = "reopenJob" -> server.jobs[o.job].status = "closed"
         [] o.op \in {"setDue", "assign", "unassign"} -> Known(o.job)
         [] o.op = "checkOut" -> InFleet(o.unit) /\ Known(o.job)
         [] o.op = "checkIn" -> InFleet(o.unit)
         [] o.op = "retire" -> server.units[o.unit].at # "none"

Taken(o) ==
    CASE o.op = "addHouse" -> WithHouse(server, o.house, "live")
      [] o.op = "removeHouse" -> WithHouse(server, o.house, "removed")
      [] o.op = "borrow" -> Borrow(server, o.loan, o.house, o.flag)
      [] o.op = "lend" -> Lend(server, o.loan, o.house, o.unit)
      [] o.op = "close" ->
           LET loan == server.loans[o.loan]
               shut == [server EXCEPT !.loans[o.loan].open = FALSE]
           IN IF loan.way = "out" THEN SetStatus(shut, LoanJob(o.loan), "closed")
              ELSE IF loan.unit = NoUnit THEN shut
              ELSE [shut EXCEPT !.units[loan.unit].at = "gone"]
      [] o.op \in {"createJob", "reopenJob"} -> SetStatus(server, o.job, "open")
      [] o.op = "closeJob" -> SetStatus(server, o.job, "closed")
      [] o.op = "setDue" -> [server EXCEPT !.jobs[o.job].due = o.due]
      [] o.op = "assign" -> [server EXCEPT !.jobs[o.job].names = @ \cup {o.who}]
      [] o.op = "unassign" -> [server EXCEPT !.jobs[o.job].names = @ \ {o.who}]
      [] OTHER -> Scanned(server, o)

(* The rows the verb touches, changed or not: the pages after will tell.   *)
(* The crew is no table of the pull, so its verbs touch the job (D8).      *)
CrewTouches_Nothing(o) == {}
CrewTouches(o) ==
    IF o.op = "assign" \/ (o.op = "unassign" /\ o.who \in server.jobs[o.job].names)
    THEN {o.job} ELSE {}
Touched(o) ==
    [units |-> {o.unit} \cap Units,
     jobs |-> CASE o.op \in {"createJob", "closeJob", "reopenJob", "setDue"} -> {o.job}
                [] o.op \in {"lend", "close"} -> {LoanJob(o.loan)} \cap {j \in Jobs : Taken(o).jobs[j].status # "none"}
                [] OTHER -> CrewTouches(o)]
Both(v, w) == [units |-> v.units \cup w.units, jobs |-> v.jobs \cup w.jobs]

(* A member the server did not have on the job: it touches nothing, and    *)
(* the phone's crew line stays as the phone wrote it.                      *)
NotOn(o) == o.op = "unassign" /\ o.who \notin server.jobs[o.job].names

First == queue[Min(Live)]
Unsent == {o.n : o \in LiveOps}
HoldsItsChildren(S) == \A o \in LiveOps : o.parent \in S => o.n \in S
Cascade(n) ==
    {m \in Unsent : \A S \in SUBSET Unsent : n \in S /\ HoldsItsChildren(S) => m \in S}
Landed == RemoveAt(queue, Min(Live))
Parked(n) == [i \in DOMAIN queue |-> IF queue[i].n \in Cascade(n)
                                     THEN [queue[i] EXCEPT !.state = "failed"] ELSE queue[i]]

(* One call: the server knows the op already, takes it, or refuses it; and *)
(* the answer comes, or is lost and the cycle is over.                     *)
Commit(o) ==
    /\ receipts' = receipts \cup {o}
    /\ server' = Taken(o) /\ news' = Both(news, Touched(o))
    /\ strain' = IF NotOn(o) THEN strain \cup {"notOn"} ELSE strain

Send ==
    /\ phase = "flush" /\ Live # {}
    /\ LET o == First
           known == \E r \in receipts : r.n = o.n
       IN /\ IF ~known /\ Admits(o) THEN Commit(o)
             ELSE UNCHANGED <<receipts, server, news, strain>>
          /\ \/ /\ queue' = IF known \/ Admits(o) THEN Landed ELSE Parked(o.n)
                /\ UNCHANGED phase
             \/ phase' = "pull" /\ UNCHANGED queue
    /\ UNCHANGED <<phone, crew, page, role, acts, moves>>

CycleEnds ==
    /\ phase = "flush" /\ Live = {} /\ phase' = "pull"
    /\ UNCHANGED <<phone, crew, server, queue, receipts, news, page, role, acts, moves, strain>>

(* Another desk's writes: no matter who holds this phone, a manager's.     *)
RivalOps ==
    {HouseOp("removeHouse", h) : h \in {x \in Houses : server.houses[x] = "live" /\ OpenLoans(server, x) = {}}}
    \cup {ScanOp("checkOut", u, j) : u \in {x \in Units : server.units[x].at = "here"},
                                     j \in {x \in Jobs : server.jobs[x].status = "open"}}
    \cup {ScanOp("checkIn", u, NoJob) : u \in {x \in Units : server.units[x].at = "out"}}
    \cup {JobOp("closeJob", j) : j \in {x \in Jobs : /\ server.jobs[x].status = "open"
                                                      /\ PointsAt(server, x) = {}}}
    \cup {[JobOp(op, j) EXCEPT !.who = who] : op \in {"assign", "unassign"}, who \in Crew,
                                              j \in {x \in Jobs : Known(x)}}

RivalActs ==
    \E o \in RivalOps :
        /\ moves < MaxMoves /\ moves' = moves + 1
        /\ server' = Taken(o) /\ news' = Both(news, Touched(o))
        /\ strain' = strain \cup {"rival"}
        /\ UNCHANGED <<phone, crew, queue, receipts, page, phase, role, acts>>

-----------------------------------------------------------------------------
AskPage ==
    /\ phase = "pull" /\ phase' = "asked"
    /\ page' = [units |-> news.units, jobs |-> news.jobs, rows |-> server]
    /\ news' = Nothing
    /\ UNCHANGED <<phone, crew, server, queue, receipts, role, acts, moves, strain>>

(* replayPendingWrites: the scans not yet sent are projected again over    *)
(* the page; the other verbs are not.                                      *)
Replayed_Nothing(rows) == rows
Projected(rows, o) == IF o.state = "failed" THEN rows ELSE Scanned(rows, o)
Replayed(rows) == FoldLeft(Projected, rows, queue)

ApplyPage ==
    /\ phase = "asked" /\ phase' = "flush"
    /\ phone' = Replayed(
          [phone EXCEPT
             !.units = [u \in Units |-> IF u \in page.units THEN page.rows.units[u] ELSE @[u]],
             !.jobs = [j \in Jobs |-> IF j \in page.jobs THEN page.rows.jobs[j] ELSE @[j]]])
    /\ page' = NoPage
    /\ strain' = strain
          \cup (IF \E o \in LiveOps : o.names \cap page.jobs # {} THEN {"overwritten"} ELSE {})
          \cup (IF \E o \in LiveOps, r \in receipts : o.n = r.n /\ o.unit \in page.units
                THEN {"seen"} ELSE {})
    /\ UNCHANGED <<crew, server, queue, receipts, news, role, acts, moves>>

PageLost ==
    /\ phase = "asked" /\ phase' = "pull"
    /\ news' = Both(news, [units |-> page.units, jobs |-> page.jobs])
    /\ page' = NoPage
    /\ UNCHANGED <<phone, crew, server, queue, receipts, role, acts, moves, strain>>

-----------------------------------------------------------------------------
Init ==
    /\ phone = EmptyRows /\ server = EmptyRows
    /\ crew = [j \in Jobs |-> {}]
    /\ queue = <<>> /\ receipts = {} /\ news = Nothing /\ page = NoPage /\ phase = "pull"
    /\ role \in Roles /\ acts = 0 /\ moves = 0 /\ strain = {}

Next ==
    \/ PhoneActs \/ RivalActs
    \/ Send \/ CycleEnds \/ AskPage \/ ApplyPage \/ PageLost

Spec == Init /\ [][Next]_vars

-----------------------------------------------------------------------------
CaughtUp == phase = "flush" /\ news = Nothing /\ Live = {}

(* Once nothing waits, nothing was refused and the last page has come, the *)
(* phone has the server's loans, units and jobs, the crew line with them,  *)
(* whatever the other desks did meanwhile; and without other desks its     *)
(* partner houses too.  (Two things leave a row apart: a crew write the    *)
(* server finds done, "notOn", and a scan whose answer was lost, replayed  *)
(* over a page that told of what came after it, "seen".)                   *)
HouseAgrees ==
    CaughtUp /\ FailedOps = {} =>
        /\ phone.loans = server.loans
        /\ "seen" \notin strain => phone.units = server.units
        /\ \A j \in Jobs :
              /\ phone.jobs[j].status = server.jobs[j].status
              /\ phone.jobs[j].due = server.jobs[j].due
              /\ "notOn" \notin strain => phone.jobs[j].names = server.jobs[j].names
        /\ "rival" \notin strain => phone.houses = server.houses

(* "The RPC's rules exactly": what the phone let the desk do the server    *)
(* takes, unless another desk moved, the role was short, or a page came    *)
(* over an unsent write.                                                   *)
HouseVerdicts == strain = {} => FailedOps = {}

(* The desk's house mirrors the server's, in what it shows and in what it  *)
(* lets the desk do.                                                       *)
HouseMirrors == HouseAgrees /\ HouseVerdicts

(* Borrowed gear whose sub-hire is closed has left the fleet, on the       *)
(* server and on the phone, whatever page comes between the two writes.    *)
SentHomeIsGone ==
    \A rows \in {phone, server}, l \in Loans :
        LET loan == rows.loans[l] IN
        loan.way = "in" /\ loan.unit # NoUnit /\ ~loan.open => rows.units[loan.unit].at = "gone"

(* "THE RULE, mirroring the server's close_job exactly" (closeJob in       *)
(* read-model.ts): on the server's own rows, the phone would let the desk  *)
(* close a job only if the server would close it.                          *)
CloseRuleMirrors ==
    CaughtUp /\ phone.units = server.units /\ phone.jobs = server.jobs =>
        \A j \in Jobs : StillOut(phone, j) = {} => PointsAt(server, j) = {}
=============================================================================
