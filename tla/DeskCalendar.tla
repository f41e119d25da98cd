---------------------------- MODULE DeskCalendar ----------------------------
(***************************************************************************)
(* A desk's phone works the promise calendar offline                       *)
(* (apps/app/src/demo/bookings.ts): every write is decided on its own      *)
(* rows, shown at once and queued as the server's verb.  The server (0022) *)
(* decides again when the verb arrives, other desks having moved, and its  *)
(* rows come back by the pull (pull.ts) and its names by the answers       *)
(* (dispatch.ts).  One loop, whose cycle pulls first and then sends.       *)
(*                                                                         *)
(* The phone's clock is taken to be right.                                 *)
(***************************************************************************)
EXTENDS CalendarRules, SequencesExt

CONSTANTS
    Mine,      \* bookings made on this phone
    Asks,      \* for each booking, the lines its customer may ask for
    Windows,   \* the windows they ask for
    Statuses,  \* what a booking is created as: a draft or a pencil
    Ends,      \* the ends a booking may be extended to
    MaxNow,    \* bound: the clock
    MaxActs,   \* bound: writes of the phone
    MaxMoves   \* bound: writes of the other desks

ASSUME DeskAssumption == Mine \subseteq Bookings /\ Statuses \subseteq {"draft", "pencil"}

VARIABLES
    phone,     \* the phone's mirror
    server,    \* the server's tables
    queue,     \* the phone's outbox, oldest first; a row that landed is gone
    renamed,   \* id_map: the bookings whose server name the phone knows
    receipts,  \* ops the server has answered, and how
    answer,    \* the answer on its way
    news,      \* what the next page will tell: bookings, lines and jobs
    page,      \* the page on its way
    phase,     \* the cycle: "pull", "asked" or "flush"
    now, acts, moves,
    noted,     \* pairs of bookings: the first covers the second by a sub-rent
    landed,    \* history: ops the server accepted
    unheard,   \* history: extensions the server declined without an error
    strain     \* history: why phone and server may decide differently

vars == <<phone, server, queue, renamed, receipts, answer, news, page, phase,
          now, acts, moves, noted, landed, unheard, strain>>

phoneOnly == UNCHANGED <<server, renamed, receipts, answer, news, page, phase,
                         now, moves, landed, unheard>>

Rivals == Bookings \ Mine
NoAnswer == [n |-> 0, says |-> "nothing"]
NoNews == [rows |-> {}, lines |-> {}, jobs |-> {}]
NoPage == [rows |-> {}, lines |-> {}, jobs |-> {}, book |-> EmptyBook]

Live == {i \in DOMAIN queue : queue[i].state # "failed"}
LiveOps == {queue[i] : i \in Live}
FailedOps == {queue[i] : i \in DOMAIN queue \ Live}

-----------------------------------------------------------------------------
(* lastBookingOp: the newest unsent op naming the booking, under its name  *)
(* and under the phone's earlier one, or serving it.                       *)
AlsoCalled(b) == {b} \cup {<<b[1], "phone">> : x \in {y \in renamed : b = <<y, "server">>}}

LastBookingOp(b) ==
    Max({0} \cup {o.n : o \in {p \in LiveOps : ({p.b} \cup p.serves) \cap AlsoCalled(b) # {}}})

Op(op, b, serves, args) ==
    [n |-> acts + 1, op |-> op, b |-> b, serves |-> serves, args |-> args,
     parent |-> LastBookingOp(b), state |-> "pending",
     knew |-> {o.n : o \in FailedOps}]
Enqueue(op, b, serves, args) == Append(queue, Op(op, b, serves, args))

Known(b) == phone.rows[b].status # "none"
Act == acts < MaxActs /\ acts' = acts + 1

(* confirmBooking; the hold may be shortened to the customer's window.     *)
Holds(book, b) ==
    {HeldWindow(book.rows[b]), Window(book.rows[b].from, book.rows[b].until)}

CreateBooking(b, w, lines, status) ==
    /\ Act /\ ~Known(<<b, "phone">>) /\ ~Known(<<b, "server">>) /\ b \notin renamed
    /\ phone' = Created(Pruned(phone, now), <<b, "phone">>, w, lines, status, now, TRUE)
    /\ queue' = Enqueue("create", <<b, "phone">>, {}, [w |-> w, lines |-> lines, status |-> status])
    /\ UNCHANGED <<noted, strain>> /\ phoneOnly

ConfirmBooking(b, hold) ==
    LET book == Pruned(phone, now) IN
    /\ Act /\ Confirmable(book, b, hold)
    /\ \E plan \in PlanConfirm(book, b, hold) :
          /\ phone' = Confirmed(book, b, hold, plan, TRUE)
          /\ queue' = Enqueue("confirm", b, {}, [hold |-> hold, plan |-> plan])
    /\ UNCHANGED <<noted, strain>> /\ phoneOnly

CancelBooking_JobOrNot(b) ==
    LET book == Pruned(phone, now) IN
    /\ Act /\ book.rows[b].status \notin {"none", "cancelled"}
    /\ phone' = Cancelled(book, {b})
    /\ queue' = Enqueue("cancel", b, {}, <<>>)
    /\ UNCHANGED <<noted, strain>> /\ phoneOnly
CancelBooking(b) ==
    LET book == Pruned(phone, now) IN
    /\ Act /\ book.rows[b].status \notin {"none", "cancelled"}
    /\ b[1] \notin book.jobs
    /\ phone' = Cancelled(book, {b})
    /\ queue' = Enqueue("cancel", b, {}, <<>>)
    /\ UNCHANGED <<noted, strain>> /\ phoneOnly

(* extendBooking: refused while a promise it breaks is not covered by a    *)
(* sub-rent the desk has noted.                                            *)
ExtendBooking(b, until) ==
    LET book == Pruned(phone, now)
        broken == {c.booking : c \in ExtensionCollisions(book, b, until)}
        covered == {p[2] : p \in {q \in noted : q[1] = b}}
    IN
    /\ Act /\ book.rows[b].status \notin {"none", "cancelled"}
    /\ until > book.rows[b].from
    /\ broken \subseteq covered
    /\ phone' = Extended(book, b, until)
    /\ queue' = Enqueue("extend", b, {}, [until |-> until])
    /\ strain' = IF broken = {} THEN strain ELSE strain \cup {"subrent"}
    /\ UNCHANGED noted /\ phoneOnly

NoteSubRent(b, rival) ==
    /\ Act /\ <<b, rival>> \notin noted
    /\ noted' = noted \cup {<<b, rival>>}
    /\ queue' = Enqueue("note", b, {rival}, <<>>)
    /\ UNCHANGED <<phone, strain>> /\ phoneOnly

(* A claim the phone minted has no name the server knows.                  *)
ReallocateReservation(c, unit, serves) ==
    /\ Act /\ c.state = "confirmed" /\ c.thing # unit /\ MayMove(phone, c, unit)
    /\ phone' = Moved(phone, c, unit)
    /\ queue' = Enqueue("reallocate", c.booking, serves,
                        [line |-> c.line, unit |-> unit, guess |-> c.guess])
    /\ strain' = IF c.guess THEN strain \cup {"guess"} ELSE strain
    /\ UNCHANGED noted /\ phoneOnly

ConvertBookingToJob(b) ==
    LET book == Pruned(phone, now) IN
    /\ Act /\ book.rows[b].status = "confirmed" /\ b[1] \notin book.jobs
    /\ phone' = [book EXCEPT !.jobs = @ \cup {b[1]}]
    /\ queue' = Enqueue("convert", b, {}, <<>>)
    /\ UNCHANGED <<noted, strain>> /\ phoneOnly

(* The sub-rent and the substitute are offered on the card of a collision. *)
PhoneActs ==
    \/ \E b \in Mine : \E w \in Windows, lines \in Asks[b], status \in Statuses :
          CreateBooking(b, w, lines, status)
    \/ \E b \in Names :
          \/ \E hold \in Holds(phone, b) : ConfirmBooking(b, hold)
          \/ CancelBooking(b)
          \/ \E until \in Ends : ExtendBooking(b, until)
          \/ ConvertBookingToJob(b)
          \/ \E until \in Ends : \E c \in ExtensionCollisions(phone, b, until) :
                \/ NoteSubRent(b, c.booking)
                \/ \E unit \in Units : ReallocateReservation(c, unit, {b})

-----------------------------------------------------------------------------
(* The server's rules, where 0022 states them otherwise than the phone.    *)
OnServer(b) == <<b[1], "server">>

(* asset_reservations_no_double_booking: whoever holds the other claim.    *)
ClashFree(book) ==
    \A c, d \in book.claims :
        c # d /\ c.state = "confirmed" /\ d.state = "confirmed" /\ c.thing = d.thing
           => c.thing = Stock \/ ~Overlaps(c, d)

(* stock_reserved_peak probes the window's start and those inside it.      *)
StockReservedPeak(book, w, b) ==
    LET live == {c \in book.claims : /\ c.thing = Stock /\ c.state = "confirmed"
                                     /\ book.rows[c.booking].status = "confirmed"
                                     /\ c.booking # b /\ Overlaps(c, w)}
    IN Max({QtyAt(live, t) : t \in {w.from} \cup {Max({c.from, w.from}) : c \in live}})

FreeUnits(book, w) ==
    {u \in Units : \A c \in book.claims : ~(c.thing = u /\ c.state = "confirmed" /\ Overlaps(c, w))}

(* The loop of confirm_booking: any order in which it may pick free units. *)
ServerPlans(book, b, hold) ==
    LET lines == book.rows[b].lines
    IN {plan \in [DOMAIN lines -> Units \cup {Stock}] :
           /\ \A i \in DOMAIN lines :
                 CASE lines[i].kind = "unit" -> plan[i] = lines[i].unit
                   [] lines[i].kind = "any" -> plan[i] \in FreeUnits(book, hold) \ Demanded(lines)
                   [] lines[i].kind = "bulk" ->
                        /\ plan[i] = Stock
                        /\ StockReservedPeak(book, hold, b) + lines[i].qty <= OnHand
           /\ ClashFree(Confirmed(book, b, hold, plan, FALSE))}

(* extend_booking: the promises in the way of units, then of stock.        *)
InTheWay(book, b, until) ==
    LET hold == ExtendedHold(book.rows[b], until)
        mine == {c \in OfBooking(book, b) : c.state = "confirmed"}
        theirs == {c \in book.claims : /\ c.booking # b /\ c.state = "confirmed"
                                       /\ book.rows[c.booking].status = "confirmed"
                                       /\ Overlaps(c, hold)}
    IN IF book.rows[b].status # "confirmed" THEN {}
       ELSE {c \in theirs : \E m \in mine :
                /\ c.thing = m.thing
                /\ m.thing = Stock => StockReservedPeak(book, hold, b) + m.qty > OnHand}

(* What one call may leave behind, and what it says; a call that can leave *)
(* nothing behind is refused, its pruning undone.                          *)

Outcomes(o) ==
    LET book == Pruned(server, now)
        b == OnServer(o.b)
        row == book.rows[b]
        Ok(books) == {[book |-> x, says |-> "ok"] : x \in books}
    IN CASE o.op = "create" ->
              Ok({Created(book, b, o.args.w, o.args.lines, o.args.status, now, FALSE)})
         [] o.op = "confirm" ->
              Ok(IF Confirmable(book, b, o.args.hold)
                 THEN {Confirmed(book, b, o.args.hold, plan, FALSE) :
                          plan \in ServerPlans(book, b, o.args.hold)}
                 ELSE {})
         [] o.op = "cancel" ->
              Ok(IF row.status # "cancelled" /\ b[1] \notin book.jobs
                 THEN {Cancelled(book, {b})} ELSE {})
         [] o.op = "extend" ->
              IF row.status = "cancelled" \/ o.args.until <= row.from THEN {}
              ELSE IF InTheWay(book, b, o.args.until) # {}
              THEN {[book |-> book, says |-> "declined"]}
              ELSE Ok({x \in {Extended(book, b, o.args.until)} : ClashFree(x)})
         [] o.op = "note" -> Ok(IF row.status = "none" THEN {} ELSE {server})
         [] o.op = "reallocate" ->
              Ok({Moved(server, c, o.args.unit) :
                     c \in {d \in OfBooking(server, b) :
                               /\ d.line = o.args.line /\ ~o.args.guess
                               /\ ClashFree(Moved(server, d, o.args.unit))}})
         [] o.op = "convert" ->
              Ok(IF row.status = "confirmed" /\ b[1] \notin book.jobs
                 THEN {[book EXCEPT !.jobs = @ \cup {b[1]}]} ELSE {})

(* A claim of stock and a claim of a unit are rows of different tables.    *)
TableOf(c) == IF c.thing = Stock THEN "stock" ELSE "unit"
LineOf(c) == <<c.booking, TableOf(c), c.line>>

(* The rows a commit touched, which the pages after it will tell.          *)
Told(old, new) ==
    [rows  |-> {b \in Names : old.rows[b] # new.rows[b]},
     lines |-> {LineOf(c) : c \in (old.claims \ new.claims) \cup (new.claims \ old.claims)},
     jobs  |-> new.jobs \ old.jobs]
Both(v, w) == [rows |-> v.rows \cup w.rows, lines |-> v.lines \cup w.lines,
               jobs |-> v.jobs \cup w.jobs]

First == queue[Min(Live)]
WithState(n, state) == [i \in DOMAIN queue |-> IF queue[i].n = n THEN [queue[i] EXCEPT !.state = state]
                                               ELSE queue[i]]

(* The units the server took where the phone had shown others.             *)
Differs(o, book) ==
    /\ o.op = "confirm"
    /\ \E c \in OfBooking(book, OnServer(o.b)) : c.thing # o.args.plan[c.line]

Serve(o) ==
    /\ UNCHANGED <<moves, noted>>
    /\ \/ /\ \E r \in receipts : r.n = o.n   \* replay_op knows it
          /\ answer' = CHOOSE r \in receipts : r.n = o.n
          /\ UNCHANGED <<server, receipts, news, landed, unheard, strain>>
       \/ /\ \A r \in receipts : r.n # o.n
          /\ IF Outcomes(o) = {}
             THEN /\ answer' = [n |-> o.n, says |-> "refused"]
                  /\ UNCHANGED <<server, receipts, news, landed, unheard, strain>>
             ELSE \E x \in Outcomes(o) :
                  /\ server' = x.book
                  /\ answer' = [n |-> o.n, says |-> x.says]
                  /\ receipts' = receipts \cup {answer'}
                  /\ news' = Both(news, Told(server, x.book))
                  /\ landed' = landed \cup {o}
                  /\ unheard' = IF x.says = "declined" THEN unheard \cup {o.b[1]} ELSE unheard
                  /\ strain' = strain \cup (IF Differs(o, x.book) THEN {"otherUnit"} ELSE {})
                                      \cup (IF x.says = "declined" THEN {"declined"} ELSE {})

Send ==
    /\ phase = "flush" /\ Live # {} /\ answer = NoAnswer
    /\ Serve(First)
    /\ queue' = WithState(First.n, "inflight")
    /\ UNCHANGED <<phone, renamed, page, phase, now, acts>>

(* Another desk's writes.                                                  *)
Rival(book, why) ==
    /\ moves < MaxMoves /\ moves' = moves + 1
    /\ book # server
    /\ server' = book /\ news' = Both(news, Told(server, book))
    /\ strain' = strain \cup why
    /\ UNCHANGED <<phone, queue, renamed, receipts, answer, page, phase, now, acts,
                   noted, landed, unheard>>

RivalActs ==
    \E r \in Rivals :
        LET b == <<r, "server">>
            book == Pruned(server, now)
        IN \/ /\ book.rows[b].status = "none"
              /\ \E w \in Windows, lines \in Asks[r] :
                    Rival(Created(book, b, w, lines, "pencil", now, FALSE), {})
           \/ /\ Confirmable(book, b, HeldWindow(book.rows[b]))
              /\ \E plan \in ServerPlans(book, b, HeldWindow(book.rows[b])) :
                    Rival(Confirmed(book, b, HeldWindow(book.rows[b]), plan, FALSE), {"rival"})
           \/ /\ book.rows[b].status \notin {"none", "cancelled"}
              /\ Rival(Cancelled(book, {b}), {"rival"})

-----------------------------------------------------------------------------
(* The answer.  The phone's rows take the server's name unless a page has  *)
(* brought that name already: then the update breaks the primary key, the  *)
(* transaction is undone and the op stays where it is.                     *)
Renamed(b) ==
    LET old == <<b, "phone">>
        new == <<b, "server">>
    IN [phone EXCEPT
          !.rows = [@ EXCEPT ![new] = phone.rows[old], ![old] = NoRow],
          !.claims = {IF c.booking = old THEN [c EXCEPT !.booking = new] ELSE c : c \in @}]

Collides == First.op = "create" /\ Known(<<First.b[1], "server">>)

AnswerArrives ==
    /\ answer.says \in {"ok", "declined"} /\ ~Collides
    /\ queue' = RemoveAt(queue, Min(Live))
    /\ IF First.op = "create"
       THEN phone' = Renamed(First.b[1]) /\ renamed' = renamed \cup {First.b[1]}
       ELSE UNCHANGED <<phone, renamed>>
    /\ answer' = NoAnswer
    /\ UNCHANGED <<server, receipts, news, page, phase, now, acts, moves, noted,
                   landed, unheard, strain>>

(* A verdict: the op parks, and all that hangs on it.                      *)
Unsent == {o.n : o \in LiveOps}
HoldsItsChildren(S) == \A o \in LiveOps : o.parent \in S => o.n \in S

Cascade_Alone(n) == {n}
Cascade(n) ==
    {m \in Unsent : \A S \in SUBSET Unsent : n \in S /\ HoldsItsChildren(S) => m \in S}

AnswerRefuses ==
    /\ answer.says = "refused"
    /\ LET fallen == Cascade(answer.n) IN
       queue' = [i \in DOMAIN queue |-> IF queue[i].n \in fallen
                                        THEN [queue[i] EXCEPT !.state = "failed"] ELSE queue[i]]
    /\ answer' = NoAnswer
    /\ UNCHANGED <<phone, server, renamed, receipts, news, page, phase, now, acts,
                   moves, noted, landed, unheard, strain>>

(* Nothing heard, the app killed, or the transaction undone: the cycle is  *)
(* over and the op will be sent again.                                     *)
AnswerLost ==
    /\ answer # NoAnswer
    /\ answer' = NoAnswer /\ phase' = "pull"
    /\ queue' = WithState(answer.n, "pending")
    /\ UNCHANGED <<phone, server, renamed, receipts, news, page, now, acts, moves,
                   noted, landed, unheard, strain>>

CycleEnds ==
    /\ phase = "flush" /\ Live = {} /\ phase' = "pull"
    /\ UNCHANGED <<phone, server, queue, renamed, receipts, answer, news, page, now,
                   acts, moves, noted, landed, unheard, strain>>

-----------------------------------------------------------------------------
(* A page: the changed rows as they are when it is asked for.              *)
AskPage ==
    /\ phase = "pull" /\ phase' = "asked"
    /\ page' = [rows |-> news.rows, lines |-> news.lines, jobs |-> news.jobs, book |-> server]
    /\ news' = NoNews
    /\ UNCHANGED <<phone, server, queue, renamed, receipts, answer, now, acts, moves,
                   noted, landed, unheard, strain>>

(* The server's claims replace the phone's guesses of that table for the   *)
(* booking; then each row is replaced.  A write on the phone that waits to be sent  *)
(* is not drawn again: replayPendingWrites knows scans only.               *)
WithClaims_GuessesStay(p) ==
    {c \in phone.claims : LineOf(c) \notin p.lines \/ c.guess}
    \cup {c \in p.book.claims : LineOf(c) \in p.lines}
WithClaims(p) ==
    LET parents == {<<l[1], l[2]>> : l \in p.lines}
    IN {c \in phone.claims : IF c.guess THEN <<c.booking, TableOf(c)>> \notin parents
                             ELSE LineOf(c) \notin p.lines}
       \cup {c \in p.book.claims : LineOf(c) \in p.lines}

ApplyPage ==
    /\ phase = "asked" /\ phase' = "flush"
    /\ phone' = [rows |-> [b \in Names |-> IF b \in page.rows THEN page.book.rows[b] ELSE phone.rows[b]],
                 claims |-> WithClaims(page),
                 jobs |-> phone.jobs \cup page.jobs]
    /\ page' = NoPage
    /\ strain' = IF \E o \in LiveOps, b \in page.rows \cup {l[1] : l \in page.lines} :
                        o.b[1] = b[1] THEN strain \cup {"overwritten"} ELSE strain
    /\ UNCHANGED <<server, queue, renamed, receipts, answer, news, now, acts, moves,
                   noted, landed, unheard>>

PageLost ==
    /\ phase = "asked" /\ phase' = "pull"
    /\ news' = Both(news, [rows |-> page.rows, lines |-> page.lines, jobs |-> page.jobs])
    /\ page' = NoPage
    /\ UNCHANGED <<phone, server, queue, renamed, receipts, answer, now, acts, moves,
                   noted, landed, unheard, strain>>

Tick ==
    /\ now < MaxNow /\ now' = now + 1
    /\ strain' = strain \cup {"time"}
    /\ UNCHANGED <<phone, server, queue, renamed, receipts, answer, news, page, phase,
                   acts, moves, noted, landed, unheard>>

-----------------------------------------------------------------------------
Init ==
    /\ phone = EmptyBook /\ server = EmptyBook
    /\ queue = <<>> /\ renamed = {} /\ receipts = {} /\ answer = NoAnswer
    /\ news = NoNews /\ page = NoPage /\ phase = "pull"
    /\ now = 0 /\ acts = 0 /\ moves = 0
    /\ noted = {} /\ landed = {} /\ unheard = {} /\ strain = {}

Next ==
    \/ PhoneActs \/ RivalActs
    \/ Send \/ AnswerArrives \/ AnswerRefuses \/ AnswerLost \/ CycleEnds
    \/ AskPage \/ ApplyPage \/ PageLost
    \/ Tick

Spec == Init /\ [][Next]_vars

-----------------------------------------------------------------------------
(* Once nothing waits and the last page has come, and the server has       *)
(* neither refused nor declined a write of a booking, the desk's calendar  *)
(* is the server's: the same bookings stand, for the same windows, with    *)
(* the same claims - "the optimistic view and the server's truth agree".   *)
CaughtUp == phase = "flush" /\ news = NoNews /\ Live = {}

CalendarsAgree ==
    CaughtUp => \A b \in Bookings :
        LET name == <<b, "server">>
            p == phone.rows[name]
            s == server.rows[name]
        IN \/ b \in unheard \/ \E o \in FailedOps : o.b[1] = b
           \/ /\ ~Known(<<b, "phone">>)
              /\ StampOf(p, now) = StampOf(s, now)
              /\ StampOf(s, now) \in {"pencil", "confirmed"} =>
                    HeldWindow(p) = HeldWindow(s) /\ OfBooking(phone, name) = OfBooking(server, name)

(* "The semantics are 0022's": what the phone let the desk do the server   *)
(* takes, unless another desk confirmed or cancelled, time passed, a page came over   *)
(* the unsent write, the server picked other units, or the desk leaned on  *)
(* a sub-rent or on a claim the server has not named.                      *)
VerdictsAgree == strain = {} => FailedOps = {}

(* The desk's calendar mirrors the server's: in what it shows once all is  *)
(* sent and heard, and in what it lets the desk do.                        *)
DeskMirrors == CalendarsAgree /\ VerdictsAgree

(* "A refused confirm parks its convert too": after a refusal nothing the  *)
(* desk did to that booking before it heard of the refusal is done - unless*)
(* another booking's sub-rent or substitute, which names this one, was     *)
(* written in between: what follows chains itself behind that op, and that *)
(* op behind its own booking's.                                            *)
Helped(b, lo, hi) ==
    \E o \in landed \cup LiveOps \cup FailedOps :
        /\ lo < o.n /\ o.n < hi
        /\ o.b[1] # b /\ \E y \in o.serves : y[1] = b
RefusalEndsTheStory ==
    \A f \in FailedOps, o \in landed :
        o.b[1] = f.b[1] /\ o.n > f.n => f.n \in o.knew \/ Helped(f.b[1], f.n, o.n)

(* The phone promises no unit twice, and no more stock than there is,      *)
(* while it is alone and nothing it wrote was refused: a rival's pencil,   *)
(* its own swaps, extensions, expiries and half-sent queue cost no second  *)
(* promise.  (What was refused stays on the phone, beside what a page then *)
(* tells: a unit whose swap was refused comes back to a booking, though    *)
(* the desk has promised it to another meanwhile.)                         *)
PhonePromisesOnce ==
    strain \subseteq {"time", "guess"} /\ FailedOps = {} =>
        /\ \A c \in phone.claims :
              c.thing \in Units /\ c.state = "confirmed" /\ phone.rows[c.booking].status = "confirmed"
                 => Promises(phone, c.thing, c, c.booking) = {}
        /\ \A b \in Names : LeftOver(phone, Window(1, Max(Ends) + Turn), b) >= 0
=============================================================================
