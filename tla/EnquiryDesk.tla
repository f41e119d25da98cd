---------------------------- MODULE EnquiryDesk ----------------------------
(***************************************************************************)
(* The desk answers a client on the phone: a pasted kit list is read       *)
(* (KitList), checked against the shelf and the calendar                   *)
(* (packages/core/src/availability.ts), priced (Pricing), and becomes a    *)
(* reply, a job or a booking (apps/app/src/demo/EnquiryScreen.tsx).        *)
(* Meanwhile the house's own list is imported, gear moves, and rates and   *)
(* holidays are written here (apps/app/src/demo/quotes.ts) and at the      *)
(* office; the former are queued as the server's verbs (0024) and come     *)
(* back by the pull (packages/core/src/pull.ts).                           *)
(*                                                                         *)
(* A book is a function from the keys of its rows to the rows.  The        *)
(* server's row has the id Server, one the phone names first the number of *)
(* the op that made it.  An answer is not lost here (DeskCalendar has that *)
(* case), and the house has one zone.                                      *)
(***************************************************************************)
EXTENDS Pricing, CatalogueImport

CONSTANTS
    StartCatalogue, StartUnits,   \* the house's list and gear at first
    Starts,                       \* [book, role, budget]: rates and bookings at first, on both
                                  \* sides; who holds the phone; the bounds: so many asks,
                                  \* writes and moves are done
    Messages, Files,              \* what may be pasted, what may be imported
    Windows, NoWindow,            \* the dates a client may ask for
    Rates, Percents, Holidays,    \* day rates, multipliers and the dates they fall on
    Knobs,                        \* what a rate card may be set to
    Bookings                      \* bookings made here

Server == 0
CardIds == {"office", "mine"}
NoPage == [keys |-> {}, rows |-> <<>>]

VARIABLES
    phone, server,    \* rate cards, rates, holidays and bookings, on each side
    queue, parked,    \* the phone's outbox, oldest first; ops the server refused
    news, page,       \* keys the next page will carry; the page on its way
    receipts, heard,  \* ops the server has answered; history: answers that came
    role,             \* of the person holding the phone
    catalogue, units, claims,   \* names; gear; units confirmed to others, and when
    window, answer, list, logged,   \* the screen: dates, lines, which list, counted
    demand, job,      \* demand_log; the job made from an answer
    acts, left        \* writes made here; what the bounds leave

books == <<phone, server, queue, parked, news, page, receipts, heard>>
shelf == <<catalogue, units, claims>>
screen == <<window, answer, list, logged, demand, job>>
vars == <<books, role, shelf, screen, acts, left>>

-----------------------------------------------------------------------------
Spend(what) == left[what] > 0 /\ left' = [left EXCEPT ![what] = @ - 1]

Rows(book, kind) == {k \in DOMAIN book : k[1] = kind}
Put(book, key, row) == (key :> row) @@ book
Without(book, keys) == Restrict(book, DOMAIN book \ keys)

(* defaultCard, rateEntries and calendarDays.                              *)
Default(book) == {k[2] : k \in {x \in Rows(book, "card") : book[x].default}}
TheCard(book) == IF Default(book) = {} THEN NoCard
                 ELSE book[<<"card", CHOOSE c \in Default(book) : TRUE>>].knobs
RateRows(book, c, p) == {k \in Rows(book, "rate") : k[2] = c /\ k[3] = p}
TheRates(book) ==
    LET c == CHOOSE c \in Default(book) : TRUE
    IN  IF Default(book) = {} THEN <<>>
        ELSE [p \in {k[3] : k \in {x \in Rows(book, "rate") : x[2] = c}} |->
                 book[CHOOSE k \in RateRows(book, c, p) : TRUE]]
DayRows(book, day) == {k \in Rows(book, "day") : k[2] = day}
TheDays(book) == {[day |-> k[2], percent |-> book[k]] : k \in Rows(book, "day")}

(* linesOfBooking, in the order they were written.                         *)
LineRows(book, b) == {k \in Rows(book, "line") : k[2] = b}
TheLines(book, b) ==
    LET order == SetToSortSeq(LineRows(book, b), LAMBDA j, k : j[3] < k[3])
    IN  [i \in DOMAIN order |-> book[order[i]]]

QuoteForLines(lines, w) ==
    PriceQuote(TheCard(phone), TheRates(phone), TheDays(phone), w, lines, "enquiry")
QuoteFor(b) ==
    PriceQuote(TheCard(phone), TheRates(phone), TheDays(phone),
               phone[<<"booking", b>>].window, TheLines(phone, b), phone[<<"booking", b>>].status)
ServerQuote(w, lines, status) ==
    PriceBooking(TheCard(server), TheRates(server), TheDays(server), w, lines, status)

-----------------------------------------------------------------------------
(* Writes of the phone: its rows move at once, the op waits.  An op about  *)
(* a card or a booking is chained behind the last unsent one.              *)
Op(verb, on, args) ==
    [n |-> acts + 1, verb |-> verb, on |-> on, args |-> args,
     parent |-> IF on = <<>> THEN 0
                ELSE Max({0} \cup {queue[i].n : i \in {k \in DOMAIN queue : queue[k].on = on}})]
Write(book, verb, on, args) ==
    /\ Spend("writes") /\ acts' = acts + 1
    /\ phone' = book
    /\ queue' = Append(queue, Op(verb, on, args))
    /\ UNCHANGED <<server, parked, news, page, receipts, heard, role, shelf>>

SetRate(p, rate) ==
    \E c \in Default(phone) :
        LET old == RateRows(phone, c, p)
            key == IF old # {} THEN CHOOSE k \in old : TRUE ELSE <<"rate", c, p, acts + 1>>
        IN
        /\ Write(IF rate = NoRate THEN Without(phone, old) ELSE Put(phone, key, rate),
                 "rate", <<"card", c>>, [product |-> p, rate |-> rate])
        /\ UNCHANGED screen

SetRateCard(knobs) ==
    LET existing == Default(phone)
        c == IF existing = {} THEN "mine" ELSE CHOOSE x \in existing : TRUE
    IN
    /\ existing = {} => <<"card", "mine">> \notin DOMAIN phone
    /\ Write(Put(phone, <<"card", c>>, [default |-> TRUE, knobs |-> knobs]),
             "card", <<"card", c>>, [new |-> existing = {}, knobs |-> knobs])
    /\ UNCHANGED screen

SetCalendarDay(day, percent) ==
    LET old == DayRows(phone, day)
        key == IF old # {} THEN CHOOSE k \in old : TRUE ELSE <<"day", day, acts + 1>>
    IN
    /\ Write(Put(phone, key, percent), "set day", <<>>,
             [day |-> day, percent |-> percent, id |-> key[3]])
    /\ UNCHANGED screen

ClearCalendarDay(day) ==
    \E key \in DayRows(phone, day) :
        /\ Write(Without(phone, {key}), "clear day", <<>>, [day |-> day])
        /\ UNCHANGED screen

SetLineOverride(b, key, rate) ==
    /\ key \in LineRows(phone, b)
    /\ Write(Put(phone, key, [phone[key] EXCEPT !.rate = rate]),
             "override", <<"booking", b>>, [line |-> key, rate |-> rate])
    /\ UNCHANGED screen

-----------------------------------------------------------------------------
(* The server's verbs.  One it refuses parks the op and every op chained   *)
(* behind it; the name a phone gave a line means nothing there.            *)
Accepts(o) ==
    /\ role = "manager" \/ o.verb = "book"
    /\ o.verb \in {"rate", "override"} => o.on \in DOMAIN server
    /\ o.verb = "card" /\ ~o.args.new => o.on \in DOMAIN server
    /\ o.verb = "override" => o.args.line \in DOMAIN server

Demoted(book) == [k \in DOMAIN book |->
    IF k[1] = "card" THEN [book[k] EXCEPT !.default = FALSE] ELSE book[k]]

Done(book, o) ==
    LET a == o.args IN
    CASE o.verb = "rate" -> IF a.rate = NoRate THEN Without(book, {<<"rate", o.on[2], a.product, Server>>})
                            ELSE Put(book, <<"rate", o.on[2], a.product, Server>>, a.rate)
      [] o.verb = "card" -> Put(Demoted(book), o.on, [default |-> TRUE, knobs |-> a.knobs])
      [] o.verb = "set day" -> Put(book, <<"day", a.day, Server>>, a.percent)
      [] o.verb = "clear day" -> Without(book, {<<"day", a.day, Server>>})
      [] o.verb = "override" -> [book EXCEPT ![a.line].rate = a.rate]
      [] o.verb = "book" ->
            [i \in {<<"line", o.on[2], i, Server>> : i \in DOMAIN a.lines} |-> a.lines[i[3]]]
              @@ Put(book, o.on, [window |-> a.window, status |-> "pencil"])

Changed(old, new) == {k \in DOMAIN old \cup DOMAIN new :
    k \notin DOMAIN old \cap DOMAIN new \/ old[k] # new[k]}

\* The answer to a new holiday names the server's row, and the phone's row
\* takes that name: an update of a primary key, which a row already there
\* refuses.
Renamed(o) ==
    LET mine == <<"day", o.args.day, o.args.id>>
        theirs == <<"day", o.args.day, Server>>
    IN  IF o.verb # "set day" \/ o.args.id = Server \/ mine \notin DOMAIN phone THEN phone
        ELSE Put(Without(phone, {mine}), theirs, phone[mine])
Collides(o) ==
    /\ o.verb = "set day" /\ o.args.id # Server
    /\ {<<"day", o.args.day, o.args.id>>, <<"day", o.args.day, Server>>} \subseteq DOMAIN phone

RECURSIVE Behind(_)
Behind(ns) ==
    LET more == ns \cup {queue[i].n : i \in {k \in DOMAIN queue : queue[k].parent \in ns}}
    IN  IF more = ns THEN ns ELSE Behind(more)

Dispatch ==
    /\ queue # <<>> /\ page = NoPage
    /\ LET o == Head(queue)
           taken == IF o.n \in receipts THEN server ELSE Done(server, o)
       IN  IF o.n \notin receipts /\ ~Accepts(o)
             THEN /\ parked' = parked \cup Behind({o.n})
                  /\ queue' = SelectSeq(queue, LAMBDA p : p.n \notin Behind({o.n}))
                  /\ UNCHANGED <<phone, server, news, receipts, heard>>
             ELSE /\ server' = taken
                  /\ news' = news \cup Changed(server, taken)
                  /\ receipts' = receipts \cup {o.n}
                  /\ heard' = heard \cup {o.n}
                  /\ IF Collides(o) THEN UNCHANGED <<phone, queue>>
                     ELSE phone' = Renamed(o) /\ queue' = Tail(queue)
                  /\ UNCHANGED parked
    /\ UNCHANGED <<page, role, shelf, screen, acts, left>>

(* A page is read at the server, then applied: the server's children of a  *)
(* parent replace the phone's guesses, a deleted row goes.                 *)
AskForPage ==
    /\ page = NoPage /\ news # {}
    /\ page' = [keys |-> news, rows |-> Restrict(server, news \cap DOMAIN server)]
    /\ news' = {}
    /\ UNCHANGED <<phone, server, queue, parked, receipts, heard, role, shelf, screen, acts, left>>

Guesses(keys) ==
    {k \in DOMAIN phone : k[1] \in {"rate", "line"} /\ k[4] # Server
                          /\ \E x \in keys : x[1] = k[1] /\ x[2] = k[2]}
ApplyPage_KeepsGuesses ==
    /\ page # NoPage
    /\ phone' = page.rows @@ Without(phone, page.keys)
    /\ page' = NoPage
    /\ UNCHANGED <<server, queue, parked, news, receipts, heard, role, shelf, screen, acts, left>>
ApplyPage ==
    /\ page # NoPage
    /\ phone' = page.rows @@ Without(phone, page.keys \cup Guesses(page.keys))
    /\ page' = NoPage
    /\ UNCHANGED <<server, queue, parked, news, receipts, heard, role, shelf, screen, acts, left>>

(* The office writes the same rows at the server.                          *)
Office(book) ==
    /\ Spend("moves")
    /\ server' = book /\ book # server
    /\ news' = news \cup Changed(server, book)
    /\ UNCHANGED <<phone, queue, parked, page, receipts, heard, role, shelf, screen, acts>>
OfficeSetsRate(p, rate) ==
    \E c \in Default(server) : Office(Put(server, <<"rate", c, p, Server>>, rate))
OfficeMakesCard(knobs) ==
    /\ <<"card", "office">> \notin DOMAIN server
    /\ Office(Put(Demoted(server), <<"card", "office">>, [default |-> TRUE, knobs |-> knobs]))
OfficeSetsDay(day, percent) == Office(Put(server, <<"day", day, Server>>, percent))
OfficeClearsDay(day) == Office(Without(server, {<<"day", day, Server>>}))

-----------------------------------------------------------------------------
(* The screen.  A line says what the client wrote, what it was taken for,  *)
(* and whether that can be given: what is here and fit (onHandByProduct),  *)
(* less the units confirmed over the window (bookingAvailability).  tapped *)
(* is history: the desk chose the product by hand.                         *)
Overlap(v, w) == v.from < w.until /\ w.from < v.until

OnHand(p) == Cardinality({u \in DOMAIN units : units[u].product = p /\ units[u].here /\ units[u].fit})
ConfirmedOverlap_StartsInside(p, w) ==
    IF w = NoWindow THEN 0
    ELSE Cardinality({u \in DOMAIN units :
            /\ units[u].product = p
            /\ \E c \in claims : c.unit = u /\ w.from <= c.window.from /\ c.window.from < w.until})
ConfirmedOverlap(p, w) ==
    IF w = NoWindow THEN 0
    ELSE Cardinality({u \in DOMAIN units : /\ units[u].product = p
                                           /\ \E c \in claims : c.unit = u /\ Overlap(c.window, w)})

CheckLine(line, w) ==
    LET onHand == OnHand(line.product)
        overlap == ConfirmedOverlap(line.product, w)
        free == Most(onHand - overlap, 0)
        state == IF free >= line.quantity THEN "available"
                 ELSE IF free > 0 THEN "short" ELSE "none"
    IN  IF line.product = 0 THEN [onHand |-> 0, free |-> 0, state |-> "unknown"] @@ line
        ELSE [onHand |-> onHand, free |-> free, state |-> state] @@ line

CheckAvailability(lines, w) == [i \in DOMAIN lines |-> CheckLine(lines[i], w)]

NoAnswer == [shown |-> FALSE, lines |-> <<>>]
Answer(lines, w) == [shown |-> TRUE, lines |-> CheckAvailability(lines, w)]
Resolved(lines) == SelectSeq(lines, LAMBDA l : l.product # 0)
EnquiryLines == LET known == Resolved(answer.lines) IN
    [i \in DOMAIN known |-> [product |-> known[i].product, qty |-> known[i].quantity, rate |-> NoRate]]

Paste(message) ==
    /\ Spend("asks")
    /\ LET read == MatchKitList(ParseKitList(message), catalogue)
       IN  answer' = Answer([i \in DOMAIN read |-> [tapped |-> FALSE] @@ read[i]], window)
    /\ list' = list + 1 /\ logged' = FALSE
    /\ UNCHANGED <<books, role, shelf, window, demand, job, acts>>

NewList ==
    /\ answer.shown /\ answer' = NoAnswer
    /\ UNCHANGED <<books, role, shelf, window, list, logged, demand, job, acts, left>>

ChangeWindow(w) ==
    /\ w # window /\ window' = w
    /\ answer' = IF answer.shown THEN Answer(answer.lines, w) ELSE answer
    /\ UNCHANGED <<books, role, shelf, list, logged, demand, job, acts, left>>

Resolve(i, p) ==
    /\ answer.lines[i].state = "unknown"
    /\ p \in Range(FirstOf(answer.lines[i].candidates, 2))
    /\ answer' = Answer([answer.lines EXCEPT ![i] =
                     [@ EXCEPT !.product = p, !.confidence = "exact", !.tapped = TRUE]], window)
    /\ UNCHANGED <<books, role, shelf, window, list, logged, demand, job, acts, left>>

-----------------------------------------------------------------------------
(* An answer that is used says, once for its list, what could not be       *)
(* offered (logDemand, recordTurnedAway).                                  *)
TurnedAway ==
    LET short == SelectSeq(answer.lines, LAMBDA l : l.state \in {"short", "none"})
    IN  [i \in DOMAIN short |-> [list |-> list, product |-> short[i].product,
                                 qty |-> short[i].quantity - short[i].free,
                                 why |-> IF short[i].onHand >= short[i].quantity
                                         THEN "committed" ELSE "short"]]
LogDemand_EveryTime == demand' = demand \o TurnedAway /\ logged' = TRUE
LogDemand ==
    /\ demand' = IF logged THEN demand ELSE demand \o TurnedAway
    /\ logged' = TRUE

CopyReply ==
    /\ answer.lines # <<>>
    /\ LogDemand
    /\ UNCHANGED <<books, role, shelf, window, answer, list, job, acts, left>>

\* An answer is fresh while asking again would say the same.
Fresh == answer.shown /\ answer.lines = CheckAvailability(answer.lines, window)
AllAvailable == \A i \in DOMAIN answer.lines : answer.lines[i].state = "available"

(* createJob promises, line by line, the first units of the product that   *)
(* are here and fit; a unit promised twice breaks job_expected's primary   *)
(* key, and then there is no job and no demand.  yes is history: the screen said   *)
(* that everything is available, and that was so.                          *)
FirstHere(p, n) ==
    FirstOf(SelectSeq([u \in DOMAIN units |-> u],
                      LAMBDA u : units[u].product = p /\ units[u].here /\ units[u].fit), n)
MakeJob ==
    LET wants == EnquiryLines
        expected == FlattenSeq([i \in DOMAIN wants |-> FirstHere(wants[i].product, wants[i].qty)])
    IN
    /\ answer.shown /\ Spend("asks")
    /\ IsInjective(expected)
    /\ job' = [expected |-> expected, wants |-> wants, yes |-> Fresh /\ AllAvailable]
    /\ LogDemand
    /\ UNCHANGED <<books, role, shelf, window, answer, list, acts>>

(* NewBookingSheet: the lines become a pencilled booking, whose rows the   *)
(* phone names first.                                                      *)
Book(b, w) ==
    /\ <<"booking", b>> \notin DOMAIN phone
    /\ EnquiryLines # <<>> /\ window \in {NoWindow, w}
    /\ LET lines == EnquiryLines
           rows == [k \in {<<"line", b, i, acts + 1>> : i \in DOMAIN lines} |-> lines[k[3]]]
       IN  Write(rows @@ Put(phone, <<"booking", b>>, [window |-> w, status |-> "pencil"]),
                 "book", <<"booking", b>>, [window |-> w, lines |-> lines])
    /\ UNCHANGED screen

(* ImportScreen: the plan is made and applied, and the matcher reads the   *)
(* catalogue again.                                                        *)
ImportFile(file) ==
    /\ Spend("asks")
    /\ LET book == ApplyImport(catalogue, units, file, PlanImport(file, catalogue))
       IN  catalogue' = book.catalogue /\ units' = book.units
    /\ UNCHANGED <<books, role, claims, screen, acts>>

(* Gear leaves and returns, breaks and is mended; a booking is confirmed.  *)
Move(u) ==
    /\ Spend("moves")
    /\ \/ units' = [units EXCEPT ![u].here = ~@]
       \/ units' = [units EXCEPT ![u].fit = ~@]
    /\ UNCHANGED <<books, role, catalogue, claims, screen, acts>>
Claim(u, w) ==
    /\ Spend("moves")
    /\ \A c \in claims : c.unit = u => ~Overlap(c.window, w)
    /\ claims' = claims \cup {[unit |-> u, window |-> w]}
    /\ UNCHANGED <<books, role, catalogue, units, screen, acts>>

-----------------------------------------------------------------------------
Init ==
    /\ \E start \in Starts :
          /\ phone = start.book /\ server = start.book
          /\ role = start.role /\ left = start.budget
    /\ queue = <<>> /\ parked = {} /\ news = {} /\ page = NoPage
    /\ receipts = {} /\ heard = {}
    /\ catalogue = StartCatalogue /\ units = StartUnits /\ claims = {}
    /\ window = NoWindow /\ answer = NoAnswer /\ list = 0 /\ logged = FALSE
    /\ demand = <<>> /\ job = [expected |-> <<>>, wants |-> <<>>, yes |-> FALSE]
    /\ acts = 0

Enquire ==
    \/ \E message \in Messages : Paste(message)
    \/ NewList
    \/ \E w \in Windows : ChangeWindow(w)
    \/ \E i \in DOMAIN answer.lines, p \in DOMAIN catalogue : Resolve(i, p)
    \/ CopyReply
    \/ MakeJob
    \/ \E b \in Bookings, w \in Windows : Book(b, w)
Price ==
    \/ \E p \in DOMAIN StartCatalogue, rate \in Rates \cup {NoRate} : SetRate(p, rate)
    \/ \E knobs \in Knobs : SetRateCard(knobs)
    \/ \E day \in Holidays, percent \in Percents : SetCalendarDay(day, percent)
    \/ \E day \in Holidays : ClearCalendarDay(day)
    \/ \E b \in Bookings : \E key \in LineRows(phone, b), rate \in Rates \cup {NoRate} :
          SetLineOverride(b, key, rate)
Elsewhere ==
    \/ \E p \in DOMAIN StartCatalogue, rate \in Rates : OfficeSetsRate(p, rate)
    \/ \E knobs \in Knobs : OfficeMakesCard(knobs)
    \/ \E day \in Holidays, percent \in Percents : OfficeSetsDay(day, percent)
    \/ \E day \in Holidays : OfficeClearsDay(day)
    \/ \E u \in DOMAIN units : Move(u)
    \/ \E u \in DOMAIN units, w \in Windows : Claim(u, w)
Next ==
    \/ Enquire
    \/ Price
    \/ Elsewhere
    \/ \E file \in Files : ImportFile(file)
    \/ Dispatch
    \/ AskForPage
    \/ ApplyPage

Spec == Init /\ [][Next]_vars

-----------------------------------------------------------------------------
(* Once the phone has nothing to send and nothing to hear, it quotes the   *)
(* server's money: every booking's own quote, and the enquiry's on any     *)
(* dates, come out of price_booking the same, line by line and in total    *)
(* (pricing.ts's header; replaceChildGuesses, planReply and the pull keep  *)
(* the rows the same).                                                     *)
CaughtUp == queue = <<>> /\ parked = {} /\ news = {} /\ page = NoPage
QuotesAgree ==
    CaughtUp =>
        /\ Rows(phone, "booking") = Rows(server, "booking")
        /\ \A k \in Rows(phone, "booking") :
              QuoteFor(k[2]) = ServerQuote(server[k].window, TheLines(server, k[2]), server[k].status)
        /\ \A w \in Windows :
              QuoteForLines(EnquiryLines, w) = ServerQuote(w, EnquiryLines, "enquiry")

(* Keeping the gear longer never costs less, whatever the week, the        *)
(* minimum, the free weekdays and the holidays: the cliff the week rule's  *)
(* ceiling is there for (pricing.ts, step 2).                              *)
LongerNeverCheaper ==
    \A k \in Rows(phone, "booking") : \A from \in 0..1, n \in 1..8 :
        LET price(days) == PriceQuote(TheCard(phone), TheRates(phone), TheDays(phone),
                                      Window(from, from + days * DayLength),
                                      TheLines(phone, k[2]), phone[k].status).subtotal
        IN  price(n) <= price(n + 1)

(* A quote stands: the same on both sides, and never dearer for less.      *)
QuotesStand == QuotesAgree /\ LongerNeverCheaper

(* A line the screen calls available can be filled: so many units of the   *)
(* product are here, fit and free over the dates, as long as the answer is *)
(* fresh; and the job made when everything was available promises every    *)
(* unit the client asked for (availability.ts and createJob).              *)
Backing(l) == {u \in DOMAIN units :
    /\ units[u].product = l.product /\ units[u].here /\ units[u].fit
    /\ \A c \in claims : c.unit = u => window = NoWindow \/ ~Overlap(c.window, window)}
AnswersAreBacked ==
    /\ Fresh => \A i \in DOMAIN answer.lines :
          LET l == answer.lines[i]
          IN  l.state = "available" => Cardinality(Backing(l)) >= l.quantity
    /\ job.yes => Len(job.expected) = SumFunction([i \in DOMAIN job.wants |-> job.wants[i].qty])

(* A product is put to a client's words without asking only when no other  *)
(* product's name has the same words, and, in a line of up to three words, *)
(* when every short word, a model number, is in its name (kit-list.ts:     *)
(* "never silently guesses").                                              *)
SameWords(a, b) == Len(a) = Len(b) /\ Range(a) = Range(b)
Certain(l) ==
    LET name == Normalised(catalogue[l.product].words) IN
    /\ \A q \in DOMAIN catalogue \ {l.product} : ~SameWords(Normalised(catalogue[q].words), name)
    /\ Len(l.text) <= 3 /\ Compact(l.text) # Compact(name) =>
          \A i \in DOMAIN l.text : Len(l.text[i]) <= 3 => l.text[i] \in Range(name)
NeverSilentlyGuesses ==
    [][list' # list => \A i \in DOMAIN answer'.lines :
                          answer'.lines[i].product # 0 => Certain(answer'.lines[i])]_vars

(* An import gives every unit a code of its own, and puts it under a       *)
(* product that is called what its row said (planImport: an ambiguous name *)
(* is never merged).                                                       *)
ImportsStayApart ==
    /\ \A u, v \in DOMAIN units : u # v => units[u].code # units[v].code
    /\ \A u \in DOMAIN units : Key(catalogue[units[u].product]) = Key(units[u].name)
=============================================================================
