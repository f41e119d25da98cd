--------------------------- MODULE BookingsProofs ---------------------------
(* No unit is promised twice, for any number of desks, bookings and units. *)
(* The argument follows what each call sees: its view of the reservations, *)
(* its own writes included, is free of clashes, and so are the writes of   *)
(* two open calls.  A commit makes one call's view the committed state.    *)
(* Every confirmed booking is allocated: see AllocInv.  And the shelf is   *)
(* never overdrawn: see ShelfInv.                                          *)
EXTENDS Bookings, DataInduction

(* A clash has no direction, and a reservation that is gone has none.      *)
LEMMA ClashFacts ==
    /\ \A c, d : Clash(c, d) => Clash(d, c)
    /\ \A c : ~Clash(NoClaim, c) /\ ~Clash(c, NoClaim)
BY DEF Clash, NoClaim

(* A step in which one call drops rows and writes the admitted versions    *)
(* `new' leaves every view and every pair of calls free of clashes.        *)
LEMMA OwnStep ==
    ASSUME BookInv, NEW t \in Desks, NEW new, DOMAIN new \subseteq Rows, Admits(t, new),
           claim' = claim, \A s \in Desks \ {t} : tx'[s] = tx[s],
           \A r \in Rows : View(t, r)' = NoClaim
                           \/ View(t, r)' = IF r \in DOMAIN new THEN new[r] ELSE View(t, r),
           \A i \in Lines : \/ tx'[t].writes[i] = NoClaim
                            \/ tx'[t].writes[i] = tx[t].writes[i]
                            \/ \E r \in DOMAIN new : tx'[t].writes[i] = new[r]
    PROVE  NoClash'
<1>1. NoDoublePromise'
    BY DEF BookInv, NoClash, NoDoublePromise
<1>2. ASSUME NEW s \in Desks, NEW r \in Rows, NEW q \in Rows, r # q
      PROVE  ~Clash(View(s, r), View(s, q))'
    <2>1. CASE s # t
        <3>1. View(s, r)' = View(s, r) /\ View(s, q)' = View(s, q)
            BY <2>1 DEF View
        <3>2. ~Clash(View(s, r), View(s, q))
            BY <1>2 DEF BookInv, NoClash
        <3>3. QED
            BY <3>1, <3>2 DEF Clash
    <2>2. CASE s = t
        <3> DEFINE After(x) == IF x \in DOMAIN new THEN new[x] ELSE View(t, x)
        <3>1. ~Clash(After(r), After(q))
            <4>1. CASE r \in DOMAIN new
                BY <4>1, <1>2 DEF Admits
            <4>2. CASE r \notin DOMAIN new /\ q \in DOMAIN new
                <5>1. ~Clash(new[q], After(r))
                    BY <4>2, <1>2 DEF Admits
                <5>2. QED
                    BY <5>1, <4>2, ClashFacts
            <4>3. CASE r \notin DOMAIN new /\ q \notin DOMAIN new
                BY <4>3, <1>2 DEF BookInv, NoClash
            <4>4. QED
                BY <4>1, <4>2, <4>3
        <3>2. /\ View(t, r)' = NoClaim \/ View(t, r)' = After(r)
              /\ View(t, q)' = NoClaim \/ View(t, q)' = After(q)
            OBVIOUS
        <3>3. ~Clash(View(t, r)', View(t, q)')
            BY <3>1, <3>2, ClashFacts
        <3>4. QED
            BY <3>3, <2>2 DEF Clash
    <2>3. QED
        BY <2>1, <2>2
<1>3. ASSUME NEW s \in Desks, s # t, NEW i \in Lines, NEW j \in Lines
      PROVE  ~Clash(tx'[t].writes[i], tx'[s].writes[j])
    <2>1. tx'[s].writes[j] = tx[s].writes[j]
        BY <1>3
    <2>2. ~Clash(tx[t].writes[i], tx[s].writes[j])
        BY <1>3 DEF BookInv, NoClash
    <2>3. \A r \in DOMAIN new : ~Clash(new[r], tx[s].writes[j])
        BY <1>3 DEF Admits
    <2>4. QED
        BY <2>1, <2>2, <2>3, ClashFacts
<1>4. ASSUME NEW u \in Desks, NEW s \in Desks, NEW i \in Lines, NEW j \in Lines, u # s
      PROVE  ~Clash(tx[u].writes[i], tx[s].writes[j])'
    <2>1. CASE u = t
        BY <1>3, <1>4, <2>1 DEF Clash
    <2>2. CASE s = t
        <3>1. ~Clash(tx'[s].writes[j], tx'[u].writes[i])
            BY <1>3, <1>4, <2>2
        <3>2. QED
            BY <3>1 DEF Clash
    <2>3. CASE u # t /\ s # t
        <3>1. ~Clash(tx[u].writes[i], tx[s].writes[j])
            BY <1>4 DEF BookInv, NoClash
        <3>2. QED
            BY <3>1, <2>3 DEF Clash
    <2>4. QED
        BY <2>1, <2>2, <2>3
<1>5. QED
    BY <1>1, <1>2, <1>4 DEF NoClash

(* A call that has written nothing sees the committed reservations, but    *)
(* those it is dropping.                                                   *)
LEMMA FreshCall ==
    ASSUME BookInv, NEW t \in Desks,
           claim' = claim, \A s \in Desks \ {t} : tx'[s] = tx[s],
           \A i \in Lines : tx'[t].writes[i] = NoClaim
    PROVE  NoClash'
<1>1. NoDoublePromise'
    BY DEF BookInv, NoClash, NoDoublePromise
<1>2. ASSUME NEW s \in Desks, NEW r \in Rows, NEW q \in Rows, r # q
      PROVE  ~Clash(View(s, r), View(s, q))'
    <2>1. CASE s # t
        <3>1. View(s, r)' = View(s, r) /\ View(s, q)' = View(s, q)
            BY <2>1 DEF View
        <3>2. ~Clash(View(s, r), View(s, q))
            BY <1>2 DEF BookInv, NoClash
        <3>3. QED
            BY <3>1, <3>2 DEF Clash
    <2>2. CASE s = t
        <3>1. r[2] \in Lines /\ q[2] \in Lines
            BY <1>2 DEF Rows
        <3>2. /\ View(t, r)' = NoClaim \/ View(t, r)' = claim[r]
              /\ View(t, q)' = NoClaim \/ View(t, q)' = claim[q]
            BY <3>1 DEF View, NoClaim
        <3>3. ~Clash(claim[r], claim[q])
            BY <1>2 DEF BookInv, NoClash, NoDoublePromise
        <3>4. ~Clash(View(t, r)', View(t, q)')
            BY <3>2, <3>3, ClashFacts
        <3>5. QED
            BY <3>4, <2>2 DEF Clash
    <2>3. QED
        BY <2>1, <2>2
<1>3. ASSUME NEW u \in Desks, NEW s \in Desks, NEW i \in Lines, NEW j \in Lines, u # s
      PROVE  ~Clash(tx[u].writes[i], tx[s].writes[j])'
    <2>1. CASE u = t \/ s = t
        <3>1. tx'[u].writes[i] = NoClaim \/ tx'[s].writes[j] = NoClaim
            BY <2>1
        <3>2. QED
            BY <3>1, ClashFacts DEF Clash, NoClaim
    <2>2. CASE u # t /\ s # t
        <3>1. ~Clash(tx[u].writes[i], tx[s].writes[j])
            BY <1>3 DEF BookInv, NoClash
        <3>2. QED
            BY <3>1, <2>2 DEF Clash
    <2>3. QED
        BY <2>1, <2>2
<1>4. QED
    BY <1>1, <1>2, <1>3 DEF NoClash

(* The constants behind the types.                                         *)
LEMMA ConstantFacts ==
    /\ 1 \in Lines /\ NoBooking \in BookingRow /\ NoClaim \in Claim
    /\ Idle \in Transaction /\ OneThing(NoClaim)
    /\ \A ask \in Asks : \A i \in DOMAIN ask : i \in Lines /\ ask[i] \in Line
<1>1. 1 \in Lines
    BY BookingAssumption DEF Lines
<1>2. NoBooking \in BookingRow
    BY BookingAssumption DEF NoBooking, BookingRow
<1>3. NoClaim \in Claim
    BY DEF NoClaim, Claim, Window
<1>4. Idle \in Transaction
    BY <1>1, <1>2, <1>3 DEF Idle, Transaction
<1>5. ASSUME NEW ask \in Asks, NEW i \in DOMAIN ask PROVE i \in Lines /\ ask[i] \in Line
    <2>1. ask \in Seq(Line) /\ Len(ask) <= MaxLines
        BY AsksAssumption
    <2>2. i \in 1..Len(ask)
        BY <2>1
    <2>3. QED
        BY <2>1, <2>2, BookingAssumption DEF Lines
<1>6. OneThing(NoClaim)
    BY DEF OneThing, NoClaim
<1>7. QED
    BY <1>1, <1>2, <1>3, <1>4, <1>5, <1>6

LEMMA BlockedType == \A bk \in BookingRow : Blocked(bk) \in Window
BY BookingAssumption DEF BookingRow, Blocked, Window

-----------------------------------------------------------------------------
(* Every step keeps the types, what is known of an open call, and the      *)
(* freedom from clashes: one lemma per action.                             *)

LEMMA CallsKept ==
    ASSUME BookInv, NEW t \in Desks, \A s \in Desks \ {t} : tx'[s] = tx[s], CallOK(t)'
    PROVE  \A s \in Desks : CallOK(s)'
<1>1. ASSUME NEW s \in Desks PROVE CallOK(s)'
    <2>1. CASE s = t
        BY <2>1
    <2>2. CASE s # t
        <3>1. tx'[s] = tx[s] /\ CallOK(s)
            BY <2>2 DEF BookInv
        <3>2. QED
            BY <3>1 DEF CallOK, OneThing
    <2>3. QED
        BY <2>1, <2>2
<1>2. QED
    BY <1>1

LEMMA BeginStep ==
    ASSUME BookInv, NEW t \in Desks, Begin(t)
    PROVE  BookInv'
<1>1. PICK op \in {"create", "confirm", "cancel", "extend", "convert"} :
         \E b \in Ids : LET old == {x \in Ids \cap lapsed : booking[x].status = "pencil"}
             IN tx' = [tx EXCEPT ![t] = [Idle EXCEPT
                          !.at = IF old = {} THEN "lock" ELSE "see",
                          !.op = op, !.b = b, !.expired = old]]
    BY DEF Begin
<1>2. PICK b \in Ids : LET old == {x \in Ids \cap lapsed : booking[x].status = "pencil"}
             IN tx' = [tx EXCEPT ![t] = [Idle EXCEPT
                          !.at = IF old = {} THEN "lock" ELSE "see",
                          !.op = op, !.b = b, !.expired = old]]
    BY <1>1
<1>3. PICK at \in {"lock", "see"}, old \in SUBSET Ids :
         tx' = [tx EXCEPT ![t] = [Idle EXCEPT !.at = at, !.op = op, !.b = b, !.expired = old]]
    <2> DEFINE o == {x \in Ids \cap lapsed : booking[x].status = "pencil"}
    <2>1. o \in SUBSET Ids
        OBVIOUS
    <2>2. tx' = [tx EXCEPT ![t] = [Idle EXCEPT !.at = IF o = {} THEN "lock" ELSE "see",
                                              !.op = op, !.b = b, !.expired = o]]
        BY <1>2
    <2>3. QED
        BY <2>1, <2>2
<1>4. /\ tx \in [Desks -> Transaction]
      /\ UNCHANGED <<booking, claim, job, lapsed, feed>>
    BY DEF Begin, BookInv, BookingTypeOK
<1> DEFINE x == [Idle EXCEPT !.at = at, !.op = op, !.b = b, !.expired = old]
<1>5. x \in Transaction
    BY ConstantFacts DEF Transaction
<1>6. /\ tx' \in [Desks -> Transaction]
      /\ tx'[t] = x /\ \A s \in Desks \ {t} : tx'[s] = tx[s]
    BY <1>3, <1>4, <1>5
<1>7. x.drops = {} /\ x.at = at /\ x.b = b /\ x.line = 1 /\ \A i \in Lines : x.writes[i] = NoClaim
    BY DEF Idle
<1>8. BookingTypeOK'
    BY <1>4, <1>6 DEF BookInv, BookingTypeOK
<1>9. \A s \in Desks : CallOK(s)'
    <2>1. \A i \in Lines : OneThing(tx'[t].writes[i])
        BY <1>6, <1>7, ConstantFacts
    <2>2. CallOK(t)'
        BY <1>6, <1>7, <2>1 DEF CallOK, OneThing
    <2>3. QED
        BY <1>6, <2>2, CallsKept
<1>10. NoClash'
    BY <1>4, <1>6, <1>7, FreshCall, ZenonT(40)
<1>11. QED
    BY <1>4, <1>8, <1>9, <1>10 DEF BookInv

LEMMA BumpStep ==
    ASSUME BookInv, NEW t \in Desks, Bump(t)
    PROVE  BookInv'
<1>1. UNCHANGED <<booking, claim, job, lapsed, tx>> /\ feed' = t
    BY DEF Bump
<1>2. BookingTypeOK'
    BY <1>1 DEF BookInv, BookingTypeOK
<1>3. (\A s \in Desks : CallOK(s)') /\ NoClash'
    BY <1>1 DEF BookInv, CallOK, NoClash, NoDoublePromise, View, Clash
<1>4. QED
    BY <1>1, <1>2, <1>3 DEF BookInv

(* The three steps of prune_expired_pencils.                               *)
LEMMA PruneSteps ==
    ASSUME BookInv, NEW t \in Desks, SeeClaims(t) \/ DropClaims(t) \/ PruneBookings(t)
    PROVE  BookInv'
<1>1. /\ tx \in [Desks -> Transaction]
      /\ UNCHANGED <<booking, claim, job, lapsed, feed>>
    BY DEF SeeClaims, DropClaims, PruneBookings, BookInv, BookingTypeOK
<1>2. tx[t] \in Transaction /\ tx[t].at \in {"see", "drop", "prune"}
    BY <1>1 DEF SeeClaims, DropClaims, PruneBookings
<1>3. PICK at \in {"drop", "prune", "lock"}, sees \in SUBSET Rows, drops \in SUBSET Rows,
           wrote \in BOOLEAN :
         /\ tx' = [tx EXCEPT ![t].at = at, ![t].sees = sees, ![t].drops = drops,
                             ![t].wrote = wrote]
    <2>1. CASE SeeClaims(t)
        <3> DEFINE seen == {r \in Rows : r[1] \in tx[t].expired /\ claim[r].state # "none"}
        <3>1. tx' = [tx EXCEPT ![t].at = "drop", ![t].sees = seen]
            BY <2>1 DEF SeeClaims
        <3>2. tx' = [tx EXCEPT ![t].at = "drop", ![t].sees = seen, ![t].drops = tx[t].drops,
                               ![t].wrote = tx[t].wrote]
            BY <3>1, <1>1, <1>2, ZenonT(40) DEF Transaction
        <3>3. tx[t].drops \in SUBSET Rows /\ tx[t].wrote \in BOOLEAN
            BY <1>2 DEF Transaction
        <3>4. seen \in SUBSET Rows
            OBVIOUS
        <3>5. QED
            BY <3>2, <3>3, <3>4
    <2>2. CASE DropClaims(t)
        <3>1. tx' = [tx EXCEPT ![t].at = "prune", ![t].sees = tx[t].sees,
                               ![t].drops = tx[t].sees, ![t].wrote = (tx[t].sees # {})]
            BY <2>2, <1>1, <1>2 DEF DropClaims, Transaction
        <3>2. tx[t].sees \in SUBSET Rows
            BY <1>2 DEF Transaction
        <3>3. QED
            BY <3>1, <3>2
    <2>3. CASE PruneBookings(t)
        <3>1. tx' = [tx EXCEPT ![t].at = "lock", ![t].sees = tx[t].sees,
                               ![t].drops = tx[t].drops, ![t].wrote = TRUE]
            BY <2>3, <1>1, <1>2 DEF PruneBookings, Transaction
        <3>2. tx[t].sees \in SUBSET Rows /\ tx[t].drops \in SUBSET Rows
            BY <1>2 DEF Transaction
        <3>3. QED
            BY <3>1, <3>2
    <2>4. QED
        BY <2>1, <2>2, <2>3
<1> DEFINE x == [tx[t] EXCEPT !.at = at, !.sees = sees, !.drops = drops, !.wrote = wrote]
<1>4. x \in Transaction /\ x.drops = drops /\ x.writes = tx[t].writes /\ x.at = at
      /\ x.b = tx[t].b /\ x.line = tx[t].line
    BY <1>2 DEF Transaction
<1>5. tx'[t] = x /\ (\A s \in Desks \ {t} : tx'[s] = tx[s]) /\ tx' \in [Desks -> Transaction]
    BY <1>1, <1>3, <1>4
<1>6. tx[t].line = 1 /\ \A i \in Lines : tx[t].writes[i] = NoClaim
    BY <1>2 DEF BookInv, CallOK
<1>7. BookingTypeOK'
    BY <1>1, <1>5 DEF BookInv, BookingTypeOK
<1>8. \A s \in Desks : CallOK(s)'
    <2>1. tx[t].b \in Ids
        BY <1>2 DEF BookInv, CallOK
    <2>2. \A i \in Lines : OneThing(tx'[t].writes[i])
        BY <1>4, <1>5, <1>6, ConstantFacts
    <2>3. CallOK(t)'
        BY <1>4, <1>5, <1>6, <2>1, <2>2 DEF CallOK, OneThing
    <2>4. QED
        BY <1>5, <2>3, CallsKept
<1>9. NoClash'
    <2>1. \A i \in Lines : tx'[t].writes[i] = NoClaim
        BY <1>4, <1>5, <1>6
    <2>2. claim' = claim
        BY <1>1
    <2>3. QED
        BY <1>5, <2>1, <2>2, FreshCall
<1>10. QED
    BY <1>1, <1>7, <1>8, <1>9 DEF BookInv

(* What the body of a call leaves alone.                                   *)
LEMMA BodyFacts ==
    ASSUME BookInv, NEW t \in Desks,
           \/ Create(t) \/ StartConfirm(t) \/ ConfirmLine(t)
           \/ Cancel(t) \/ Extend(t) \/ Convert(t)
    PROVE  /\ UNCHANGED <<booking, claim, job, lapsed, feed>>
           /\ tx[t].at \in {"lock", "lines"} /\ tx[t].b \in Ids
           /\ tx[t] \in Transaction /\ booking[tx[t].b] \in BookingRow
           /\ tx \in [Desks -> Transaction] /\ claim \in [Rows -> Claim]
<1>1. /\ UNCHANGED <<booking, claim, job, lapsed, feed>>
      /\ tx[t].at \in {"lock", "lines"}
    BY DEF Create, StartConfirm, ConfirmLine, Cancel, Extend, Convert, Locks
<1>2. tx[t].b \in Ids
    BY <1>1 DEF BookInv, CallOK
<1>3. /\ tx \in [Desks -> Transaction] /\ claim \in [Rows -> Claim]
      /\ booking \in [Ids -> BookingRow]
    BY DEF BookInv, BookingTypeOK
<1>4. QED
    BY <1>1, <1>2, <1>3

(* How the body of a call keeps the invariant: its transaction has its     *)
(* type, the call is well formed, and there is no clash.                   *)
LEMMA BodyKeeps ==
    ASSUME BookInv, NEW t \in Desks, UNCHANGED <<booking, claim, job, lapsed, feed>>,
           NEW x \in Transaction, tx' = [tx EXCEPT ![t] = x], CallOK(t)', NoClash'
    PROVE  BookInv'
<1>1. tx \in [Desks -> Transaction]
    BY DEF BookInv, BookingTypeOK
<1>2. tx' \in [Desks -> Transaction] /\ \A s \in Desks \ {t} : tx'[s] = tx[s]
    BY <1>1
<1>3. BookingTypeOK'
    BY <1>2 DEF BookInv, BookingTypeOK
<1>4. \A s \in Desks : CallOK(s)'
    BY <1>2, CallsKept
<1>5. QED
    BY <1>3, <1>4 DEF BookInv

(* The call t writes the lines D of its own booking.                       *)
WritesLines(t, D, new) ==
    /\ tx[t].b \in Ids /\ D \in SUBSET Lines
    /\ DOMAIN new = {tx[t].b} \X D /\ Admits(t, new)
    /\ \A i \in D : new[<<tx[t].b, i>>].state # "none"
    /\ claim' = claim /\ \A s \in Desks \ {t} : tx'[s] = tx[s]
    /\ tx'[t].drops = tx[t].drops /\ tx'[t].b = tx[t].b
    /\ \A i \in Lines : tx'[t].writes[i] =
           IF i \in D THEN new[<<tx[t].b, i>>] ELSE tx[t].writes[i]

LEMMA WriteStep ==
    ASSUME BookInv, NEW t \in Desks, NEW D, NEW new, WritesLines(t, D, new)
    PROVE  NoClash'
<1> USE DEF WritesLines
<1>1. DOMAIN new = {tx[t].b} \X D /\ DOMAIN new \subseteq Rows
    BY DEF Rows
<1>2. ASSUME NEW r \in Rows
      PROVE  \/ View(t, r)' = NoClaim
             \/ View(t, r)' = IF r \in DOMAIN new THEN new[r] ELSE View(t, r)
    <2>1. r[2] \in Lines /\ r = <<r[1], r[2]>>
        BY DEF Rows
    <2>2. CASE r \in tx[t].drops
        BY <2>2 DEF View
    <2>3. CASE r \notin tx[t].drops /\ r \in DOMAIN new
        <3>1. r[1] = tx[t].b /\ r[2] \in D /\ r = <<tx[t].b, r[2]>>
            BY <2>1, <2>3, <1>1
        <3>2. tx'[t].writes[r[2]] = new[r] /\ new[r].state # "none"
            BY <3>1, <2>1
        <3>3. View(t, r)' = new[r]
            BY <3>1, <3>2, <2>3 DEF View
        <3>4. QED
            BY <3>3, <2>3
    <2>4. CASE r \notin tx[t].drops /\ r \notin DOMAIN new
        <3>1. r[1] # tx[t].b \/ r[2] \notin D
            BY <2>4, <2>1, <1>1
        <3>2. r[1] # tx[t].b \/ tx'[t].writes[r[2]] = tx[t].writes[r[2]]
            BY <3>1, <2>1
        <3>3. View(t, r)' = View(t, r)
            BY <3>2, <2>4 DEF View
        <3>4. QED
            BY <3>3, <2>4
    <2>5. QED
        BY <2>2, <2>3, <2>4
<1>3. ASSUME NEW i \in Lines
      PROVE  \/ tx'[t].writes[i] = tx[t].writes[i]
             \/ \E r \in DOMAIN new : tx'[t].writes[i] = new[r]
    <2>1. CASE i \in D
        <3>1. <<tx[t].b, i>> \in DOMAIN new
            BY <2>1, <1>1
        <3>2. QED
            BY <3>1, <2>1
    <2>2. CASE i \notin D
        BY <2>2
    <2>3. QED
        BY <2>1, <2>2
<1>4. QED
    BY <1>1, <1>2, <1>3, OwnStep

LEMMA CreateStep ==
    ASSUME BookInv, NEW t \in Desks, Create(t)
    PROVE  BookInv'
<1>1. PICK ask \in Asks, st \in {"draft", "pencil"}, turn \in 0..MaxTurn, from \in 1..MaxSlot :
        \E until \in from..MaxSlot :
          LET bk == [status |-> st, from |-> from, until |-> until, turn |-> turn,
                     ask |-> ask]
          IN tx' = [tx EXCEPT
                ![t].at = "done", ![t].new = bk, ![t].wrote = TRUE,
                ![t].writes = [i \in Lines |->
                    IF st = "pencil" /\ i <= Len(ask) /\ ask[i].kind # "any"
                    THEN [state |-> "pencil", unit |-> ask[i].unit, qty |-> ask[i].qty,
                          slots |-> Blocked(bk)]
                    ELSE NoClaim]]
    BY DEF Create
<1>2. PICK until \in from..MaxSlot :
          LET bk == [status |-> st, from |-> from, until |-> until, turn |-> turn,
                     ask |-> ask]
          IN tx' = [tx EXCEPT
                ![t].at = "done", ![t].new = bk, ![t].wrote = TRUE,
                ![t].writes = [i \in Lines |->
                    IF st = "pencil" /\ i <= Len(ask) /\ ask[i].kind # "any"
                    THEN [state |-> "pencil", unit |-> ask[i].unit, qty |-> ask[i].qty,
                          slots |-> Blocked(bk)]
                    ELSE NoClaim]]
    BY <1>1
<1> DEFINE bk == [status |-> st, from |-> from, until |-> until, turn |-> turn, ask |-> ask]
           D == {i \in Lines : st = "pencil" /\ i <= Len(ask) /\ ask[i].kind # "any"}
           w == [i \in Lines |->
                    IF st = "pencil" /\ i <= Len(ask) /\ ask[i].kind # "any"
                    THEN [state |-> "pencil", unit |-> ask[i].unit, qty |-> ask[i].qty,
                          slots |-> Blocked(bk)]
                    ELSE NoClaim]
           x == [tx[t] EXCEPT !.at = "done", !.new = bk, !.wrote = TRUE, !.writes = w]
           new == [r \in {tx[t].b} \X D |-> w[r[2]]]
<1>3. /\ UNCHANGED <<booking, claim, job, lapsed, feed>>
      /\ tx[t].at = "lock" /\ tx[t].b \in Ids
      /\ tx[t] \in Transaction /\ tx \in [Desks -> Transaction]
    BY BodyFacts DEF Create
<1>4. bk \in BookingRow /\ bk.ask = ask
    BY BookingAssumption DEF BookingRow
<1>5. Blocked(bk) \in Window
    BY <1>4, BlockedType
<1>6. ASSUME NEW i \in Lines PROVE w[i] \in Claim /\ OneThing(w[i])
    <2>1. CASE i \in D
        <3>1. i \in DOMAIN ask
            BY <2>1, AsksAssumption DEF Lines
        <3>2. ask[i] \in Line
            BY <3>1, ConstantFacts
        <3>3. /\ ask[i].unit \in Units \cup {NoUnit} /\ ask[i].qty \in Nat
              /\ ask[i].unit # NoUnit => ask[i].qty = 1
            BY <3>2 DEF Line
        <3>4. QED
            BY <3>3, <2>1, <1>5 DEF Claim, OneThing
    <2>2. CASE i \notin D
        BY <2>2, ConstantFacts
    <2>3. QED
        BY <2>1, <2>2
<1>7. w \in [Lines -> Claim]
    BY <1>6
<1>8. /\ x \in Transaction /\ x.at = "done" /\ x.b = tx[t].b /\ x.drops = tx[t].drops
      /\ x.writes = w /\ x.new = bk
    <2> HIDE DEF bk, w
    <2>1. QED
        BY <1>3, <1>4, <1>7 DEF Transaction
<1>9. tx' = [tx EXCEPT ![t] = x]
    BY <1>2, <1>3
<1>10. /\ \A i \in D : w[i].state = "pencil"
       /\ \A i \in Lines : w[i] = IF i \in D THEN w[i] ELSE tx[t].writes[i]
    <2>1. \A i \in Lines : tx[t].writes[i] = NoClaim
        BY <1>3 DEF BookInv, CallOK
    <2>2. QED
        BY <2>1
<1> HIDE DEF bk, w, D, x
<1>11. tx'[t] = x /\ \A s \in Desks \ {t} : tx'[s] = tx[s]
    BY <1>3, <1>9
<1>12. CallOK(t)'
    <2>1. \A i \in Lines : OneThing(tx'[t].writes[i])
        BY <1>6, <1>8, <1>11
    <2>2. QED
        BY <1>3, <1>4, <1>8, <1>11, <2>1 DEF CallOK, OneThing
<1>13. /\ DOMAIN new = {tx[t].b} \X D
       /\ \A i \in D : new[<<tx[t].b, i>>] = w[i]
       /\ \A r \in DOMAIN new : new[r].state = "pencil"
    BY <1>10
<1> HIDE DEF new
<1>14. NoClash'
    <2>1. D \in SUBSET Lines
        BY DEF D
    <2>2. Admits(t, new)
        BY <1>13 DEF Admits, Clash
    <2>3. /\ tx'[t].drops = tx[t].drops /\ tx'[t].b = tx[t].b
          /\ \A i \in Lines : tx'[t].writes[i] =
                IF i \in D THEN new[<<tx[t].b, i>>] ELSE tx[t].writes[i]
        BY <1>8, <1>10, <1>11, <1>13
    <2>4. claim' = claim /\ tx[t].b \in Ids
        BY <1>3
    <2>5. \A i \in D : new[<<tx[t].b, i>>].state # "none"
        BY <1>10, <1>13
    <2>6. QED
        <3>1. WritesLines(t, D, new)
            BY <2>1, <2>2, <2>3, <2>4, <2>5, <1>11, <1>13 DEF WritesLines
        <3>2. QED
            BY <3>1, WriteStep
<1>15. QED
    BY <1>3, <1>8, <1>9, <1>12, <1>14, BodyKeeps

(* A step that writes nothing, and may drop rows.                          *)
LEMMA DropStep ==
    ASSUME BookInv, NEW t \in Desks, claim' = claim, \A s \in Desks \ {t} : tx'[s] = tx[s],
           tx[t].drops \subseteq tx'[t].drops, tx'[t].b = tx[t].b,
           tx'[t].writes = tx[t].writes
    PROVE  NoClash'
<1> DEFINE new == [r \in {} |-> NoClaim]
<1>1. DOMAIN new = {} /\ DOMAIN new \subseteq Rows
    OBVIOUS
<1>2. Admits(t, new)
    BY <1>1 DEF Admits
<1>3. ASSUME NEW r \in Rows
      PROVE  \/ View(t, r)' = NoClaim
             \/ View(t, r)' = IF r \in DOMAIN new THEN new[r] ELSE View(t, r)
    <2>1. View(t, r)' = NoClaim \/ View(t, r)' = View(t, r)
        BY DEF View
    <2>2. QED
        BY <2>1, <1>1
<1>4. QED
    BY <1>1, <1>2, <1>3, OwnStep

LEMMA StartConfirmStep ==
    ASSUME BookInv, NEW t \in Desks, StartConfirm(t)
    PROVE  BookInv'
<1>1. PICK turn \in 0..MaxTurn :
        tx' = [tx EXCEPT ![t].at = "lines",
                         ![t].new = [booking[tx[t].b] EXCEPT !.status = "confirmed",
                                                             !.turn = turn]]
    BY DEF StartConfirm
<1> DEFINE bk == [booking[tx[t].b] EXCEPT !.status = "confirmed", !.turn = turn]
           x == [tx[t] EXCEPT !.at = "lines", !.new = bk]
<1>2. /\ UNCHANGED <<booking, claim, job, lapsed, feed>>
      /\ tx[t].at = "lock" /\ tx[t].b \in Ids
      /\ tx[t] \in Transaction /\ tx \in [Desks -> Transaction]
      /\ booking[tx[t].b] \in BookingRow
    BY BodyFacts DEF StartConfirm, Locks
<1>3. booking[tx[t].b].ask \in Asks
    BY <1>2 DEF StartConfirm, Locks, BookInv
<1>4. bk \in BookingRow /\ bk.ask = booking[tx[t].b].ask
    BY <1>2 DEF BookingRow
<1> HIDE DEF bk
<1>5. /\ x \in Transaction /\ x.at = "lines" /\ x.b = tx[t].b /\ x.drops = tx[t].drops
      /\ x.writes = tx[t].writes /\ x.new = bk /\ x.line = tx[t].line
    BY <1>2, <1>4 DEF Transaction
<1>6. tx' = [tx EXCEPT ![t] = x]
    BY <1>1, <1>2 DEF bk
<1> HIDE DEF x
<1>7. tx'[t] = x /\ \A s \in Desks \ {t} : tx'[s] = tx[s]
    BY <1>2, <1>6
<1>8. NoClash'
    BY <1>2, <1>5, <1>7, DropStep
<1>9. CallOK(t)'
    <2>1. tx[t].line \in DOMAIN bk.ask
        <3>1. tx[t].line = 1
            BY <1>2 DEF BookInv, CallOK
        <3>2. bk.ask \in Seq(Line) /\ bk.ask # <<>>
            BY <1>3, <1>4, AsksAssumption
        <3>3. QED
            BY <3>1, <3>2
    <2>2. QED
        <3>1. \A i \in Lines : OneThing(tx'[t].writes[i])
            BY <1>5, <1>7 DEF BookInv, CallOK
        <3>2. QED
            BY <1>2, <1>3, <1>4, <1>5, <1>7, <2>1, <3>1 DEF CallOK, OneThing
<1>10. QED
    BY <1>2, <1>5, <1>6, <1>8, <1>9, BodyKeeps

LEMMA ConvertStep ==
    ASSUME BookInv, NEW t \in Desks, Convert(t)
    PROVE  BookInv'
<1> DEFINE bk == booking[tx[t].b]
           x == [tx[t] EXCEPT !.at = "done", !.wrote = TRUE, !.new = bk]
<1>1. /\ UNCHANGED <<booking, claim, job, lapsed, feed>>
      /\ tx[t].at = "lock" /\ tx[t].b \in Ids
      /\ tx[t] \in Transaction /\ tx \in [Desks -> Transaction]
      /\ bk \in BookingRow
    BY BodyFacts DEF Convert, Locks
<1>2. bk.ask \in Asks
    BY <1>1 DEF Convert, Locks, BookInv
<1>3. /\ x \in Transaction /\ x.at = "done" /\ x.b = tx[t].b /\ x.drops = tx[t].drops
      /\ x.writes = tx[t].writes /\ x.new = bk
    BY <1>1 DEF Transaction
<1>4. tx' = [tx EXCEPT ![t] = x]
    BY <1>1 DEF Convert
<1> HIDE DEF x
<1>5. tx'[t] = x /\ \A s \in Desks \ {t} : tx'[s] = tx[s]
    BY <1>1, <1>4
<1>6. NoClash'
    BY <1>1, <1>3, <1>5, DropStep
<1>7. CallOK(t)'
    <2>1. \A i \in Lines : OneThing(tx'[t].writes[i])
        BY <1>3, <1>5 DEF BookInv, CallOK
    <2>2. QED
        BY <1>1, <1>2, <1>3, <1>5, <2>1 DEF CallOK, OneThing
<1>8. QED
    BY <1>1, <1>3, <1>4, <1>6, <1>7, BodyKeeps

LEMMA CancelStep ==
    ASSUME BookInv, NEW t \in Desks, Cancel(t)
    PROVE  BookInv'
<1> DEFINE live == {r \in Rows : r[1] = tx[t].b /\ claim[r].state # "none"}
           bk == [booking[tx[t].b] EXCEPT !.status = "cancelled"]
           x == [tx[t] EXCEPT !.at = "done", !.wrote = TRUE, !.new = bk,
                              !.drops = tx[t].drops \cup live]
<1>1. /\ UNCHANGED <<booking, claim, job, lapsed, feed>>
      /\ tx[t].at = "lock" /\ tx[t].b \in Ids
      /\ tx[t] \in Transaction /\ tx \in [Desks -> Transaction]
      /\ booking[tx[t].b] \in BookingRow
    BY BodyFacts DEF Cancel, Locks
<1>2. booking[tx[t].b].ask \in Asks
    BY <1>1 DEF Cancel, Locks, BookInv
<1>3. bk \in BookingRow /\ bk.ask = booking[tx[t].b].ask
    BY <1>1 DEF BookingRow
<1>4. live \subseteq Rows
    OBVIOUS
<1>5. tx' = [tx EXCEPT ![t] = x]
    BY <1>1 DEF Cancel
<1> HIDE DEF bk, live
<1>6. /\ x \in Transaction /\ x.at = "done" /\ x.b = tx[t].b
      /\ x.drops = tx[t].drops \cup live /\ x.writes = tx[t].writes /\ x.new = bk
    BY <1>1, <1>3, <1>4 DEF Transaction
<1> HIDE DEF x
<1>7. tx'[t] = x /\ \A s \in Desks \ {t} : tx'[s] = tx[s]
    BY <1>1, <1>5
<1>8. NoClash'
    BY <1>1, <1>6, <1>7, DropStep
<1>9. CallOK(t)'
    <2>1. \A i \in Lines : OneThing(tx'[t].writes[i])
        BY <1>6, <1>7 DEF BookInv, CallOK
    <2>2. QED
        BY <1>1, <1>2, <1>3, <1>6, <1>7, <2>1 DEF CallOK, OneThing
<1>10. QED
    BY <1>1, <1>5, <1>6, <1>8, <1>9, BodyKeeps

LEMMA ConfirmLineStep ==
    ASSUME BookInv, NEW t \in Desks, ConfirmLine(t)
    PROVE  BookInv'
<1> DEFINE i == tx[t].line
           ask == tx[t].new.ask
           r == <<tx[t].b, i>>
           Version(u) == [state |-> "confirmed", unit |-> u, qty |-> ask[i].qty,
                          slots |-> Blocked(tx[t].new)]
<1>1. /\ UNCHANGED <<booking, claim, job, lapsed, feed>>
      /\ tx[t].at = "lines" /\ tx[t].b \in Ids
      /\ tx[t] \in Transaction /\ tx \in [Desks -> Transaction]
    BY BodyFacts DEF ConfirmLine
<1>2. ask \in Asks /\ i \in DOMAIN ask
    BY <1>1 DEF BookInv, CallOK
<1>3. i \in Lines /\ ask[i] \in Line /\ ask[i].qty \in Nat
    BY <1>2, ConstantFacts DEF Line
<1>4. tx[t].new \in BookingRow /\ tx[t].products \in SUBSET {"fleet", "bulk"}
      /\ tx[t].writes \in [Lines -> Claim]
    BY <1>1 DEF Transaction
<1>5. PICK u \in Units \cup {NoUnit} :
        /\ LineClaim(t, i, Version(u))
        /\ Admits(t, [q \in {r} |-> Version(u)])
        /\ tx' = [tx EXCEPT
                ![t].at = IF i = Len(ask) THEN "done" ELSE "lines",
                ![t].line = IF i = Len(ask) THEN i ELSE i + 1,
                ![t].writes[i] = Version(u), ![t].wrote = TRUE,
                ![t].products = @ \cup ProductOf(ask[i].kind)]
    BY DEF ConfirmLine
<1> DEFINE c == Version(u)
           at == IF i = Len(ask) THEN "done" ELSE "lines"
           next == IF i = Len(ask) THEN i ELSE i + 1
           products == tx[t].products \cup ProductOf(ask[i].kind)
           w == [tx[t].writes EXCEPT ![i] = c]
           x == [tx[t] EXCEPT !.at = at, !.line = next, !.writes = w, !.wrote = TRUE,
                              !.products = products]
           new == [q \in {r} |-> c]
<1>6. c \in Claim /\ c.state = "confirmed"
    BY <1>3, <1>4, BlockedType DEF Claim
<1>7. products \in SUBSET {"fleet", "bulk"}
    BY <1>4 DEF ProductOf
<1>8. at \in {"lines", "done"} /\ next \in DOMAIN ask /\ next \in Lines
    <2>1. ask \in Seq(Line) /\ i \in 1..Len(ask) /\ Len(ask) \in Nat
        BY <1>2, AsksAssumption
    <2>2. next \in DOMAIN ask
        BY <2>1
    <2>3. QED
        BY <2>2, <1>2, ConstantFacts
<1> HIDE DEF c, at, next, products
<1>9. w \in [Lines -> Claim] /\ \A j \in Lines : w[j] = IF j = i THEN c ELSE tx[t].writes[j]
    BY <1>3, <1>4, <1>6
<1>10. tx' = [tx EXCEPT ![t] = x]
    BY <1>1, <1>4, <1>5 DEF c, at, next, products, Transaction
<1> HIDE DEF w
<1>11. /\ x \in Transaction /\ x.at = at /\ x.b = tx[t].b /\ x.drops = tx[t].drops
       /\ x.writes = w /\ x.new = tx[t].new /\ x.line = next
    BY <1>1, <1>7, <1>8, <1>9 DEF Transaction
<1> HIDE DEF x
<1>12. tx'[t] = x /\ \A s \in Desks \ {t} : tx'[s] = tx[s]
    BY <1>1, <1>10
<1>13. CallOK(t)'
    <2>1. OneThing(c)
        BY <1>3, <1>5 DEF c, LineClaim, OneThing, Line
    <2>2. \A j \in Lines : OneThing(tx[t].writes[j])
        BY DEF BookInv, CallOK
    <2>3. \A j \in Lines : OneThing(tx'[t].writes[j])
        BY <1>9, <1>11, <1>12, <2>1, <2>2
    <2>4. QED
        BY <1>1, <1>2, <1>8, <1>11, <1>12, <2>3 DEF CallOK, OneThing
<1>14. NoClash'
    <2>1. DOMAIN new = {tx[t].b} \X {i} /\ new[r] = c
        OBVIOUS
    <2>2. Admits(t, new)
        BY <1>5 DEF c
    <2> HIDE DEF new
    <2>3. \A j \in {i} : new[<<tx[t].b, j>>].state # "none"
        BY <2>1, <1>6
    <2>4. \A j \in Lines : tx'[t].writes[j] =
             IF j \in {i} THEN new[<<tx[t].b, j>>] ELSE tx[t].writes[j]
        BY <1>9, <1>11, <1>12, <2>1
    <2>5. WritesLines(t, {i}, new)
        BY <1>1, <1>3, <1>11, <1>12, <2>1, <2>2, <2>3, <2>4 DEF WritesLines
    <2>6. QED
        BY <2>5, WriteStep
<1>15. QED
    BY <1>1, <1>10, <1>11, <1>13, <1>14, BodyKeeps

LEMMA ExtendStep ==
    ASSUME BookInv, NEW t \in Desks, Extend(t)
    PROVE  BookInv'
<1> DEFINE b == tx[t].b
           live == {r \in Rows : r[1] = b /\ claim[r].state # "none"}
           bulk == {r \in live : claim[r].unit = NoUnit /\ claim[r].state = "confirmed"}
           Later(u) == [booking[b] EXCEPT !.until = u]
           Writes(u) == [i \in Lines |-> IF <<b, i>> \in live
                                         THEN Moved(<<b, i>>, Later(u)) ELSE NoClaim]
           products == IF bulk = {} THEN {} ELSE {"bulk"}
<1>1. /\ UNCHANGED <<booking, claim, job, lapsed, feed>>
      /\ tx[t].at = "lock" /\ b \in Ids
      /\ tx[t] \in Transaction /\ tx \in [Desks -> Transaction]
      /\ booking[b] \in BookingRow /\ claim \in [Rows -> Claim]
    BY BodyFacts DEF Extend, Locks
<1>2. booking[b].ask \in Asks
    BY <1>1 DEF Extend, Locks, BookInv
<1>3. PICK u \in booking[b].from..MaxSlot :
         \/ tx' = [tx EXCEPT ![t].at = "done", ![t].new = booking[b]]
         \/ /\ Admits(t, [r \in live |-> Moved(r, Later(u))])
            /\ tx' = [tx EXCEPT ![t].at = "done", ![t].new = Later(u), ![t].wrote = TRUE,
                                ![t].writes = Writes(u), ![t].products = products]
    BY DEF Extend
<1>4. CASE tx' = [tx EXCEPT ![t].at = "done", ![t].new = booking[b]]
    <2> DEFINE x == [tx[t] EXCEPT !.at = "done", !.new = booking[b]]
    <2>1. /\ x \in Transaction /\ x.at = "done" /\ x.b = tx[t].b /\ x.drops = tx[t].drops
          /\ x.writes = tx[t].writes /\ x.new = booking[b]
        BY <1>1 DEF Transaction
    <2>2. tx' = [tx EXCEPT ![t] = x]
        BY <1>1, <1>4
    <2> HIDE DEF x
    <2>3. tx'[t] = x /\ \A s \in Desks \ {t} : tx'[s] = tx[s]
        BY <1>1, <2>2
    <2>4. NoClash'
        BY <1>1, <2>1, <2>3, DropStep
    <2>5. CallOK(t)'
        <3>1. \A i \in Lines : OneThing(tx'[t].writes[i])
            BY <2>1, <2>3 DEF BookInv, CallOK
        <3>2. QED
            BY <1>1, <1>2, <2>1, <2>3, <3>1 DEF CallOK, OneThing
    <2>6. QED
        BY <1>1, <2>1, <2>2, <2>4, <2>5, BodyKeeps
<1>5. CASE /\ Admits(t, [r \in live |-> Moved(r, Later(u))])
           /\ tx' = [tx EXCEPT ![t].at = "done", ![t].new = Later(u), ![t].wrote = TRUE,
                               ![t].writes = Writes(u), ![t].products = products]
    <2> DEFINE bk == Later(u)
               w == Writes(u)
               D == {i \in Lines : <<b, i>> \in live}
               new == [r \in live |-> Moved(r, bk)]
               x == [tx[t] EXCEPT !.at = "done", !.new = bk, !.wrote = TRUE, !.writes = w,
                                  !.products = products]
    <2>1. bk \in BookingRow /\ bk.ask = booking[b].ask
        <3>1. booking[b].from \in 1..MaxSlot
            BY <1>1 DEF BookingRow
        <3>2. u \in 1..MaxSlot
            BY <3>1, BookingAssumption
        <3>3. QED
            BY <1>1, <3>2 DEF BookingRow
    <2>2. \A r \in live : /\ Moved(r, bk) \in Claim /\ Moved(r, bk).state # "none"
                          /\ OneThing(Moved(r, bk))
        <3>1. ASSUME NEW r \in live
              PROVE  /\ Moved(r, bk) \in Claim /\ Moved(r, bk).state # "none"
                     /\ OneThing(Moved(r, bk))
            <4>1. claim[r] \in Claim /\ claim[r].state # "none" /\ OneThing(claim[r])
                BY <1>1 DEF BookInv, BookingTypeOK
            <4>2. Blocked(bk) \in Window
                BY <2>1, BlockedType
            <4>3. QED
                BY <4>1, <4>2 DEF Moved, Claim, OneThing
        <3>2. QED
            BY <3>1
    <2>3. w \in [Lines -> Claim] /\ \A i \in Lines : OneThing(w[i])
        BY <2>2, ConstantFacts
    <2>4. DOMAIN new = {b} \X D
        <3>1. ASSUME NEW r \in live PROVE r \in {b} \X D
            <4>1. r = <<r[1], r[2]>> /\ r[1] = b /\ r[2] \in Lines
                BY DEF Rows
            <4>2. QED
                BY <4>1
        <3>2. ASSUME NEW r \in {b} \X D PROVE r \in live
            <4>1. r = <<b, r[2]>> /\ r[2] \in D
                OBVIOUS
            <4>2. QED
                BY <4>1
        <3>3. live = {b} \X D
            BY <3>1, <3>2
        <3>4. QED
            BY <3>3
    <2>5. \A i \in D : new[<<b, i>>] = w[i] /\ new[<<b, i>>].state # "none"
        BY <2>2
    <2>6. \A i \in Lines : w[i] = IF i \in D THEN new[<<b, i>>] ELSE tx[t].writes[i]
        <3>1. \A i \in Lines : tx[t].writes[i] = NoClaim
            BY <1>1 DEF BookInv, CallOK
        <3>2. QED
            BY <3>1, <2>5
    <2>7. products \in SUBSET {"fleet", "bulk"}
        BY SMTT(30)
    <2>8. tx' = [tx EXCEPT ![t] = x]
        BY <1>1, <1>5
    <2>9. Admits(t, new)
        BY <1>5
    <2>10. D \in SUBSET Lines
        OBVIOUS
    <2> HIDE DEF bk, w, D, new, live, products
    <2>11. /\ x \in Transaction /\ x.at = "done" /\ x.b = tx[t].b /\ x.drops = tx[t].drops
           /\ x.writes = w /\ x.new = bk
        BY <1>1, <2>1, <2>3, <2>7 DEF Transaction
    <2> HIDE DEF x
    <2>12. tx'[t] = x /\ \A s \in Desks \ {t} : tx'[s] = tx[s]
        BY <1>1, <2>8
    <2>13. CallOK(t)'
        <3>1. \A i \in Lines : OneThing(tx'[t].writes[i])
            BY <2>3, <2>11, <2>12
        <3>2. QED
            BY <1>1, <1>2, <2>1, <2>11, <2>12, <3>1 DEF CallOK, OneThing
    <2>14. WritesLines(t, D, new)
        BY <1>1, <2>4, <2>5, <2>6, <2>9, <2>10, <2>11, <2>12 DEF WritesLines
    <2>15. NoClash'
        BY <2>14, WriteStep
    <2>16. QED
        BY <1>1, <2>8, <2>11, <2>13, <2>15, BodyKeeps
<1>6. QED
    BY <1>3, <1>4, <1>5

LEMMA RollbackStep ==
    ASSUME BookInv, NEW t \in Desks, Rollback(t)
    PROVE  BookInv'
<1>1. /\ UNCHANGED <<booking, claim, job, lapsed>>
      /\ tx' = [tx EXCEPT ![t] = Idle]
      /\ tx \in [Desks -> Transaction] /\ feed' \in Desks \cup {Nobody}
    BY DEF Rollback, Ends, BookInv, BookingTypeOK
<1>2. /\ tx' \in [Desks -> Transaction] /\ tx'[t] = Idle
      /\ \A s \in Desks \ {t} : tx'[s] = tx[s]
    BY <1>1, ConstantFacts
<1>3. Idle.at = "idle" /\ \A i \in Lines : Idle.writes[i] = NoClaim
    BY DEF Idle
<1>4. BookingTypeOK'
    BY <1>1, <1>2 DEF BookInv, BookingTypeOK
<1>5. \A s \in Desks : CallOK(s)'
    <2>1. CallOK(t)'
        <3>1. \A i \in Lines : OneThing(tx'[t].writes[i])
            BY <1>2, <1>3, ConstantFacts
        <3>2. QED
            BY <1>2, <1>3, <3>1 DEF CallOK, OneThing
    <2>2. QED
        BY <1>2, <2>1, CallsKept
<1>6. NoClash'
    <2>1. \A i \in Lines : tx'[t].writes[i] = NoClaim
        BY <1>2, <1>3
    <2>2. claim' = claim
        BY <1>1
    <2>3. QED
        BY <1>2, <2>1, <2>2, FreshCall
<1>7. QED
    BY <1>1, <1>4, <1>5, <1>6 DEF BookInv

(* A commit makes one call's view the committed state.  The other calls'   *)
(* views change only where that call wrote or dropped.                     *)
LEMMA CommitStep ==
    ASSUME BookInv, NEW t \in Desks, Commit(t)
    PROVE  BookInv'
<1>1. /\ tx[t].at = "done" /\ tx[t].b \in Ids /\ tx[t].new.ask \in Asks
      /\ tx[t] \in Transaction /\ tx[t].new \in BookingRow
      /\ tx \in [Desks -> Transaction] /\ claim \in [Rows -> Claim]
      /\ booking \in [Ids -> BookingRow] /\ job \in [Ids -> {"none", "open", "closed"}]
    <2>1. tx[t].at = "done"
        BY DEF Commit
    <2>2. tx \in [Desks -> Transaction]
        BY DEF BookInv, BookingTypeOK
    <2>3. tx[t] \in Transaction
        BY <2>2
    <2>4. tx[t].new \in BookingRow
        BY <2>3 DEF Transaction
    <2>5. QED
        BY <2>1, <2>2, <2>3, <2>4 DEF BookInv, BookingTypeOK, CallOK
<1>2. /\ tx' = [tx EXCEPT ![t] = Idle] /\ lapsed' = lapsed
      /\ feed' \in Desks \cup {Nobody}
      /\ claim' = [r \in Rows |-> View(t, r)]
    BY DEF Commit, Ends, BookInv, BookingTypeOK
<1>3. /\ tx' \in [Desks -> Transaction] /\ tx'[t] = Idle
      /\ \A s \in Desks \ {t} : tx'[s] = tx[s]
    BY <1>1, <1>2, ConstantFacts
<1>4. ASSUME NEW r \in Rows PROVE View(t, r) \in Claim /\ OneThing(View(t, r))
    <2>1. r[2] \in Lines
        BY DEF Rows
    <2>2. tx[t].writes[r[2]] \in Claim /\ OneThing(tx[t].writes[r[2]])
        BY <1>1, <2>1 DEF Transaction, BookInv, CallOK
    <2>3. claim[r] \in Claim /\ OneThing(claim[r])
        BY <1>1 DEF BookInv, BookingTypeOK
    <2>4. View(t, r) \in {NoClaim, tx[t].writes[r[2]], claim[r]}
        BY DEF View
    <2>5. QED
        BY <2>2, <2>3, <2>4, ConstantFacts
<1>5. booking' \in [Ids -> BookingRow]
    <2>1. \A b \in Ids : [booking[b] EXCEPT !.status = "cancelled"] \in BookingRow
        BY <1>1 DEF BookingRow
    <2>2. QED
        BY <1>1, <2>1 DEF Commit
<1>6. job' \in [Ids -> {"none", "open", "closed"}]
    BY <1>1 DEF Commit
<1>7. BookingTypeOK'
    <2>1. claim' \in [Rows -> Claim] /\ \A r \in Rows : OneThing(claim'[r])
        BY <1>2, <1>4
    <2>2. QED
        BY <1>2, <1>3, <1>5, <1>6, <2>1 DEF BookInv, BookingTypeOK, OneThing
<1>8. \A b \in Ids :
         booking'[b].status \notin {"none", "cancelled"} => booking'[b].ask \in Asks
    <2>1. ASSUME NEW b \in Ids, booking'[b].status \notin {"none", "cancelled"}
          PROVE  booking'[b].ask \in Asks
        <3>1. CASE b = tx[t].b
            BY <3>1, <1>1 DEF Commit
        <3>2. CASE b # tx[t].b /\ b \in tx[t].expired
            <4>1. booking'[b] = [booking[b] EXCEPT !.status = "cancelled"]
                BY <3>2 DEF Commit
            <4>2. booking'[b].status = "cancelled"
                BY <4>1, <1>1 DEF BookingRow
            <4>3. QED
                BY <4>2, <2>1
        <3>3. CASE b # tx[t].b /\ b \notin tx[t].expired
            BY <3>3, <2>1 DEF Commit, BookInv
        <3>4. QED
            BY <3>1, <3>2, <3>3
    <2>2. QED
        BY <2>1
<1>9. \A s \in Desks : CallOK(s)'
    <2>1. Idle.at = "idle" /\ \A i \in Lines : Idle.writes[i] = NoClaim
        BY DEF Idle
    <2>2. \A i \in Lines : OneThing(tx'[t].writes[i])
        BY <1>3, <2>1, ConstantFacts
    <2>3. CallOK(t)'
        BY <1>3, <2>1, <2>2 DEF CallOK, OneThing
    <2>4. QED
        BY <1>3, <2>3, CallsKept
<1>10. NoDoublePromise'
    <2>1. \A r \in Rows, q \in Rows : r # q => ~Clash(View(t, r), View(t, q))
        BY DEF BookInv, NoClash
    <2>2. \A r \in Rows, q \in Rows : r # q => ~Clash(claim'[r], claim'[q])
        BY <1>2, <2>1
    <2>3. QED
        BY <2>2 DEF NoDoublePromise, Clash
<1>11. ASSUME NEW s \in Desks, NEW r \in Rows, NEW q \in Rows, r # q
       PROVE  ~Clash(View(s, r), View(s, q))'
    <2>1. CASE s = t
        <3>1. r[2] \in Lines /\ q[2] \in Lines
            BY DEF Rows
        <3>2. View(t, r)' = claim'[r] /\ View(t, q)' = claim'[q]
            BY <1>3, <3>1 DEF View, Idle, NoClaim
        <3>3. ~Clash(claim'[r], claim'[q])
            BY <1>2, <1>11 DEF BookInv, NoClash
        <3>4. QED
            BY <3>2, <3>3, <2>1 DEF Clash
    <2>2. CASE s # t
        <3> DEFINE Own(y) == /\ y \notin tx[s].drops /\ y[1] = tx[s].b
                             /\ tx[s].writes[y[2]].state # "none"
        <3>1. ASSUME NEW y \in Rows
              PROVE  /\ y[2] \in Lines
                     /\ Own(y) => View(s, y)' = tx[s].writes[y[2]] /\ View(s, y) = View(s, y)'
                     /\ ~Own(y) => View(s, y)' = NoClaim \/ View(s, y)' = View(t, y)
            <4>1. y[2] \in Lines
                BY DEF Rows
            <4>2. tx'[s] = tx[s]
                BY <2>2, <1>3
            <4>3. claim'[y] = View(t, y)
                BY <1>2
            <4>4. Own(y) => View(s, y)' = tx[s].writes[y[2]] /\ View(s, y) = tx[s].writes[y[2]]
                BY <4>2 DEF View
            <4>5. ~Own(y) => View(s, y)' = NoClaim \/ View(s, y)' = claim'[y]
                BY <4>2 DEF View
            <4>6. QED
                BY <4>1, <4>3, <4>4, <4>5
        <3>2. ASSUME NEW y \in Rows, NEW z \in Rows, y # z, Own(y), ~Own(z)
              PROVE  ~Clash(tx[s].writes[y[2]], View(t, z)) \/ View(s, z)' = NoClaim
            <4>1. CASE View(t, z) = tx[t].writes[z[2]]
                <5>1. ~Clash(tx[s].writes[y[2]], tx[t].writes[z[2]])
                    BY <2>2, <3>1 DEF BookInv, NoClash
                <5>2. QED
                    BY <5>1, <4>1
            <4>2. CASE View(t, z) = NoClaim
                BY <4>2, ClashFacts
            <4>3. CASE View(t, z) = claim[z]
                <5>1. CASE z \in tx[s].drops
                    BY <5>1, <2>2, <1>3 DEF View
                <5>2. CASE z \notin tx[s].drops
                    <6>1. View(s, z) = claim[z] /\ View(s, y) = tx[s].writes[y[2]]
                        BY <5>2, <3>2 DEF View
                    <6>2. QED
                        BY <6>1, <4>3, <3>2 DEF BookInv, NoClash
                <5>3. QED
                    BY <5>1, <5>2
            <4>4. QED
                BY <4>1, <4>2, <4>3 DEF View
        <3>3. ~Clash(View(s, r)', View(s, q)')
            <4>1. CASE Own(r) /\ Own(q)
                <5>1. ~Clash(View(s, r), View(s, q))
                    BY <1>11 DEF BookInv, NoClash
                <5>2. QED
                    BY <5>1, <4>1, <3>1
            <4>2. CASE Own(r) /\ ~Own(q)
                BY <4>2, <3>1, <3>2, <1>11, ClashFacts
            <4>3. CASE ~Own(r) /\ Own(q)
                BY <4>3, <3>1, <3>2, <1>11, ClashFacts
            <4>4. CASE ~Own(r) /\ ~Own(q)
                <5>1. ~Clash(View(t, r), View(t, q))
                    BY <1>11 DEF BookInv, NoClash
                <5>2. QED
                    BY <5>1, <4>4, <3>1, ClashFacts
            <4>5. QED
                BY <4>1, <4>2, <4>3, <4>4
        <3>4. QED
            BY <3>3 DEF Clash
    <2>3. QED
        BY <2>1, <2>2
<1>12. ASSUME NEW u \in Desks, NEW s \in Desks, NEW i \in Lines, NEW j \in Lines, u # s
       PROVE  ~Clash(tx[u].writes[i], tx[s].writes[j])'
    <2>1. Idle.writes[i] = NoClaim /\ Idle.writes[j] = NoClaim
        BY DEF Idle
    <2>2. CASE u = t \/ s = t
        <3>1. tx'[u].writes[i] = NoClaim \/ tx'[s].writes[j] = NoClaim
            BY <2>1, <2>2, <1>3
        <3>2. QED
            BY <3>1, ClashFacts DEF Clash, NoClaim
    <2>3. CASE u # t /\ s # t
        <3>1. ~Clash(tx[u].writes[i], tx[s].writes[j])
            BY <1>12 DEF BookInv, NoClash
        <3>2. QED
            BY <3>1, <2>3, <1>3 DEF Clash
    <2>4. QED
        BY <2>2, <2>3
<1>13. NoClash'
    BY <1>10, <1>11, <1>12 DEF NoClash
<1>14. QED
    BY <1>7, <1>8, <1>9, <1>13 DEF BookInv

LEMMA ReallocateStep ==
    ASSUME BookInv, NEW r \in Rows, NEW u \in Units, Reallocate(r, u)
    PROVE  BookInv'
<1> DEFINE c == [claim[r] EXCEPT !.unit = u]
<1>1. /\ UNCHANGED <<booking, job, lapsed, tx, feed>>
      /\ claim \in [Rows -> Claim] /\ claim' = [claim EXCEPT ![r] = c]
      /\ \A t \in Desks : ~HoldsRow(t, r)
      /\ \A q \in Rows \ {r} : ~Clash(c, claim[q])
      /\ \A s \in Desks, i \in Lines : ~Clash(c, tx[s].writes[i])
    BY DEF Reallocate, BookInv, BookingTypeOK
<1>2. c \in Claim /\ OneThing(c)
    <2>1. claim[r] \in Claim /\ OneThing(claim[r]) /\ claim[r].unit # NoUnit
        BY <1>1 DEF BookInv, BookingTypeOK, Reallocate
    <2>2. QED
        BY <2>1 DEF Claim, OneThing
<1> HIDE DEF c
<1>3. /\ claim' \in [Rows -> Claim] /\ claim'[r] = c
      /\ \A q \in Rows \ {r} : claim'[q] = claim[q]
    BY <1>1, <1>2
<1>4. BookingTypeOK'
    <2>1. \A q \in Rows : OneThing(claim'[q])
        BY <1>2, <1>3 DEF BookInv, BookingTypeOK
    <2>2. QED
        BY <1>1, <1>3, <2>1 DEF BookInv, BookingTypeOK, OneThing
<1>5. \A s \in Desks : CallOK(s)'
    BY <1>1 DEF BookInv, CallOK, OneThing
<1>6. ASSUME NEW q \in Rows, NEW z \in Rows, q # z
      PROVE  ~Clash(claim'[q], claim'[z])
    <2>1. CASE q = r
        BY <2>1, <1>1, <1>3, <1>6
    <2>2. CASE z = r
        <3>1. ~Clash(c, claim[q])
            BY <2>2, <1>1, <1>6
        <3>2. QED
            BY <3>1, <2>2, <1>3, <1>6, ClashFacts
    <2>3. CASE q # r /\ z # r
        BY <2>3, <1>3, <1>6 DEF BookInv, NoClash, NoDoublePromise
    <2>4. QED
        BY <2>1, <2>2, <2>3
<1>7. ASSUME NEW s \in Desks, NEW q \in Rows
      PROVE  /\ q # r => View(s, q)' = View(s, q)
             /\ q = r => View(s, q)' = c
    <2>1. ~HoldsRow(s, r)
        BY <1>1
    <2>2. q # r => View(s, q)' = View(s, q)
        BY <1>1, <1>3 DEF View
    <2>3. q = r => View(s, q)' = c
        BY <1>1, <1>3, <2>1 DEF View, HoldsRow
    <2>4. QED
        BY <2>2, <2>3
<1>8. ASSUME NEW s \in Desks, NEW q \in Rows, q # r
      PROVE  ~Clash(c, View(s, q))
    <2>1. q[2] \in Lines
        BY DEF Rows
    <2>2. View(s, q) \in {NoClaim, tx[s].writes[q[2]], claim[q]}
        BY DEF View
    <2>3. ~Clash(c, tx[s].writes[q[2]]) /\ ~Clash(c, claim[q])
        BY <1>1, <1>8, <2>1
    <2>4. QED
        BY <2>2, <2>3, ClashFacts
<1>9. ASSUME NEW s \in Desks, NEW q \in Rows, NEW z \in Rows, q # z
      PROVE  ~Clash(View(s, q)', View(s, z)')
    <2>1. CASE q = r
        BY <2>1, <1>7, <1>8, <1>9
    <2>2. CASE z = r
        <3>1. ~Clash(c, View(s, q))
            BY <2>2, <1>8, <1>9
        <3>2. QED
            BY <3>1, <2>2, <1>7, <1>9, ClashFacts
    <2>3. CASE q # r /\ z # r
        <3>1. ~Clash(View(s, q), View(s, z))
            BY <1>9 DEF BookInv, NoClash
        <3>2. QED
            BY <3>1, <2>3, <1>7
    <2>4. QED
        BY <2>1, <2>2, <2>3
<1>10. NoClash'
    <2>1. NoDoublePromise'
        BY <1>6 DEF NoDoublePromise, Clash
    <2>2. \A t \in Desks, q \in Rows, z \in Rows : q # z => ~Clash(View(t, q), View(t, z))'
        BY <1>9 DEF Clash
    <2>3. QED
        BY <1>1, <2>1, <2>2 DEF NoClash, BookInv, Clash
<1>11. QED
    BY <1>1, <1>4, <1>5, <1>10 DEF BookInv

(* Jobs and the clock touch no reservation.                                *)
LEMMA JobAndClockSteps ==
    ASSUME BookInv, NEW b \in Ids, CloseJob(b) \/ ReopenJob(b) \/ Lapse(b)
    PROVE  BookInv'
<1>1. /\ UNCHANGED <<booking, claim, tx, feed>>
      /\ job' \in [Ids -> {"none", "open", "closed"}] /\ lapsed' \subseteq Ids
    BY DEF CloseJob, ReopenJob, JobTurns, Lapse, BookInv, BookingTypeOK
<1>2. BookingTypeOK'
    BY <1>1 DEF BookInv, BookingTypeOK, OneThing
<1>3. \A s \in Desks : CallOK(s)'
    BY <1>1 DEF BookInv, CallOK, OneThing
<1>4. NoClash'
    BY <1>1 DEF BookInv, NoClash, NoDoublePromise, View, Clash
<1>5. QED
    BY <1>1, <1>2, <1>3, <1>4 DEF BookInv

-----------------------------------------------------------------------------
LEMMA InitKeeps == Init => BookInv
<1> SUFFICES ASSUME Init PROVE BookInv
    OBVIOUS
<1>1. /\ \A t \in Desks : tx[t] = Idle
      /\ \A b \in Ids : booking[b] = NoBooking
      /\ \A r \in Rows : claim[r] = NoClaim
    BY DEF Init
<1>2. BookingTypeOK
    BY ConstantFacts DEF Init, BookingTypeOK
<1>3. \A t \in Desks : CallOK(t)
    <2>1. Idle.at = "idle" /\ \A i \in Lines : Idle.writes[i] = NoClaim
        BY DEF Idle
    <2>2. QED
        BY <1>1, <2>1, ConstantFacts DEF CallOK
<1>4. NoClash
    <2>1. \A t \in Desks, r \in Rows : View(t, r) = NoClaim
        <3>1. ASSUME NEW t \in Desks, NEW r \in Rows PROVE View(t, r) = NoClaim
            <4>1. tx[t] = Idle /\ claim[r] = NoClaim /\ r[2] \in Lines
                BY <1>1 DEF Rows
            <4>2. Idle.writes[r[2]] = NoClaim /\ NoClaim.state = "none"
                BY <4>1 DEF Idle, NoClaim
            <4>3. QED
                BY <4>1, <4>2 DEF View
        <3>2. QED
            BY <3>1
    <2>2. \A t \in Desks, i \in Lines : tx[t].writes[i] = NoClaim
        BY <1>1 DEF Idle
    <2>3. QED
        BY <1>1, <2>1, <2>2, ClashFacts DEF NoClash, NoDoublePromise
<1>5. \A b \in Ids : booking[b].status = "none"
    BY <1>1 DEF NoBooking
<1>6. QED
    BY <1>2, <1>3, <1>4, <1>5 DEF BookInv

LEMMA NextKeeps == BookInv /\ [Next]_vars => BookInv'
<1> SUFFICES ASSUME BookInv, [Next]_vars PROVE BookInv'
    OBVIOUS
<1>1. ASSUME NEW t \in Desks, Begin(t) PROVE BookInv'
    BY <1>1, BeginStep
<1>2. ASSUME NEW t \in Desks, Bump(t) PROVE BookInv'
    BY <1>2, BumpStep
<1>3. ASSUME NEW t \in Desks, SeeClaims(t) \/ DropClaims(t) \/ PruneBookings(t) PROVE BookInv'
    BY <1>3, PruneSteps
<1>4. ASSUME NEW t \in Desks, Create(t) PROVE BookInv'
    BY <1>4, CreateStep
<1>5. ASSUME NEW t \in Desks, StartConfirm(t) PROVE BookInv'
    BY <1>5, StartConfirmStep
<1>6. ASSUME NEW t \in Desks, ConfirmLine(t) PROVE BookInv'
    BY <1>6, ConfirmLineStep
<1>7. ASSUME NEW t \in Desks, Cancel(t) PROVE BookInv'
    BY <1>7, CancelStep
<1>8. ASSUME NEW t \in Desks, Extend(t) PROVE BookInv'
    BY <1>8, ExtendStep
<1>9. ASSUME NEW t \in Desks, Convert(t) PROVE BookInv'
    BY <1>9, ConvertStep
<1>10. ASSUME NEW t \in Desks, Commit(t) PROVE BookInv'
    BY <1>10, CommitStep
<1>11. ASSUME NEW t \in Desks, Rollback(t) PROVE BookInv'
    BY <1>11, RollbackStep
<1>12. ASSUME NEW r \in Rows, NEW u \in Units, Reallocate(r, u) PROVE BookInv'
    BY <1>12, ReallocateStep
<1>13. ASSUME NEW b \in Ids, CloseJob(b) \/ ReopenJob(b) \/ Lapse(b) PROVE BookInv'
    BY <1>13, JobAndClockSteps
<1>14. CASE UNCHANGED vars
    BY <1>14 DEF vars, BookInv, BookingTypeOK, CallOK, NoClash, NoDoublePromise, View, Clash,
                 OneThing
<1>15. QED
    BY <1>1, <1>2, <1>3, <1>4, <1>5, <1>6, <1>7, <1>8, <1>9, <1>10, <1>11, <1>12, <1>13, <1>14
       DEF Next

(* The rows and the open transactions always have their types.             *)
THEOREM BookingTypeCorrect == Spec => []BookingTypeOK
<1>1. BookInv => BookingTypeOK
    BY DEF BookInv
<1>2. QED
    BY InitKeeps, NextKeeps, <1>1, PTL DEF Spec

(* No confirmed reservation of a unit overlaps another one of it, whether  *)
(* committed or about to be, however confirmations, extensions and         *)
(* reallocations interleave: what asset_reservations_no_double_booking is  *)
(* for.                                                                    *)
THEOREM NeverPromisedTwice == Spec => []NoClash
<1>1. BookInv => NoClash
    BY DEF BookInv
<1>2. QED
    BY InitKeeps, NextKeeps, <1>1, PTL DEF Spec

-----------------------------------------------------------------------------
(* Why every confirmed booking is allocated.  A call that changes a booking *)
(* holds it until it ends, and so does the pruning of another call when it  *)
(* commits; whatever a call drops belongs to a booking it cancels.  So the  *)
(* reservations a call has promised cannot be taken away before it commits. *)

(* No booking is held by two calls; a call for a booking that exists keeps *)
(* to it, and one that creates a booking is the only call for it.          *)
HoldInv ==
    /\ \A t \in Desks, s \in Desks : t # s =>
          \A b \in Ids : ~(HoldsBooking(t, b) /\ HoldsBooking(s, b))
    /\ \A t \in Desks : tx[t].at # "idle" =>
         /\ \A x \in tx[t].expired : booking[x].status # "none"
         /\ tx[t].op # "create" => booking[tx[t].b].status # "none"
         /\ tx[t].op = "create" =>
              /\ booking[tx[t].b].status = "none"
              /\ \A s \in Desks \ {t} : tx[s].at # "idle" => tx[s].b # tx[t].b

(* Line i of the booking of t holds something for the new blocked window.  *)
Promises(t, i) ==
    /\ View(t, <<tx[t].b, i>>).state = "confirmed"
    /\ View(t, <<tx[t].b, i>>).slots = Blocked(tx[t].new)

DropsOK(t) ==
    /\ \A r \in tx[t].sees : r[1] \in tx[t].expired
    /\ \A r \in tx[t].drops :
          \/ r[1] \in tx[t].expired
          \/ tx[t].at = "done" /\ r[1] = tx[t].b /\ tx[t].new.status = "cancelled"

PromiseOK(t) ==
    /\ tx[t].at \in {"lines", "done"} => tx[t].b \notin tx[t].expired
                                         /\ tx[t].new.status # "none"
    /\ tx[t].at = "lines" => \A i \in 1..(tx[t].line - 1) : Promises(t, i)
    /\ tx[t].at = "done" /\ tx[t].new.status = "confirmed" =>
         \A i \in DOMAIN tx[t].new.ask : Promises(t, i)

AllocInv ==
    /\ BookInv /\ ConfirmedIsAllocated /\ HoldInv
    /\ \A t \in Desks : DropsOK(t) /\ PromiseOK(t)

(* A line of a booking is a row of the table.                              *)
LEMMA LinesAreRows ==
    ASSUME BookInv
    PROVE  /\ \A t \in Desks : tx[t].at \in {"lines", "done"} =>
                 /\ tx[t].b \in Ids /\ tx[t].line \in Nat
                 /\ \A i \in DOMAIN tx[t].new.ask : i \in Lines /\ <<tx[t].b, i>> \in Rows
                 /\ tx[t].at = "lines" =>
                      \A i \in 1..(tx[t].line - 1) : i \in Lines /\ <<tx[t].b, i>> \in Rows
           /\ \A b \in Ids : booking[b].status = "confirmed" =>
                 \A i \in DOMAIN booking[b].ask : i \in Lines /\ <<b, i>> \in Rows
<1>1. ASSUME NEW t \in Desks, tx[t].at \in {"lines", "done"}
      PROVE  /\ tx[t].b \in Ids /\ tx[t].line \in Nat
             /\ \A i \in DOMAIN tx[t].new.ask : i \in Lines /\ <<tx[t].b, i>> \in Rows
             /\ tx[t].at = "lines" =>
                  \A i \in 1..(tx[t].line - 1) : i \in Lines /\ <<tx[t].b, i>> \in Rows
    <2>1. tx[t].b \in Ids /\ tx[t].new.ask \in Asks
        BY <1>1 DEF BookInv, CallOK
    <2>2. tx[t].line \in Lines
        BY DEF BookInv, BookingTypeOK, Transaction
    <2>3. \A i \in DOMAIN tx[t].new.ask : i \in Lines
        BY <2>1, ConstantFacts
    <2>4. \A i \in 1..(tx[t].line - 1) : i \in Lines
        BY <2>2, BookingAssumption DEF Lines
    <2> QED BY <2>1, <2>2, <2>3, <2>4 DEF Rows, Lines
<1>2. ASSUME NEW b \in Ids, booking[b].status = "confirmed"
      PROVE  \A i \in DOMAIN booking[b].ask : i \in Lines /\ <<b, i>> \in Rows
    <2>1. booking[b].ask \in Asks
        BY <1>2 DEF BookInv
    <2> QED BY <2>1, ConstantFacts DEF Rows
<1> QED BY <1>1, <1>2

(* Calls that keep their state, over rows that keep theirs, keep their     *)
(* promises.                                                               *)
LEMMA OthersPromise ==
    ASSUME AllocInv, NEW s \in Desks, tx'[s] = tx[s],
           tx[s].at \in {"lines", "done"} =>
              \A i \in Lines : /\ claim'[<<tx[s].b, i>>].state = claim[<<tx[s].b, i>>].state
                               /\ claim'[<<tx[s].b, i>>].slots = claim[<<tx[s].b, i>>].slots
    PROVE  DropsOK(s)' /\ PromiseOK(s)'
<1>1. DropsOK(s)'
    BY DEF AllocInv, DropsOK
<1>2. ASSUME NEW i \in Lines, tx[s].at \in {"lines", "done"}, Promises(s, i)
      PROVE  Promises(s, i)'
    <2>1. /\ View(s, <<tx[s].b, i>>)'.state = View(s, <<tx[s].b, i>>).state
          /\ View(s, <<tx[s].b, i>>)'.slots = View(s, <<tx[s].b, i>>).slots
        BY <1>2 DEF View
    <2> QED BY <1>2, <2>1 DEF Promises, Blocked
<1>3. PromiseOK(s)'
    <2>1. PromiseOK(s) /\ BookInv
        BY DEF AllocInv
    <2>2. tx[s].at = "lines" => \A i \in 1..(tx[s].line - 1) : Promises(s, i)'
        BY <1>2, <2>1, LinesAreRows DEF PromiseOK
    <2>3. tx[s].at = "done" /\ tx[s].new.status = "confirmed" =>
            \A i \in DOMAIN tx[s].new.ask : Promises(s, i)'
        BY <1>2, <2>1, LinesAreRows DEF PromiseOK
    <2> QED BY <2>1, <2>2, <2>3 DEF PromiseOK
<1> QED BY <1>1, <1>3

(* A step of one open call that changes no row: it takes only bookings     *)
(* that are free, and it keeps its own drops and promises.                 *)
LEMMA OwnAlloc ==
    ASSUME AllocInv, BookInv', NEW t \in Desks, UNCHANGED <<booking, claim>>,
           \A s \in Desks \ {t} : tx'[s] = tx[s],
           tx[t].at # "idle", tx'[t].op = tx[t].op, tx'[t].b = tx[t].b,
           tx'[t].expired = tx[t].expired,
           \A b \in Ids : HoldsBooking(t, b)' => HoldsBooking(t, b) \/ BookingFree(t, b),
           DropsOK(t)', PromiseOK(t)'
    PROVE  AllocInv'
<1>1. ConfirmedIsAllocated'
    BY DEF AllocInv, ConfirmedIsAllocated, Blocked
<1>2. ASSUME NEW s \in Desks, s # t, NEW b \in Ids
      PROVE  ~(HoldsBooking(t, b)' /\ HoldsBooking(s, b)')
    <2>1. HoldsBooking(s, b)' = HoldsBooking(s, b)
        BY <1>2 DEF HoldsBooking
    <2>2. ~(HoldsBooking(t, b) /\ HoldsBooking(s, b))
        BY <1>2 DEF AllocInv, HoldInv
    <2>3. BookingFree(t, b) => ~HoldsBooking(s, b)
        BY <1>2 DEF BookingFree
    <2> QED BY <2>1, <2>2, <2>3
<1>3. ASSUME NEW u \in Desks, NEW s \in Desks, u # s, NEW b \in Ids
      PROVE  ~(HoldsBooking(u, b)' /\ HoldsBooking(s, b)')
    <2>1. CASE u = t \/ s = t
        BY <1>2, <1>3, <2>1
    <2>2. CASE u # t /\ s # t
        <3>1. ~(HoldsBooking(u, b) /\ HoldsBooking(s, b))
            BY <1>3 DEF AllocInv, HoldInv
        <3> QED BY <2>2, <3>1 DEF HoldsBooking
    <2> QED BY <2>1, <2>2
<1>4. HoldInv'
    <2>1. \A s \in Desks : /\ tx'[s].at # "idle" => tx[s].at # "idle"
                           /\ tx'[s].op = tx[s].op /\ tx'[s].b = tx[s].b
                           /\ tx'[s].expired = tx[s].expired
        OBVIOUS
    <2>2. HoldInv /\ booking' = booking
        BY DEF AllocInv
    <2>3. \A s \in Desks : tx'[s].at # "idle" =>
             /\ \A x \in tx'[s].expired : booking'[x].status # "none"
             /\ tx'[s].op # "create" => booking'[tx'[s].b].status # "none"
             /\ tx'[s].op = "create" =>
                  /\ booking'[tx'[s].b].status = "none"
                  /\ \A u \in Desks \ {s} : tx'[u].at # "idle" => tx'[u].b # tx'[s].b
        BY <2>1, <2>2 DEF HoldInv
    <2> QED BY <1>3, <2>3 DEF HoldInv
<1>5. ASSUME NEW s \in Desks PROVE DropsOK(s)' /\ PromiseOK(s)'
    <2>1. CASE s = t
        BY <2>1
    <2>2. CASE s # t
        BY <2>2, OthersPromise
    <2> QED BY <2>1, <2>2
<1> QED BY <1>1, <1>4, <1>5 DEF AllocInv

(* The three steps of the pruning: the last takes the bookings.            *)
LEMMA PruneAlloc ==
    ASSUME AllocInv, NEW t \in Desks, SeeClaims(t) \/ DropClaims(t) \/ PruneBookings(t)
    PROVE  AllocInv'
<1>1. BookInv'
    BY PruneSteps DEF AllocInv
<1>2. /\ tx \in [Desks -> Transaction] /\ tx[t].at \in {"see", "drop", "prune"}
      /\ UNCHANGED <<booking, claim, job, lapsed, feed>>
    BY DEF AllocInv, BookInv, BookingTypeOK, SeeClaims, DropClaims, PruneBookings
<1>3. /\ \A s \in Desks \ {t} : tx'[s] = tx[s]
      /\ tx'[t].op = tx[t].op /\ tx'[t].b = tx[t].b /\ tx'[t].expired = tx[t].expired
      /\ tx'[t].at \in {"drop", "prune", "lock"}
      /\ tx'[t].at = "lock" => PruneBookings(t)
      /\ tx'[t].sees \in {tx[t].sees, {r \in Rows : /\ r[1] \in tx[t].expired
                                                    /\ claim[r].state # "none"}}
      /\ tx'[t].drops \in {tx[t].drops, tx[t].sees}
    BY <1>2 DEF SeeClaims, DropClaims, PruneBookings, Transaction
<1>4. \A b \in Ids : HoldsBooking(t, b)' => BookingFree(t, b)
    BY <1>3 DEF HoldsBooking, PruneBookings
<1>5. DropsOK(t)'
    BY <1>2, <1>3 DEF AllocInv, DropsOK
<1>6. PromiseOK(t)'
    BY <1>3 DEF PromiseOK
<1> QED BY <1>1, <1>2, <1>3, <1>4, <1>5, <1>6, OwnAlloc

(* What the steps below `lock' start from.                                 *)
LEMMA LockedFacts ==
    ASSUME AllocInv, NEW t \in Desks, tx[t].at \in {"lock", "lines"}
    PROVE  /\ tx \in [Desks -> Transaction] /\ tx[t] \in Transaction
           /\ tx[t].b \in Ids /\ booking[tx[t].b] \in BookingRow
           /\ \A r \in tx[t].drops : r[1] \in tx[t].expired
           /\ DropsOK(t) /\ PromiseOK(t)
BY DEF AllocInv, BookInv, BookingTypeOK, CallOK, DropsOK

LEMMA CreateShape ==
    ASSUME BookInv, NEW t \in Desks, Create(t)
    PROVE  /\ \A s \in Desks \ {t} : tx'[s] = tx[s]
           /\ tx'[t].op = tx[t].op /\ tx'[t].b = tx[t].b /\ tx'[t].expired = tx[t].expired
           /\ tx'[t].at = "done" /\ tx'[t].new.status \in {"draft", "pencil"}
           /\ tx'[t].sees = tx[t].sees /\ tx'[t].drops = tx[t].drops
<1>1. PICK ask \in Asks, st \in {"draft", "pencil"}, turn \in 0..MaxTurn, from \in 1..MaxSlot :
    \E until \in from..MaxSlot :
      LET bk == [status |-> st, from |-> from, until |-> until, turn |-> turn,
                 ask |-> ask]
      IN tx' = [tx EXCEPT
            ![t].at = "done", ![t].new = bk, ![t].wrote = TRUE,
            ![t].writes = [i \in Lines |->
                IF st = "pencil" /\ i <= Len(ask) /\ ask[i].kind # "any"
                THEN [state |-> "pencil", unit |-> ask[i].unit, qty |-> ask[i].qty,
                      slots |-> Blocked(bk)]
                ELSE NoClaim]]
    BY DEF Create
<1>2. PICK until \in from..MaxSlot :
      LET bk == [status |-> st, from |-> from, until |-> until, turn |-> turn,
                 ask |-> ask]
      IN tx' = [tx EXCEPT
            ![t].at = "done", ![t].new = bk, ![t].wrote = TRUE,
            ![t].writes = [i \in Lines |->
                IF st = "pencil" /\ i <= Len(ask) /\ ask[i].kind # "any"
                THEN [state |-> "pencil", unit |-> ask[i].unit, qty |-> ask[i].qty,
                      slots |-> Blocked(bk)]
                ELSE NoClaim]]
    BY <1>1
<1>3. tx \in [Desks -> Transaction] /\ tx[t] \in Transaction
    BY BodyFacts
<1> QED BY <1>2, <1>3 DEF Transaction

LEMMA CreateAlloc ==
    ASSUME AllocInv, NEW t \in Desks, Create(t)
    PROVE  AllocInv'
<1>1. BookInv'
    BY CreateStep DEF AllocInv
<1>2. UNCHANGED <<booking, claim>> /\ tx[t].at = "lock" /\ tx[t].op = "create"
    BY DEF Create
<1>3. /\ \A s \in Desks \ {t} : tx'[s] = tx[s]
      /\ tx'[t].op = tx[t].op /\ tx'[t].b = tx[t].b /\ tx'[t].expired = tx[t].expired
      /\ tx'[t].at = "done" /\ tx'[t].new.status \in {"draft", "pencil"}
      /\ tx'[t].sees = tx[t].sees /\ tx'[t].drops = tx[t].drops
    BY CreateShape DEF AllocInv
<1>4. /\ booking[tx[t].b].status = "none"
      /\ \A s \in Desks \ {t} : tx[s].at # "idle" => tx[s].b # tx[t].b
      /\ \A s \in Desks : tx[s].at # "idle" => tx[t].b \notin tx[s].expired
    BY <1>2 DEF AllocInv, HoldInv
<1>5. BookingFree(t, tx[t].b)
    BY <1>4 DEF BookingFree, HoldsBooking
<1>6. \A b \in Ids : HoldsBooking(t, b)' => HoldsBooking(t, b) \/ BookingFree(t, b)
    BY <1>2, <1>3, <1>5 DEF HoldsBooking
<1>7. DropsOK(t)' /\ PromiseOK(t)'
    BY <1>2, <1>3, <1>4, LockedFacts DEF DropsOK, PromiseOK
<1> QED BY <1>1, <1>2, <1>3, <1>6, <1>7, OwnAlloc

(* The calls that lock their booking first.                                *)
LEMMA LockedHolds ==
    ASSUME AllocInv, NEW t \in Desks, NEW op, Locks(t, op), tx'[t].b = tx[t].b,
           tx'[t].expired = tx[t].expired
    PROVE  \A b \in Ids : HoldsBooking(t, b)' => HoldsBooking(t, b) \/ BookingFree(t, b)
BY DEF HoldsBooking, Locks

LEMMA StartConfirmAlloc ==
    ASSUME AllocInv, NEW t \in Desks, StartConfirm(t)
    PROVE  AllocInv'
<1>0. BookInv'
    BY StartConfirmStep DEF AllocInv
<1>1. UNCHANGED <<booking, claim>> /\ Locks(t, "confirm") /\ tx[t].at = "lock"
    BY DEF StartConfirm, Locks
<1>2. /\ \A s \in Desks \ {t} : tx'[s] = tx[s]
      /\ tx'[t].op = tx[t].op /\ tx'[t].b = tx[t].b /\ tx'[t].expired = tx[t].expired
      /\ tx'[t].at = "lines" /\ tx'[t].new.status = "confirmed" /\ tx'[t].line = tx[t].line
      /\ tx'[t].sees = tx[t].sees /\ tx'[t].drops = tx[t].drops
    BY <1>1, LockedFacts DEF StartConfirm, Transaction, BookingRow
<1>3. tx[t].line = 1 /\ tx[t].b \notin tx[t].expired
    BY <1>1 DEF AllocInv, BookInv, CallOK, Locks
<1>4. DropsOK(t)' /\ PromiseOK(t)'
    BY <1>1, <1>2, <1>3, LockedFacts DEF DropsOK, PromiseOK
<1> QED BY <1>0, <1>1, <1>2, <1>4, LockedHolds, OwnAlloc

LEMMA ConvertAlloc ==
    ASSUME AllocInv, NEW t \in Desks, Convert(t)
    PROVE  AllocInv'
<1>0. BookInv'
    BY ConvertStep DEF AllocInv
<1>1. /\ UNCHANGED <<booking, claim>> /\ Locks(t, "convert") /\ tx[t].at = "lock"
      /\ booking[tx[t].b].status = "confirmed"
    BY DEF Convert, Locks
<1>2. /\ \A s \in Desks \ {t} : tx'[s] = tx[s]
      /\ tx'[t].op = tx[t].op /\ tx'[t].b = tx[t].b /\ tx'[t].expired = tx[t].expired
      /\ tx'[t].at = "done" /\ tx'[t].new = booking[tx[t].b]
      /\ tx'[t].writes = tx[t].writes
      /\ tx'[t].sees = tx[t].sees /\ tx'[t].drops = tx[t].drops
    BY <1>1, LockedFacts DEF Convert, Transaction
<1>3. tx[t].b \notin tx[t].expired
    BY <1>1 DEF Locks
<1>4. \A i \in DOMAIN booking[tx[t].b].ask : Promises(t, i)'
    <2>1. ASSUME NEW i \in DOMAIN booking[tx[t].b].ask PROVE Promises(t, i)'
        <3>1. i \in Lines /\ tx[t].b \in Ids
            BY <1>1, <2>1, LinesAreRows, LockedFacts DEF AllocInv
        <3>2. tx[t].writes[i] = NoClaim
            BY <1>1, <3>1 DEF AllocInv, BookInv, CallOK
        <3>3. View(t, <<tx[t].b, i>>)' = claim[<<tx[t].b, i>>]
            BY <1>1, <1>2, <1>3, <3>2, LockedFacts DEF View, NoClaim
        <3> QED BY <1>1, <1>2, <2>1, <3>1, <3>3 DEF Promises, AllocInv,
                   ConfirmedIsAllocated, Blocked
    <2> QED BY <2>1
<1>5. DropsOK(t)' /\ PromiseOK(t)'
    BY <1>1, <1>2, <1>3, <1>4, LockedFacts DEF DropsOK, PromiseOK
<1> QED BY <1>0, <1>1, <1>2, <1>5, LockedHolds, OwnAlloc

LEMMA CancelAlloc ==
    ASSUME AllocInv, NEW t \in Desks, Cancel(t)
    PROVE  AllocInv'
<1>0. BookInv'
    BY CancelStep DEF AllocInv
<1> DEFINE live == {r \in Rows : r[1] = tx[t].b /\ claim[r].state # "none"}
<1>1. UNCHANGED <<booking, claim>> /\ Locks(t, "cancel") /\ tx[t].at = "lock"
    BY DEF Cancel, Locks
<1>2. /\ \A s \in Desks \ {t} : tx'[s] = tx[s]
      /\ tx'[t].op = tx[t].op /\ tx'[t].b = tx[t].b /\ tx'[t].expired = tx[t].expired
      /\ tx'[t].at = "done" /\ tx'[t].new.status = "cancelled"
      /\ tx'[t].sees = tx[t].sees /\ tx'[t].drops = tx[t].drops \cup live
    BY <1>1, LockedFacts DEF Cancel, Transaction, BookingRow
<1>3. tx[t].b \notin tx[t].expired
    BY <1>1 DEF Locks
<1>4. DropsOK(t)' /\ PromiseOK(t)'
    BY <1>1, <1>2, <1>3, LockedFacts DEF DropsOK, PromiseOK
<1> QED BY <1>0, <1>1, <1>2, <1>4, LockedHolds, OwnAlloc

(* A line that is confirmed holds its claim; the lines before it keep      *)
(* theirs.                                                                 *)
LEMMA ConfirmLineAlloc ==
    ASSUME AllocInv, NEW t \in Desks, ConfirmLine(t)
    PROVE  AllocInv'
<1>0. BookInv'
    BY ConfirmLineStep DEF AllocInv
<1> DEFINE i == tx[t].line
           n == Len(tx[t].new.ask)
<1>1. /\ UNCHANGED <<booking, claim>> /\ tx[t].at = "lines"
      /\ i \in DOMAIN tx[t].new.ask /\ i \in Lines /\ tx[t].new.ask \in Seq(Line)
    BY AsksAssumption, ConstantFacts DEF ConfirmLine, AllocInv, BookInv, CallOK
<1>2. PICK c : /\ c.state = "confirmed" /\ c.slots = Blocked(tx[t].new)
               /\ tx' = [tx EXCEPT
                    ![t].at = IF i = n THEN "done" ELSE "lines",
                    ![t].line = IF i = n THEN i ELSE i + 1,
                    ![t].writes[i] = c, ![t].wrote = TRUE,
                    ![t].products = @ \cup ProductOf(tx[t].new.ask[i].kind)]
    BY DEF ConfirmLine
<1>3. /\ \A s \in Desks \ {t} : tx'[s] = tx[s]
      /\ tx'[t].op = tx[t].op /\ tx'[t].b = tx[t].b /\ tx'[t].expired = tx[t].expired
      /\ tx'[t].at = (IF i = n THEN "done" ELSE "lines") /\ tx'[t].new = tx[t].new
      /\ tx'[t].line = (IF i = n THEN i ELSE i + 1)
      /\ tx'[t].sees = tx[t].sees /\ tx'[t].drops = tx[t].drops
      /\ tx'[t].writes = [tx[t].writes EXCEPT ![i] = c]
    <2> DEFINE a == IF i = n THEN "done" ELSE "lines"
               l == IF i = n THEN i ELSE i + 1
               p == tx[t].products \cup ProductOf(tx[t].new.ask[i].kind)
               w == [tx[t].writes EXCEPT ![i] = c]
    <2>1. tx' = [tx EXCEPT ![t] = [tx[t] EXCEPT !.at = a, !.line = l, !.writes = w,
                                                !.wrote = TRUE, !.products = p]]
        <3>1. tx \in [Desks -> Transaction] /\ tx[t] \in Transaction
            BY <1>1, LockedFacts
        <3> HIDE DEF a, l, p
        <3> QED BY <3>1, <1>2 DEF a, l, p, Transaction
    <2> HIDE DEF a, l, p, w
    <2>2. /\ \A s \in Desks \ {t} : tx'[s] = tx[s]
          /\ tx'[t].op = tx[t].op /\ tx'[t].b = tx[t].b /\ tx'[t].expired = tx[t].expired
          /\ tx'[t].at = a /\ tx'[t].new = tx[t].new /\ tx'[t].line = l
          /\ tx'[t].sees = tx[t].sees /\ tx'[t].drops = tx[t].drops /\ tx'[t].writes = w
        BY <1>1, <2>1, LockedFacts DEF Transaction
    <2> QED BY <2>2 DEF a, l, w
<1>4. tx'[t].writes[i] = c /\ \A j \in Lines : j # i => tx'[t].writes[j] = tx[t].writes[j]
    BY <1>1, <1>3, LockedFacts DEF Transaction
<1>5. /\ tx[t].b \notin tx[t].expired /\ tx[t].new.status # "none" /\ DropsOK(t)
      /\ \A j \in 1..(i - 1) : Promises(t, j)
      /\ \A r \in tx[t].drops : r[1] # tx[t].b
    BY <1>1, LockedFacts DEF PromiseOK
<1>6. n \in Nat /\ DOMAIN tx[t].new.ask = 1..n /\ i \in 1..n
    BY <1>1
<1>7. \A j \in 1..i : j \in Lines
    BY <1>1, BookingAssumption DEF Lines
<1>8. ASSUME NEW j \in 1..i PROVE Promises(t, j)'
    <2>1. CASE j = i
        <3>1. c.state = "confirmed" /\ c.slots = Blocked(tx[t].new)
            BY <1>2
        <3>2. View(t, <<tx[t].b, j>>)' = c
            BY <2>1, <3>1, <1>3, <1>4, <1>5 DEF View
        <3> QED BY <3>1, <3>2, <1>3 DEF Promises, Blocked
    <2>2. CASE j # i
        <3>1. j \in 1..(i - 1) /\ j \in Lines
            BY <2>2, <1>6, <1>7
        <3>2. View(t, <<tx[t].b, j>>)' = View(t, <<tx[t].b, j>>)
            BY <3>1, <2>2, <1>1, <1>3, <1>4, <1>5 DEF View
        <3> QED BY <3>1, <3>2, <1>3, <1>5 DEF Promises, Blocked
    <2> QED BY <2>1, <2>2
<1>9. PromiseOK(t)'
    <2>1. CASE i = n
        BY <2>1, <1>3, <1>5, <1>6, <1>8 DEF PromiseOK
    <2>2. CASE i # n
        <3>1. 1..(tx'[t].line - 1) = 1..i
            BY <2>2, <1>3, <1>6
        <3> QED BY <2>2, <3>1, <1>3, <1>5, <1>8 DEF PromiseOK
    <2> QED BY <2>1, <2>2
<1>10. DropsOK(t)'
    BY <1>1, <1>3, LockedFacts DEF DropsOK
<1>11. \A b \in Ids : HoldsBooking(t, b)' => HoldsBooking(t, b)
    BY <1>1, <1>3 DEF HoldsBooking
<1> QED BY <1>0, <1>1, <1>3, <1>9, <1>10, <1>11, OwnAlloc

LEMMA ExtendAlloc ==
    ASSUME AllocInv, NEW t \in Desks, Extend(t)
    PROVE  AllocInv'
<1>0. BookInv'
    BY ExtendStep DEF AllocInv
<1> DEFINE b == tx[t].b
           live == {r \in Rows : r[1] = b /\ claim[r].state # "none"}
           bulk == {r \in live : claim[r].unit = NoUnit /\ claim[r].state = "confirmed"}
<1>1. UNCHANGED <<booking, claim>> /\ Locks(t, "extend") /\ tx[t].at = "lock"
    BY DEF Extend, Locks
<1>2. /\ b \notin tx[t].expired /\ booking[b].status \notin {"none", "cancelled"}
      /\ \A i \in Lines : tx[t].writes[i] = NoClaim
      /\ \A r \in tx[t].drops : r[1] # b
      /\ \A i \in DOMAIN booking[b].ask : booking[b].status = "confirmed" =>
            /\ i \in Lines /\ <<b, i>> \in Rows /\ claim[<<b, i>>].state = "confirmed"
            /\ claim[<<b, i>>].slots = Blocked(booking[b])
    BY <1>1, LockedFacts, LinesAreRows
       DEF Locks, AllocInv, BookInv, CallOK, ConfirmedIsAllocated
<1>3. PICK until \in booking[b].from..MaxSlot :
        LET bk == [booking[b] EXCEPT !.until = until]
        IN  IF Collides(t, live, bk)
            THEN tx' = [tx EXCEPT ![t].at = "done", ![t].new = booking[b]]
            ELSE tx' = [tx EXCEPT
                    ![t].at = "done", ![t].new = bk, ![t].wrote = TRUE,
                    ![t].writes = [i \in Lines |->
                        IF <<b, i>> \in live THEN Moved(<<b, i>>, bk) ELSE NoClaim],
                    ![t].products = IF bulk = {} THEN {} ELSE {"bulk"}]
    BY DEF Extend
<1> DEFINE bk == [booking[b] EXCEPT !.until = until]
           w == [i \in Lines |-> IF <<b, i>> \in live THEN Moved(<<b, i>>, bk) ELSE NoClaim]
<1>4. \/ tx' = [tx EXCEPT ![t].at = "done", ![t].new = booking[b]]
      \/ tx' = [tx EXCEPT ![t].at = "done", ![t].new = bk, ![t].wrote = TRUE,
                          ![t].writes = w, ![t].products = IF bulk = {} THEN {} ELSE {"bulk"}]
    BY <1>3
<1>5. bk.status = booking[b].status /\ bk.ask = booking[b].ask
    BY <1>1, LockedFacts DEF BookingRow
<1> HIDE DEF bk
<1>6. \A i \in Lines : w[i] = IF <<b, i>> \in live THEN Moved(<<b, i>>, bk) ELSE NoClaim
    OBVIOUS
<1> HIDE DEF w
<1>7. /\ \A s \in Desks \ {t} : tx'[s] = tx[s]
      /\ tx'[t].op = tx[t].op /\ tx'[t].b = b /\ tx'[t].expired = tx[t].expired
      /\ tx'[t].at = "done"
      /\ tx'[t].sees = tx[t].sees /\ tx'[t].drops = tx[t].drops
      /\ \/ tx'[t].new = booking[b] /\ tx'[t].writes = tx[t].writes
         \/ tx'[t].new = bk /\ tx'[t].writes = w
    BY <1>1, <1>4, LockedFacts DEF Transaction
<1>8. /\ tx'[t].new.status = booking[b].status /\ tx'[t].new.ask = booking[b].ask
    BY <1>5, <1>7
<1>9. ASSUME booking[b].status = "confirmed", NEW i \in DOMAIN booking[b].ask
      PROVE  Promises(t, i)'
    <2>1. /\ i \in Lines /\ <<b, i>> \in Rows /\ claim[<<b, i>>].state = "confirmed"
          /\ claim[<<b, i>>].slots = Blocked(booking[b]) /\ <<b, i>> \notin tx[t].drops
        BY <1>2, <1>9
    <2>2. CASE tx'[t].new = booking[b] /\ tx'[t].writes = tx[t].writes
        <3>1. View(t, <<b, i>>)' = claim[<<b, i>>]
            BY <2>1, <2>2, <1>1, <1>2, <1>7 DEF View, NoClaim
        <3> QED BY <3>1, <2>1, <2>2, <1>7 DEF Promises, Blocked
    <2>3. CASE tx'[t].new = bk /\ tx'[t].writes = w
        <3>1. <<b, i>> \in live /\ claim[<<b, i>>] \in Claim
            BY <2>1 DEF AllocInv, BookInv, BookingTypeOK
        <3>2. /\ w[i] = Moved(<<b, i>>, bk)
              /\ w[i].state = "confirmed" /\ w[i].slots = Blocked(bk)
            BY <3>1, <2>1, <1>6 DEF Moved, Claim
        <3>3. View(t, <<b, i>>)' = w[i]
            BY <3>2, <2>1, <2>3, <1>7 DEF View
        <3> QED BY <3>2, <3>3, <2>3, <1>7 DEF Promises, Blocked
    <2> QED BY <2>2, <2>3, <1>7
<1>10. DropsOK(t)' /\ PromiseOK(t)'
    BY <1>1, <1>2, <1>7, <1>8, <1>9, LockedFacts DEF DropsOK, PromiseOK
<1> QED BY <1>0, <1>1, <1>7, <1>10, LockedHolds, OwnAlloc

(* A call begins with nothing in its hands.                                *)
LEMMA BeginAlloc ==
    ASSUME AllocInv, NEW t \in Desks, Begin(t)
    PROVE  AllocInv'
<1>0. BookInv'
    BY BeginStep DEF AllocInv
<1>1. /\ UNCHANGED <<booking, claim>> /\ tx[t].at = "idle"
      /\ tx \in [Desks -> Transaction]
    BY DEF Begin, AllocInv, BookInv, BookingTypeOK
<1>2. PICK op \in {"create", "confirm", "cancel", "extend", "convert"} : \E b \in Ids :
          /\ IF op = "create"
             THEN /\ booking[b].status = "none"
                  /\ \A s \in Desks : tx[s].at # "idle" => tx[s].b # b
             ELSE booking[b].status # "none"
          /\ LET old == {x \in Ids \cap lapsed : booking[x].status = "pencil"}
             IN tx' = [tx EXCEPT ![t] = [Idle EXCEPT
                          !.at = IF old = {} THEN "lock" ELSE "see",
                          !.op = op, !.b = b, !.expired = old]]
    BY DEF Begin
<1>3. PICK b \in Ids :
          /\ IF op = "create"
             THEN /\ booking[b].status = "none"
                  /\ \A s \in Desks : tx[s].at # "idle" => tx[s].b # b
             ELSE booking[b].status # "none"
          /\ LET old == {x \in Ids \cap lapsed : booking[x].status = "pencil"}
             IN tx' = [tx EXCEPT ![t] = [Idle EXCEPT
                          !.at = IF old = {} THEN "lock" ELSE "see",
                          !.op = op, !.b = b, !.expired = old]]
    BY <1>2
<1> DEFINE old == {x \in Ids \cap lapsed : booking[x].status = "pencil"}
<1>4. /\ \A s \in Desks \ {t} : tx'[s] = tx[s]
      /\ tx'[t].op = op /\ tx'[t].b = b /\ tx'[t].expired = old
      /\ tx'[t].at = (IF old = {} THEN "lock" ELSE "see")
      /\ tx'[t].sees = {} /\ tx'[t].drops = {}
    BY <1>1, <1>3 DEF Idle
<1>5. \A x \in old : booking[x].status = "pencil"
    OBVIOUS
<1> HIDE DEF old
<1>6. \A x \in Ids : ~HoldsBooking(t, x)'
    BY <1>4 DEF HoldsBooking
<1>7. \A s \in Desks \ {t}, x \in Ids : HoldsBooking(s, x)' = HoldsBooking(s, x)
    BY <1>4 DEF HoldsBooking
<1>8. \A u \in Desks, s \in Desks : u # s =>
         \A x \in Ids : ~(HoldsBooking(u, x)' /\ HoldsBooking(s, x)')
    BY <1>6, <1>7 DEF AllocInv, HoldInv
<1>9. HoldInv'
    <2>1. ASSUME NEW s \in Desks, tx'[s].at # "idle"
          PROVE  /\ \A x \in tx'[s].expired : booking'[x].status # "none"
                 /\ tx'[s].op # "create" => booking'[tx'[s].b].status # "none"
                 /\ tx'[s].op = "create" =>
                      /\ booking'[tx'[s].b].status = "none"
                      /\ \A u \in Desks \ {s} : tx'[u].at # "idle" => tx'[u].b # tx'[s].b
        <3>1. CASE s = t
            BY <3>1, <1>1, <1>3, <1>4, <1>5
        <3>2. CASE s # t
            <4>1. tx'[s] = tx[s] /\ tx[s].at # "idle"
                BY <3>2, <2>1, <1>4
            <4>2. /\ \A x \in tx[s].expired : booking[x].status # "none"
                  /\ tx[s].op # "create" => booking[tx[s].b].status # "none"
                  /\ tx[s].op = "create" =>
                       /\ booking[tx[s].b].status = "none"
                       /\ \A u \in Desks \ {s} : tx[u].at # "idle" => tx[u].b # tx[s].b
                BY <4>1 DEF AllocInv, HoldInv
            <4>3. tx[s].op = "create" => b # tx[s].b
                BY <4>1, <4>2, <1>3
            <4> QED BY <4>1, <4>2, <4>3, <1>1, <1>4
        <3> QED BY <3>1, <3>2
    <2> QED BY <2>1, <1>8 DEF HoldInv
<1>10. ASSUME NEW s \in Desks PROVE DropsOK(s)' /\ PromiseOK(s)'
    <2>1. CASE s = t
        BY <2>1, <1>4 DEF DropsOK, PromiseOK
    <2>2. CASE s # t
        BY <2>2, <1>1, <1>4, OthersPromise
    <2> QED BY <2>1, <2>2
<1>11. ConfirmedIsAllocated'
    BY <1>1 DEF AllocInv, ConfirmedIsAllocated, Blocked
<1> QED BY <1>0, <1>9, <1>10, <1>11 DEF AllocInv

(* A call that ends lets go of what it held; the others go on as they were.*)
LEMMA EndKeepsHolds ==
    ASSUME HoldInv, NEW t \in Desks, tx'[t] = Idle, \A s \in Desks \ {t} : tx'[s] = tx[s]
    PROVE  /\ \A u \in Desks, s \in Desks : u # s =>
                 \A b \in Ids : ~(HoldsBooking(u, b)' /\ HoldsBooking(s, b)')
           /\ DropsOK(t)' /\ PromiseOK(t)'
<1>1. /\ Idle.at = "idle" /\ Idle.drops = {} /\ Idle.sees = {}
    BY DEF Idle
<1>2. \A b \in Ids : ~HoldsBooking(t, b)'
    BY <1>1 DEF HoldsBooking
<1>3. \A s \in Desks \ {t}, b \in Ids : HoldsBooking(s, b)' = HoldsBooking(s, b)
    BY DEF HoldsBooking
<1>4. \A u \in Desks, s \in Desks : u # s =>
         \A b \in Ids : ~(HoldsBooking(u, b)' /\ HoldsBooking(s, b)')
    BY <1>2, <1>3 DEF HoldInv
<1>5. DropsOK(t)' /\ PromiseOK(t)'
    BY <1>1 DEF DropsOK, PromiseOK
<1> QED BY <1>4, <1>5

LEMMA CommitAlloc ==
    ASSUME AllocInv, NEW t \in Desks, Commit(t)
    PROVE  AllocInv'
<1>0. BookInv' /\ BookInv
    BY CommitStep DEF AllocInv
<1> DEFINE b == tx[t].b
<1>1. /\ tx[t].at = "done" /\ tx'[t] = Idle /\ \A s \in Desks \ {t} : tx'[s] = tx[s]
      /\ \A r \in Rows : claim'[r] = View(t, r)
      /\ \A x \in Ids : booking'[x] =
             IF x = b THEN tx[t].new
             ELSE IF x \in tx[t].expired THEN [booking[x] EXCEPT !.status = "cancelled"]
             ELSE booking[x]
      /\ b \in Ids /\ tx[t].expired \subseteq Ids /\ booking \in [Ids -> BookingRow]
    BY <1>0 DEF Commit, Ends, BookInv, BookingTypeOK, CallOK, Transaction
<1>2. /\ b \notin tx[t].expired /\ tx[t].new.status # "none"
      /\ tx[t].new.status = "confirmed" => \A i \in DOMAIN tx[t].new.ask : Promises(t, i)
      /\ \A r \in tx[t].drops : r[1] \in tx[t].expired \cup {b}
    BY <1>1 DEF AllocInv, PromiseOK, DropsOK
<1>3. /\ \A x \in tx[t].expired \ {b} : booking'[x].status = "cancelled"
      /\ \A x \in Ids \ (tx[t].expired \cup {b}) : booking'[x] = booking[x]
      /\ booking'[b] = tx[t].new
    BY <1>1 DEF BookingRow
<1>4. \A x \in Ids \ (tx[t].expired \cup {b}), i \in Lines : claim'[<<x, i>>] = claim[<<x, i>>]
    <2>1. ASSUME NEW x \in Ids \ (tx[t].expired \cup {b}), NEW i \in Lines
          PROVE  claim'[<<x, i>>] = claim[<<x, i>>]
        <3>1. <<x, i>> \in Rows /\ <<x, i>> \notin tx[t].drops
            BY <2>1, <1>2 DEF Rows
        <3>2. View(t, <<x, i>>) = claim[<<x, i>>]
            BY <2>1, <3>1 DEF View
        <3> QED BY <3>1, <3>2, <1>1
    <2> QED BY <2>1
<1>5. /\ \A x \in tx[t].expired \cup {b} : HoldsBooking(t, x)
    BY <1>1 DEF HoldsBooking
<1>6. ASSUME NEW s \in Desks, s # t, tx[s].at \in {"lines", "done"}
      PROVE  tx[s].b \in Ids \ (tx[t].expired \cup {b})
    <2>1. HoldsBooking(s, tx[s].b) /\ tx[s].b \in Ids
        BY <1>0, <1>6 DEF HoldsBooking, BookInv, CallOK
    <2> QED BY <2>1, <1>5, <1>6 DEF AllocInv, HoldInv
<1>7. ASSUME NEW s \in Desks PROVE DropsOK(s)' /\ PromiseOK(s)'
    <2>1. CASE s = t
        BY <2>1, <1>1, EndKeepsHolds DEF AllocInv
    <2>2. CASE s # t
        <3>1. tx[s].at \in {"lines", "done"} =>
                \A i \in Lines : /\ claim'[<<tx[s].b, i>>].state = claim[<<tx[s].b, i>>].state
                                 /\ claim'[<<tx[s].b, i>>].slots = claim[<<tx[s].b, i>>].slots
            BY <2>2, <1>4, <1>6
        <3> QED BY <2>2, <3>1, <1>1, OthersPromise
    <2> QED BY <2>1, <2>2
<1>8. \A x \in Ids : booking[x].status # "none" => booking'[x].status # "none"
    BY <1>2, <1>3
<1>9. HoldInv'
    <2>1. ASSUME NEW s \in Desks, tx'[s].at # "idle"
          PROVE  /\ \A x \in tx'[s].expired : booking'[x].status # "none"
                 /\ tx'[s].op # "create" => booking'[tx'[s].b].status # "none"
                 /\ tx'[s].op = "create" =>
                      /\ booking'[tx'[s].b].status = "none"
                      /\ \A u \in Desks \ {s} : tx'[u].at # "idle" => tx'[u].b # tx'[s].b
        <3>1. s # t /\ tx'[s] = tx[s] /\ tx[s].at # "idle"
            BY <2>1, <1>1 DEF Idle
        <3>2. tx[s].b \in Ids /\ tx[s].expired \subseteq Ids
            BY <3>1, <1>0 DEF BookInv, CallOK, BookingTypeOK, Transaction
        <3>3. /\ \A x \in tx[s].expired : booking[x].status # "none"
              /\ tx[s].op # "create" => booking[tx[s].b].status # "none"
              /\ tx[s].op = "create" =>
                   /\ booking[tx[s].b].status = "none"
                   /\ \A u \in Desks \ {s} : tx[u].at # "idle" => tx[u].b # tx[s].b
            BY <3>1 DEF AllocInv, HoldInv
        <3>4. tx[s].op = "create" => tx[s].b \notin tx[t].expired \cup {b}
            BY <3>1, <3>3, <1>1 DEF AllocInv, HoldInv
        <3>5. tx[s].op = "create" => booking'[tx[s].b].status = "none"
            BY <3>2, <3>3, <3>4, <1>3
        <3>6. tx[s].op = "create" => \A u \in Desks \ {s} : tx'[u].at # "idle" => tx'[u].b # tx[s].b
            BY <3>3, <1>1 DEF Idle
        <3> QED BY <3>1, <3>2, <3>3, <3>5, <3>6, <1>8
    <2> QED BY <2>1, <1>1, EndKeepsHolds DEF AllocInv, HoldInv
<1>10. ConfirmedIsAllocated'
    <2>1. ASSUME NEW x \in Ids, booking'[x].status = "confirmed", NEW i \in DOMAIN booking'[x].ask
          PROVE  /\ claim'[<<x, i>>].state = "confirmed"
                 /\ claim'[<<x, i>>].slots = Blocked(booking'[x])
        <3>1. CASE x = b
            <4>1. Promises(t, i) /\ <<b, i>> \in Rows
                BY <2>1, <3>1, <1>0, <1>1, <1>2, <1>3, LinesAreRows
            <4> QED BY <4>1, <3>1, <1>1, <1>3 DEF Promises
        <3>2. CASE x # b
            <4>1. x \in Ids \ (tx[t].expired \cup {b}) /\ booking'[x] = booking[x]
                BY <2>1, <3>2, <1>3
            <4>2. i \in Lines
                BY <2>1, <4>1, <1>0, LinesAreRows
            <4> QED BY <2>1, <4>1, <4>2, <1>4 DEF AllocInv, ConfirmedIsAllocated
        <3> QED BY <3>1, <3>2
    <2> QED BY <2>1 DEF ConfirmedIsAllocated, Blocked
<1> QED BY <1>0, <1>7, <1>9, <1>10 DEF AllocInv

LEMMA RollbackAlloc ==
    ASSUME AllocInv, NEW t \in Desks, Rollback(t)
    PROVE  AllocInv'
<1>0. BookInv' /\ BookInv
    BY RollbackStep DEF AllocInv
<1>1. /\ tx'[t] = Idle /\ \A s \in Desks \ {t} : tx'[s] = tx[s]
      /\ UNCHANGED <<booking, claim>>
    BY <1>0 DEF Rollback, Ends, BookInv, BookingTypeOK
<1>2. ASSUME NEW s \in Desks PROVE DropsOK(s)' /\ PromiseOK(s)'
    <2>1. CASE s = t
        BY <2>1, <1>1, EndKeepsHolds DEF AllocInv
    <2>2. CASE s # t
        BY <2>2, <1>1, OthersPromise
    <2> QED BY <2>1, <2>2
<1>3. HoldInv'
    <2>1. ASSUME NEW s \in Desks, tx'[s].at # "idle"
          PROVE  s # t /\ tx'[s] = tx[s] /\ tx[s].at # "idle"
        BY <2>1, <1>1 DEF Idle
    <2>2. \A s \in Desks : tx'[s].at # "idle" =>
             /\ \A x \in tx'[s].expired : booking'[x].status # "none"
             /\ tx'[s].op # "create" => booking'[tx'[s].b].status # "none"
             /\ tx'[s].op = "create" =>
                  /\ booking'[tx'[s].b].status = "none"
                  /\ \A u \in Desks \ {s} : tx'[u].at # "idle" => tx'[u].b # tx'[s].b
        BY <2>1, <1>1 DEF AllocInv, HoldInv
    <2> QED BY <2>2, <1>1, EndKeepsHolds DEF AllocInv, HoldInv
<1>4. ConfirmedIsAllocated'
    BY <1>1 DEF AllocInv, ConfirmedIsAllocated, Blocked
<1> QED BY <1>0, <1>2, <1>3, <1>4 DEF AllocInv

(* Steps that leave the calls and the bookings alone, and of a reservation *)
(* change at most its unit.                                                *)
LEMMA QuietAlloc ==
    ASSUME AllocInv, BookInv', UNCHANGED <<booking, tx>>,
           \A r \in Rows : claim'[r].state = claim[r].state /\ claim'[r].slots = claim[r].slots
    PROVE  AllocInv'
<1>1. HoldInv'
    BY DEF AllocInv, HoldInv, HoldsBooking
<1>2. ASSUME NEW s \in Desks PROVE DropsOK(s)' /\ PromiseOK(s)'
    <2>1. tx[s].at \in {"lines", "done"} => \A i \in Lines : <<tx[s].b, i>> \in Rows
        BY DEF AllocInv, BookInv, CallOK, Rows
    <2> QED BY <2>1, OthersPromise
<1>3. ConfirmedIsAllocated'
    <2>1. \A b \in Ids : booking[b].status = "confirmed" =>
             \A i \in DOMAIN booking[b].ask : <<b, i>> \in Rows
        BY LinesAreRows DEF AllocInv
    <2> QED BY <2>1 DEF AllocInv, ConfirmedIsAllocated, Blocked
<1> QED BY <1>1, <1>2, <1>3 DEF AllocInv

LEMMA InitAlloc == Init => AllocInv
<1> SUFFICES ASSUME Init PROVE AllocInv
    OBVIOUS
<1>1. /\ \A t \in Desks : tx[t].at = "idle" /\ tx[t].drops = {} /\ tx[t].sees = {}
      /\ \A b \in Ids : booking[b].status = "none"
    BY DEF Init, Idle, NoBooking
<1>2. HoldInv /\ ConfirmedIsAllocated /\ \A t \in Desks : DropsOK(t) /\ PromiseOK(t)
    BY <1>1 DEF HoldInv, HoldsBooking, ConfirmedIsAllocated, DropsOK, PromiseOK
<1> QED BY <1>2, InitKeeps DEF AllocInv

LEMMA NextAlloc == AllocInv /\ [Next]_vars => AllocInv'
<1> SUFFICES ASSUME AllocInv, [Next]_vars PROVE AllocInv'
    OBVIOUS
<1>0. BookInv' /\ BookInv
    BY NextKeeps DEF AllocInv
<1>1. ASSUME NEW t \in Desks, Begin(t) PROVE AllocInv'
    BY <1>1, BeginAlloc
<1>2. ASSUME NEW t \in Desks, SeeClaims(t) \/ DropClaims(t) \/ PruneBookings(t) PROVE AllocInv'
    BY <1>2, PruneAlloc
<1>3. ASSUME NEW t \in Desks, Create(t) PROVE AllocInv'
    BY <1>3, CreateAlloc
<1>4. ASSUME NEW t \in Desks, StartConfirm(t) PROVE AllocInv'
    BY <1>4, StartConfirmAlloc
<1>5. ASSUME NEW t \in Desks, ConfirmLine(t) PROVE AllocInv'
    BY <1>5, ConfirmLineAlloc
<1>6. ASSUME NEW t \in Desks, Cancel(t) PROVE AllocInv'
    BY <1>6, CancelAlloc
<1>7. ASSUME NEW t \in Desks, Extend(t) PROVE AllocInv'
    BY <1>7, ExtendAlloc
<1>8. ASSUME NEW t \in Desks, Convert(t) PROVE AllocInv'
    BY <1>8, ConvertAlloc
<1>9. ASSUME NEW t \in Desks, Commit(t) PROVE AllocInv'
    BY <1>9, CommitAlloc
<1>10. ASSUME NEW t \in Desks, Rollback(t) PROVE AllocInv'
    BY <1>10, RollbackAlloc
<1>11. ASSUME NEW t \in Desks, Bump(t) PROVE AllocInv'
    BY <1>0, <1>11, QuietAlloc DEF Bump
<1>12. ASSUME NEW r \in Rows, NEW u \in Units, Reallocate(r, u) PROVE AllocInv'
    <2>1. claim \in [Rows -> Claim]
        BY <1>0 DEF BookInv, BookingTypeOK
    <2>2. UNCHANGED <<booking, tx>> /\ claim' = [claim EXCEPT ![r] = [claim[r] EXCEPT !.unit = u]]
        BY <1>12 DEF Reallocate
    <2>3. \A q \in Rows : claim'[q].state = claim[q].state /\ claim'[q].slots = claim[q].slots
        BY <2>1, <2>2 DEF Claim
    <2> QED BY <2>2, <2>3, <1>0, QuietAlloc
<1>13. ASSUME NEW b \in Ids, CloseJob(b) \/ ReopenJob(b) \/ Lapse(b) PROVE AllocInv'
    BY <1>0, <1>13, QuietAlloc DEF CloseJob, ReopenJob, JobTurns, Lapse
<1>14. CASE UNCHANGED vars
    BY <1>0, <1>14, QuietAlloc DEF vars
<1> QED BY <1>1, <1>2, <1>3, <1>4, <1>5, <1>6, <1>7, <1>8, <1>9, <1>10, <1>11, <1>12, <1>13,
           <1>14 DEF Next

(* There is no confirmed but unallocated booking, however many desks       *)
(* confirm, extend, cancel and reallocate it at once while others prune:   *)
(* what confirm_booking promises.                                          *)
THEOREM ConfirmedHoldsItsGear == Spec => []ConfirmedIsAllocated
<1>1. AllocInv => ConfirmedIsAllocated
    BY DEF AllocInv
<1> QED BY InitAlloc, NextAlloc, <1>1, PTL DEF Spec

-----------------------------------------------------------------------------
(* Why the shelf is never promised twice over.  A call keeps the product   *)
(* lock from its look at the shelf until it ends, so no other call counts  *)
(* or adds bulk stock meanwhile, and what the others hold can only shrink. *)

(* Bookings ask for bulk stock on one line at most: two such lines are     *)
(* each looked up without the other.                                       *)
OneBulkLine ==
    \A ask \in Asks : \A i \in DOMAIN ask, j \in DOMAIN ask :
        ask[i].kind = "bulk" /\ ask[j].kind = "bulk" => i = j

(* A reservation of line i: bulk stock for a bulk line, a unit for others. *)
OfKind(ask, i, c) ==
    c.state # "none" => /\ i \in DOMAIN ask
                        /\ c.unit = NoUnit <=> ask[i].kind = "bulk"

IsBulk(c) == c.state = "confirmed" /\ c.unit = NoUnit

(* The bulk reservations that count at d, and those of everybody but t.    *)
Counted(d) ==
    {r \in Rows : /\ claim[r].state = "confirmed" /\ claim[r].unit = NoUnit
                  /\ booking[r[1]].status = "confirmed"
                  /\ d \in claim[r].slots}

Others(t, d) ==
    {r \in Rows : /\ r[1] \notin {tx[t].b} \cup tx[t].expired
                  /\ booking[r[1]].status = "confirmed"
                  /\ claim[r].state = "confirmed" /\ claim[r].unit = NoUnit
                  /\ d \in claim[r].slots}

(* Lines the open confirmation is past have their reservation.             *)
WrittenOK(t) ==
    tx[t].new.status = "confirmed" /\ booking[tx[t].b].status # "confirmed" =>
        \A i \in DOMAIN tx[t].new.ask :
            tx[t].at = "done" \/ i < tx[t].line => tx[t].writes[i].state # "none"

(* What it has reserved of the shelf fits, and the product is its own.     *)
FitsOK(t) ==
    \A i \in Lines :
        IsBulk(tx[t].writes[i]) /\ tx[t].new.status = "confirmed" =>
            /\ "bulk" \in tx[t].products
            /\ \A d \in tx[t].writes[i].slots : CoverAt(t, d) + tx[t].writes[i].qty <= OnHand

StockCallOK(t) ==
    tx[t].at \in {"lines", "done"} =>
        /\ tx[t].op # "create" => tx[t].new.ask = booking[tx[t].b].ask
        /\ tx[t].op = "create" => tx[t].new.status # "confirmed"
        /\ \A i \in Lines : OfKind(tx[t].new.ask, i, tx[t].writes[i])
        /\ WrittenOK(t) /\ FitsOK(t)

RowsOK ==
    \A b \in Ids, i \in Lines :
        /\ OfKind(booking[b].ask, i, claim[<<b, i>>])
        /\ booking[b].status = "none" => claim[<<b, i>>].state = "none"

ShelfInv ==
    /\ RowsOK /\ StockHolds
    /\ \A t \in Desks : StockCallOK(t)
    /\ \A t \in Desks, s \in Desks :
          t # s => ~("bulk" \in tx[t].products /\ "bulk" \in tx[s].products)

StockInv == AllocInv /\ ShelfInv

(* What is reserved by the rows of S, as the model sums it and as SumFn.   *)
Shelf(c, S) == MapThenSumSet(LAMBDA r : c[r].qty, S)
Qty(c) == [r \in Rows |-> c[r].qty]

LEMMA RowsAreFinite == ASSUME IsFiniteSet(Ids) PROVE IsFiniteSet(Rows)
<1>1. IsFiniteSet(Lines)
    BY BookingAssumption, FS_Interval DEF Lines
<1> QED BY <1>1, FS_Product DEF Rows

LEMMA ShelfIsSum ==
    ASSUME IsFiniteSet(Ids), NEW c \in [Rows -> Claim], NEW S \in SUBSET Rows
    PROVE  /\ Shelf(c, S) = SumFn(Qty(c), S)
           /\ IsFiniteSet(S) /\ \A r \in S : Qty(c)[r] \in Nat
<1>1. IsFiniteSet(S)
    BY RowsAreFinite, FS_Subset
<1>2. \A r \in S : Qty(c)[r] = c[r].qty /\ Qty(c)[r] \in Nat
    BY DEF Qty, Claim
<1> DEFINE Body(h, s) == IF s = {} THEN 0
                         ELSE c[CHOOSE x \in s : TRUE].qty + h[s \ {CHOOSE x \in s : TRUE}]
           it == CHOOSE h : h = [s \in SUBSET S |-> Body(h, s)]
<1>3. Shelf(c, S) = it[S]
    BY DEF Shelf, MapThenSumSet, MapThenFoldSet
<1>4. \A h : \A s \in SUBSET S : Body(h, s) = SumStep(h, Qty(c), s)
    BY <1>2 DEF SumStep, AnyOf
<1>5. PICK g \in [SUBSET S -> Int] : IsSumTable(g, Qty(c), S)
  <2>1. \A r \in S : Qty(c)[r] \in Int
      BY <1>2
  <2> QED BY <1>1, <2>1, SumTableExists
<1>6. g = [s \in SUBSET S |-> Body(g, s)]
  <2> HIDE DEF Body
  <2> QED BY <1>4, <1>5 DEF IsSumTable
<1>7. it = [s \in SUBSET S |-> Body(it, s)]
  <2> HIDE DEF Body
  <2> QED BY <1>6
<1> HIDE DEF it
<1>8. IsSumTable(it, Qty(c), S)
  <2> HIDE DEF Body
  <2> QED BY <1>4, <1>7 DEF IsSumTable
<1>9. SumFn(Qty(c), S) = it[S]
    BY <1>1, <1>2, <1>8, SumIsTables
<1> QED BY <1>1, <1>2, <1>3, <1>9

LEMMA CoverIsShelf == \A t, d : CoverAt(t, d) = Shelf(claim, Others(t, d))
BY DEF CoverAt, Shelf, Others, MapThenSumSet, MapThenFoldSet

LEMMA StockIsShelf ==
    StockHolds <=> \A d \in 1..(MaxSlot + MaxTurn) : Shelf(claim, Counted(d)) <= OnHand
BY DEF StockHolds, Shelf, Counted, MapThenSumSet, MapThenFoldSet

LEMMA StockIsShelfNext ==
    (StockHolds <=> \A d \in 1..(MaxSlot + MaxTurn) : Shelf(claim, Counted(d)) <= OnHand)'
BY DEF StockHolds, Shelf, Counted, MapThenSumSet, MapThenFoldSet

LEMMA CoverIsShelfNext == \A t, d : (CoverAt(t, d) = Shelf(claim, Others(t, d)))'
BY DEF CoverAt, Shelf, Others, MapThenSumSet, MapThenFoldSet

-----------------------------------------------------------------------------
LEMMA CoverKept ==
    ASSUME NEW s \in Desks, UNCHANGED <<booking, claim>>,
           tx'[s].b = tx[s].b, tx'[s].expired = tx[s].expired
    PROVE  \A d : CoverAt(s, d)' = CoverAt(s, d)
<1> TAKE d
<1>1. Others(s, d)' = Others(s, d)
    BY DEF Others
<1>2. Shelf(claim, Others(s, d))' = Shelf(claim, Others(s, d))
  <2> HIDE DEF Others
  <2> QED BY <1>1 DEF Shelf, MapThenSumSet, MapThenFoldSet
<1>3. (CoverAt(s, d) = Shelf(claim, Others(s, d)))'
    BY CoverIsShelfNext
<1> QED BY <1>2, <1>3, CoverIsShelf

(* A step of one open call that changes no row.                            *)
LEMMA OwnShelf ==
    ASSUME StockInv, NEW t \in Desks, UNCHANGED <<booking, claim>>,
           \A s \in Desks \ {t} : tx'[s] = tx[s], StockCallOK(t)',
           "bulk" \in tx'[t].products => "bulk" \in tx[t].products \/ ProductFree(t, "bulk")
    PROVE  ShelfInv'
<1>1. RowsOK'
    BY DEF StockInv, ShelfInv, RowsOK, OfKind
<1>2. StockHolds'
  <2>1. \A d : Counted(d)' = Counted(d)
      BY DEF Counted
  <2>2. \A d : Shelf(claim, Counted(d))' = Shelf(claim, Counted(d))
    <3> TAKE d
    <3>1. claim' = claim /\ Counted(d)' = Counted(d)
        BY <2>1
    <3> QED BY ONLY <3>1 DEF Shelf, MapThenSumSet, MapThenFoldSet
  <2>3. StockHolds
      BY DEF StockInv, ShelfInv
  <2> QED BY <2>2, <2>3, StockIsShelf, StockIsShelfNext
<1>3. ASSUME NEW s \in Desks PROVE StockCallOK(s)'
  <2>1. CASE s = t
      BY <2>1
  <2>2. CASE s # t
    <3>1. tx'[s] = tx[s] /\ StockCallOK(s)
        BY <2>2 DEF StockInv, ShelfInv
    <3>2. \A d : CoverAt(s, d)' = CoverAt(s, d)
        BY <3>1, CoverKept
    <3>3. FitsOK(s) => FitsOK(s)'
        BY <3>1, <3>2 DEF FitsOK, IsBulk
    <3>4. WrittenOK(s) => WrittenOK(s)'
        BY <3>1 DEF WrittenOK
    <3> QED BY <3>1, <3>3, <3>4 DEF StockCallOK, OfKind
  <2> QED BY <2>1, <2>2
<1>4. ASSUME NEW u \in Desks, NEW s \in Desks, u # s
      PROVE  ~("bulk" \in tx'[u].products /\ "bulk" \in tx'[s].products)
  <2>1. ~("bulk" \in tx[u].products /\ "bulk" \in tx[s].products)
      BY <1>4 DEF StockInv, ShelfInv
  <2>2. ProductFree(t, "bulk") => \A v \in Desks \ {t} : "bulk" \notin tx[v].products
      BY DEF ProductFree
  <2> QED BY <1>4, <2>1, <2>2
<1> QED BY <1>1, <1>2, <1>3, <1>4 DEF ShelfInv

(* Steps up to the lock have nothing reserved.                             *)
LEMMA BeginShelf ==
    ASSUME StockInv, NEW t \in Desks, Begin(t) PROVE ShelfInv'
<1>1. /\ UNCHANGED <<booking, claim>> /\ tx \in [Desks -> Transaction]
    BY DEF Begin, StockInv, AllocInv, BookInv, BookingTypeOK
<1>2. /\ \A s \in Desks \ {t} : tx'[s] = tx[s]
      /\ tx'[t].at \in {"lock", "see"} /\ tx'[t].products = {}
    BY <1>1 DEF Begin, Idle
<1>3. StockCallOK(t)'
    BY <1>2 DEF StockCallOK
<1> QED BY <1>1, <1>2, <1>3, OwnShelf

LEMMA PruneShelf ==
    ASSUME StockInv, NEW t \in Desks, SeeClaims(t) \/ DropClaims(t) \/ PruneBookings(t)
    PROVE  ShelfInv'
<1>1. /\ UNCHANGED <<booking, claim>> /\ tx \in [Desks -> Transaction] /\ tx[t] \in Transaction
    BY DEF SeeClaims, DropClaims, PruneBookings, StockInv, AllocInv, BookInv, BookingTypeOK
<1>2. /\ \A s \in Desks \ {t} : tx'[s] = tx[s]
      /\ tx'[t].at \in {"drop", "prune", "lock"} /\ tx'[t].products = tx[t].products
    BY <1>1 DEF SeeClaims, DropClaims, PruneBookings, Transaction
<1>3. StockCallOK(t)'
    BY <1>2 DEF StockCallOK
<1> QED BY <1>1, <1>2, <1>3, OwnShelf

(* A pencil claims what its lines name.                                    *)
LEMMA CreateShelf ==
    ASSUME StockInv, NEW t \in Desks, Create(t) PROVE ShelfInv'
<1>0. BookInv /\ tx \in [Desks -> Transaction] /\ tx[t] \in Transaction
    BY DEF StockInv, AllocInv, BookInv, BookingTypeOK
<1>1. UNCHANGED <<booking, claim>> /\ tx[t].op = "create"
    BY DEF Create
<1>2. PICK ask \in Asks, st \in {"draft", "pencil"}, turn \in 0..MaxTurn, from \in 1..MaxSlot :
    \E until \in from..MaxSlot :
      LET bk == [status |-> st, from |-> from, until |-> until, turn |-> turn,
                 ask |-> ask]
      IN tx' = [tx EXCEPT
            ![t].at = "done", ![t].new = bk, ![t].wrote = TRUE,
            ![t].writes = [i \in Lines |->
                IF st = "pencil" /\ i <= Len(ask) /\ ask[i].kind # "any"
                THEN [state |-> "pencil", unit |-> ask[i].unit, qty |-> ask[i].qty,
                      slots |-> Blocked(bk)]
                ELSE NoClaim]]
    BY DEF Create
<1>3. PICK until \in from..MaxSlot :
      LET bk == [status |-> st, from |-> from, until |-> until, turn |-> turn,
                 ask |-> ask]
      IN tx' = [tx EXCEPT
            ![t].at = "done", ![t].new = bk, ![t].wrote = TRUE,
            ![t].writes = [i \in Lines |->
                IF st = "pencil" /\ i <= Len(ask) /\ ask[i].kind # "any"
                THEN [state |-> "pencil", unit |-> ask[i].unit, qty |-> ask[i].qty,
                      slots |-> Blocked(bk)]
                ELSE NoClaim]]
    BY <1>2
<1> DEFINE bk == [status |-> st, from |-> from, until |-> until, turn |-> turn, ask |-> ask]
           w == [i \in Lines |->
                    IF st = "pencil" /\ i <= Len(ask) /\ ask[i].kind # "any"
                    THEN [state |-> "pencil", unit |-> ask[i].unit, qty |-> ask[i].qty,
                          slots |-> Blocked(bk)]
                    ELSE NoClaim]
<1>4. tx' = [tx EXCEPT ![t].at = "done", ![t].new = bk, ![t].wrote = TRUE, ![t].writes = w]
    BY <1>3
<1>5. bk.status \in {"draft", "pencil"} /\ bk.ask = ask
    OBVIOUS
<1>6. ASSUME NEW i \in Lines PROVE OfKind(ask, i, w[i]) /\ w[i].state # "confirmed"
  <2>1. ask \in Seq(Line) /\ i \in Nat \ {0}
      BY AsksAssumption, BookingAssumption DEF Lines
  <2>2. CASE i <= Len(ask) /\ ask[i].kind # "any"
    <3>1. i \in DOMAIN ask /\ ask[i] \in Line
        BY <2>1, <2>2
    <3>2. (ask[i].unit = NoUnit) <=> (ask[i].kind = "bulk")
        BY <2>2, <3>1, BookingAssumption DEF Line
    <3> QED BY <3>1, <3>2 DEF OfKind, NoClaim
  <2>3. CASE ~(i <= Len(ask) /\ ask[i].kind # "any")
      BY <2>3 DEF OfKind, NoClaim
  <2> QED BY <2>2, <2>3
<1> HIDE DEF bk, w
<1>7. /\ \A s \in Desks \ {t} : tx'[s] = tx[s]
      /\ tx'[t].at = "done" /\ tx'[t].new = bk /\ tx'[t].writes = w /\ tx'[t].op = tx[t].op
      /\ tx'[t].products = tx[t].products
    BY <1>0, <1>4 DEF Transaction
<1>8. StockCallOK(t)'
    BY <1>1, <1>5, <1>6, <1>7 DEF StockCallOK, WrittenOK, FitsOK, IsBulk
<1> QED BY <1>1, <1>7, <1>8, OwnShelf

(* The calls that lock their booking start with nothing written.           *)
LEMMA LockedShelf ==
    ASSUME StockInv, NEW t \in Desks, NEW op, Locks(t, op)
    PROVE  /\ tx \in [Desks -> Transaction] /\ tx[t] \in Transaction
           /\ tx[t].b \in Ids /\ booking[tx[t].b] \in BookingRow /\ tx[t].line = 1
           /\ tx[t].op = op /\ \A i \in Lines : tx[t].writes[i] = NoClaim
BY DEF StockInv, AllocInv, BookInv, BookingTypeOK, CallOK, Locks

LEMMA PlainShelf ==
    ASSUME StockInv, NEW t \in Desks, StartConfirm(t) \/ Cancel(t) \/ Convert(t)
    PROVE  ShelfInv'
<1>1. PICK op \in {"confirm", "cancel", "convert"} : Locks(t, op)
    BY DEF StartConfirm, Cancel, Convert
<1>2. UNCHANGED <<booking, claim>>
    BY DEF StartConfirm, Cancel, Convert
<1>3. /\ \A s \in Desks \ {t} : tx'[s] = tx[s]
      /\ tx'[t].op = op /\ tx'[t].b = tx[t].b /\ tx'[t].products = tx[t].products
      /\ tx'[t].writes = tx[t].writes /\ tx'[t].new.ask = booking[tx[t].b].ask
      /\ tx'[t].line = 1
      /\ \/ tx'[t].at = "lines"
         \/ tx'[t].at = "done" /\ (tx'[t].new.status = "confirmed" =>
                                      booking[tx[t].b].status = "confirmed")
  <2>1. /\ tx \in [Desks -> Transaction] /\ tx[t] \in Transaction
        /\ booking[tx[t].b] \in BookingRow /\ tx[t].op = op /\ tx[t].line = 1
      BY <1>1, LockedShelf
  <2>2. CASE StartConfirm(t)
    <3>1. PICK turn \in 0..MaxTurn :
            tx' = [tx EXCEPT ![t].at = "lines",
                             ![t].new = [booking[tx[t].b] EXCEPT !.status = "confirmed",
                                                                 !.turn = turn]]
        BY <2>2 DEF StartConfirm
    <3> DEFINE bk == [booking[tx[t].b] EXCEPT !.status = "confirmed", !.turn = turn]
    <3>2. bk.ask = booking[tx[t].b].ask
        BY <2>1 DEF BookingRow
    <3>3. tx' = [tx EXCEPT ![t].at = "lines", ![t].new = bk]
        BY <3>1
    <3> HIDE DEF bk
    <3>4. /\ \A s \in Desks \ {t} : tx'[s] = tx[s]
          /\ tx'[t].op = tx[t].op /\ tx'[t].b = tx[t].b /\ tx'[t].products = tx[t].products
          /\ tx'[t].writes = tx[t].writes /\ tx'[t].line = tx[t].line
          /\ tx'[t].at = "lines" /\ tx'[t].new = bk
        BY <2>1, <3>3 DEF Transaction
    <3> QED BY <2>1, <3>2, <3>4
  <2>3. CASE Cancel(t)
    <3> DEFINE l == {r \in Rows : r[1] = tx[t].b /\ claim[r].state # "none"}
    <3>1. tx' = [tx EXCEPT ![t].at = "done", ![t].wrote = TRUE,
                            ![t].new = [booking[tx[t].b] EXCEPT !.status = "cancelled"],
                            ![t].drops = @ \cup l]
        BY <2>3 DEF Cancel
    <3> HIDE DEF l
    <3>2. tx'[t].new = [booking[tx[t].b] EXCEPT !.status = "cancelled"] /\ tx'[t].at = "done"
        BY <2>1, <3>1 DEF Transaction
    <3>3. tx'[t].new.status # "confirmed" /\ tx'[t].new.ask = booking[tx[t].b].ask
        BY <2>1, <3>2 DEF BookingRow
    <3>4. /\ \A s \in Desks \ {t} : tx'[s] = tx[s]
          /\ tx'[t].op = op /\ tx'[t].b = tx[t].b /\ tx'[t].products = tx[t].products
          /\ tx'[t].writes = tx[t].writes /\ tx'[t].line = 1
        BY <2>1, <3>1 DEF Transaction
    <3> QED BY <3>2, <3>3, <3>4
  <2>4. CASE Convert(t)
      BY <2>1, <2>4 DEF Convert, Transaction, BookingRow
  <2> QED BY <2>2, <2>3, <2>4
<1>4. \A i \in Lines : tx'[t].writes[i] = NoClaim
    BY <1>1, <1>3, LockedShelf
<1>5. tx'[t].new.ask \in Asks \cup {<<>>}
    BY <1>1, <1>3, LockedShelf DEF BookingRow
<1>6. tx'[t].at = "lines" => \A i \in DOMAIN tx'[t].new.ask : ~(i < 1)
    BY <1>5, AsksAssumption
<1>7. WrittenOK(t)'
    BY <1>2, <1>3, <1>6 DEF WrittenOK
<1>8. StockCallOK(t)'
    BY <1>2, <1>3, <1>4, <1>7 DEF StockCallOK, FitsOK, IsBulk, OfKind, NoClaim
<1> QED BY <1>2, <1>3, <1>8, OwnShelf

(* A bulk line that is confirmed found room on the shelf.                  *)
LEMMA ConfirmLineShelf ==
    ASSUME StockInv, NEW t \in Desks, ConfirmLine(t) PROVE ShelfInv'
<1> DEFINE i == tx[t].line
           n == Len(tx[t].new.ask)
           line == tx[t].new.ask[i]
<1>1. /\ UNCHANGED <<booking, claim>> /\ tx[t].at = "lines" /\ tx[t].b \in Ids
      /\ i \in DOMAIN tx[t].new.ask /\ i \in Lines /\ tx[t].new.ask \in Asks
      /\ tx \in [Desks -> Transaction] /\ tx[t] \in Transaction
    BY ConstantFacts DEF ConfirmLine, StockInv, AllocInv, BookInv, BookingTypeOK, CallOK
<1>2. line \in Line
    BY <1>1, ConstantFacts
<1>3. PICK u \in Units \cup {NoUnit} :
         LET c == [state |-> "confirmed", unit |-> u, qty |-> line.qty,
                   slots |-> Blocked(tx[t].new)]
         IN  /\ LineClaim(t, i, c)
             /\ tx' = [tx EXCEPT
                   ![t].at = IF i = n THEN "done" ELSE "lines",
                   ![t].line = IF i = n THEN i ELSE i + 1,
                   ![t].writes[i] = c, ![t].wrote = TRUE,
                   ![t].products = @ \cup ProductOf(line.kind)]
    BY DEF ConfirmLine
<1> DEFINE c == [state |-> "confirmed", unit |-> u, qty |-> line.qty,
                 slots |-> Blocked(tx[t].new)]
<1>4. c.state = "confirmed" /\ c.unit = u /\ c.qty = line.qty /\ c.slots = Blocked(tx[t].new)
    OBVIOUS
<1>5. /\ LineClaim(t, i, c)
      /\ tx' = [tx EXCEPT
            ![t].at = IF i = n THEN "done" ELSE "lines",
            ![t].line = IF i = n THEN i ELSE i + 1,
            ![t].writes[i] = c, ![t].wrote = TRUE,
            ![t].products = @ \cup ProductOf(line.kind)]
    BY <1>3
<1> HIDE DEF c
<1>6. /\ \A s \in Desks \ {t} : tx'[s] = tx[s]
      /\ tx'[t].op = tx[t].op /\ tx'[t].b = tx[t].b /\ tx'[t].expired = tx[t].expired
      /\ tx'[t].new = tx[t].new
      /\ \/ tx'[t].at = "done" /\ i = n
         \/ tx'[t].at = "lines" /\ tx'[t].line = i + 1
      /\ tx'[t].writes = [tx[t].writes EXCEPT ![i] = c]
      /\ tx'[t].products = tx[t].products \cup ProductOf(line.kind)
    <2> DEFINE a == IF i = n THEN "done" ELSE "lines"
               l == IF i = n THEN i ELSE i + 1
               p == tx[t].products \cup ProductOf(line.kind)
               w == [tx[t].writes EXCEPT ![i] = c]
    <2>1. tx' = [tx EXCEPT ![t] = [tx[t] EXCEPT !.at = a, !.line = l, !.writes = w,
                                                !.wrote = TRUE, !.products = p]]
        <3> HIDE DEF a, l, p
        <3> QED BY <1>1, <1>5 DEF a, l, p, Transaction
    <2>2. (a = "done" /\ i = n) \/ (a = "lines" /\ l = i + 1)
        OBVIOUS
    <2> HIDE DEF a, l, p, w
    <2>3. /\ \A s \in Desks \ {t} : tx'[s] = tx[s]
          /\ tx'[t].op = tx[t].op /\ tx'[t].b = tx[t].b /\ tx'[t].expired = tx[t].expired
          /\ tx'[t].at = a /\ tx'[t].new = tx[t].new /\ tx'[t].line = l
          /\ tx'[t].products = p /\ tx'[t].writes = w
        BY <1>1, <2>1 DEF Transaction
    <2> QED BY <2>2, <2>3 DEF p, w
<1>7. tx'[t].writes[i] = c /\ \A j \in Lines : j # i => tx'[t].writes[j] = tx[t].writes[j]
    BY <1>1, <1>6 DEF Transaction
<1>8. \A d : CoverAt(t, d)' = CoverAt(t, d)
    BY <1>1, <1>6, CoverKept
<1>9. StockCallOK(t) /\ RowsOK
    BY DEF StockInv, ShelfInv
<1>10. /\ u = NoUnit <=> line.kind = "bulk"
       /\ line.kind = "bulk" => ProductFree(t, "bulk") /\ StockFits(t, line.qty, Blocked(tx[t].new))
  <2>1. CASE line.kind = "unit"
    <3>1. u = (IF claim[<<tx[t].b, i>>].state # "none"
               THEN claim[<<tx[t].b, i>>].unit ELSE line.unit)
        BY <1>4, <1>5, <2>1 DEF LineClaim
    <3>2. line.unit # NoUnit
        BY <1>2, <2>1, BookingAssumption DEF Line
    <3>3. tx[t].op # "create" => tx[t].new.ask = booking[tx[t].b].ask
        BY <1>1, <1>9 DEF StockCallOK
    <3>4. claim[<<tx[t].b, i>>].state # "none" => tx[t].op # "create"
        BY <1>1, <1>9 DEF RowsOK, StockInv, AllocInv, HoldInv
    <3>5. claim[<<tx[t].b, i>>].state # "none" => claim[<<tx[t].b, i>>].unit # NoUnit
        BY <1>1, <1>9, <2>1, <3>3, <3>4, SMTT(30) DEF RowsOK, OfKind
    <3> QED BY <2>1, <3>1, <3>2, <3>5, SMTT(30)
  <2>2. CASE line.kind = "any"
      BY <1>4, <1>5, <2>2, BookingAssumption DEF LineClaim
  <2>3. CASE line.kind = "bulk"
      BY <1>4, <1>5, <2>3 DEF LineClaim
  <2> QED BY <1>2, <2>1, <2>2, <2>3 DEF Line
<1>11. ASSUME NEW j \in Lines PROVE OfKind(tx[t].new.ask, j, tx'[t].writes[j])
  <2>1. CASE j = i
      BY <1>1, <1>4, <1>7, <1>10, <2>1 DEF OfKind
  <2>2. CASE j # i
      BY <1>1, <1>7, <1>9, <2>2 DEF StockCallOK
  <2> QED BY <2>1, <2>2
<1>12. WrittenOK(t)'
  <2>1. SUFFICES ASSUME tx[t].new.status = "confirmed", booking[tx[t].b].status # "confirmed",
                        NEW j \in DOMAIN tx[t].new.ask,
                        tx'[t].at = "done" \/ j < tx'[t].line
                 PROVE  tx'[t].writes[j].state # "none"
      BY <1>1, <1>6 DEF WrittenOK
  <2>2. j \in Lines /\ j \in 1..n /\ n \in Nat /\ i \in Nat
      BY <1>1, <2>1, AsksAssumption, ConstantFacts DEF Lines
  <2>3. CASE j = i
      BY <1>4, <1>7, <2>2, <2>3
  <2>4. CASE j # i
    <3>1. j < i
        BY <1>6, <2>1, <2>2, <2>4
    <3>2. tx[t].writes[j].state # "none"
        BY <1>1, <1>9, <2>1, <3>1 DEF StockCallOK, WrittenOK
    <3> QED BY <1>7, <2>2, <2>4, <3>2
  <2> QED BY <2>3, <2>4
<1>13. FitsOK(t)'
  <2>1. SUFFICES ASSUME NEW j \in Lines, IsBulk(tx'[t].writes[j]), tx[t].new.status = "confirmed"
                 PROVE  /\ "bulk" \in tx'[t].products
                        /\ \A d \in tx'[t].writes[j].slots :
                              CoverAt(t, d)' + tx'[t].writes[j].qty <= OnHand
      BY <1>6 DEF FitsOK, IsBulk
  <2>2. CASE j = i
    <3>1. line.kind = "bulk" /\ tx'[t].writes[j] = c
        BY <1>4, <1>7, <1>10, <2>1, <2>2 DEF IsBulk
    <3>2. StockFits(t, line.qty, Blocked(tx[t].new)) /\ "bulk" \in ProductOf(line.kind)
        BY <1>10, <3>1 DEF ProductOf
    <3> QED BY <1>4, <1>6, <1>8, <3>1, <3>2 DEF StockFits
  <2>3. CASE j # i
    <3>1. tx'[t].writes[j] = tx[t].writes[j]
        BY <1>7, <2>3
    <3>2. /\ "bulk" \in tx[t].products
          /\ \A d \in tx[t].writes[j].slots : CoverAt(t, d) + tx[t].writes[j].qty <= OnHand
        BY <1>1, <1>9, <2>1, <3>1 DEF StockCallOK, FitsOK
    <3> QED BY <1>6, <1>8, <3>1, <3>2
  <2> QED BY <2>2, <2>3
<1>14. StockCallOK(t)'
  <2>1. /\ tx[t].op # "create" => tx[t].new.ask = booking[tx[t].b].ask
        /\ tx[t].op = "create" => tx[t].new.status # "confirmed"
      BY <1>1, <1>9 DEF StockCallOK
  <2> QED BY <1>1, <1>6, <1>11, <1>12, <1>13, <2>1 DEF StockCallOK, OfKind
<1>15. "bulk" \in tx'[t].products => "bulk" \in tx[t].products \/ ProductFree(t, "bulk")
    BY <1>6, <1>10 DEF ProductOf
<1> QED BY <1>1, <1>6, <1>14, <1>15, OwnShelf

(* An extension looked at the shelf for the whole of its new window.       *)
LEMMA ExtendShelf ==
    ASSUME StockInv, NEW t \in Desks, Extend(t) PROVE ShelfInv'
<1> DEFINE b == tx[t].b
           live == {r \in Rows : r[1] = b /\ claim[r].state # "none"}
           bulk == {r \in live : claim[r].unit = NoUnit /\ claim[r].state = "confirmed"}
<1>1. /\ UNCHANGED <<booking, claim>> /\ Locks(t, "extend")
      /\ bulk # {} => ProductFree(t, "bulk")
    BY DEF Extend
<1>2. /\ tx \in [Desks -> Transaction] /\ tx[t] \in Transaction
      /\ b \in Ids /\ booking[b] \in BookingRow /\ tx[t].op = "extend"
      /\ \A i \in Lines : tx[t].writes[i] = NoClaim
      /\ claim \in [Rows -> Claim] /\ RowsOK
    BY <1>1, LockedShelf, SMTT(30) DEF StockInv, AllocInv, BookInv, BookingTypeOK, ShelfInv
<1>3. PICK until \in booking[b].from..MaxSlot :
        LET bk == [booking[b] EXCEPT !.until = until]
        IN  IF Collides(t, live, bk)
            THEN tx' = [tx EXCEPT ![t].at = "done", ![t].new = booking[b]]
            ELSE tx' = [tx EXCEPT
                    ![t].at = "done", ![t].new = bk, ![t].wrote = TRUE,
                    ![t].writes = [i \in Lines |->
                        IF <<b, i>> \in live THEN Moved(<<b, i>>, bk) ELSE NoClaim],
                    ![t].products = IF bulk = {} THEN {} ELSE {"bulk"}]
    BY DEF Extend
<1> DEFINE bk == [booking[b] EXCEPT !.until = until]
           w == [i \in Lines |-> IF <<b, i>> \in live THEN Moved(<<b, i>>, bk) ELSE NoClaim]
           p == IF bulk = {} THEN {} ELSE {"bulk"}
<1>4. \/ tx' = [tx EXCEPT ![t].at = "done", ![t].new = booking[b]]
      \/ /\ tx' = [tx EXCEPT ![t].at = "done", ![t].new = bk, ![t].wrote = TRUE,
                             ![t].writes = w, ![t].products = p]
         /\ ~Collides(t, live, bk)
    BY <1>3
<1>5. bk.status = booking[b].status /\ bk.ask = booking[b].ask
    BY <1>2 DEF BookingRow
<1> HIDE DEF bk
<1>6. \A i \in Lines : w[i] = IF <<b, i>> \in live THEN Moved(<<b, i>>, bk) ELSE NoClaim
    OBVIOUS
<1> HIDE DEF w
<1>7. "bulk" \in p => bulk # {}
    OBVIOUS
<1>8. bulk # {} => "bulk" \in p
    OBVIOUS
<1> HIDE DEF p
<1>9. /\ \A s \in Desks \ {t} : tx'[s] = tx[s]
      /\ tx'[t].op = "extend" /\ tx'[t].b = b /\ tx'[t].expired = tx[t].expired
      /\ tx'[t].at = "done"
      /\ \/ /\ tx'[t].new = booking[b] /\ tx'[t].writes = tx[t].writes
            /\ tx'[t].products = tx[t].products
         \/ /\ tx'[t].new = bk /\ tx'[t].writes = w /\ tx'[t].products = p
            /\ ~Collides(t, live, bk)
    BY <1>2, <1>4 DEF Transaction
<1>10. tx'[t].new.status = booking[b].status /\ tx'[t].new.ask = booking[b].ask
    BY <1>5, <1>9
<1>11. ASSUME NEW i \in Lines
       PROVE  \/ w[i] = NoClaim
              \/ /\ <<b, i>> \in live /\ w[i].state = claim[<<b, i>>].state
                 /\ w[i].unit = claim[<<b, i>>].unit /\ w[i].qty = claim[<<b, i>>].qty
                 /\ w[i].slots = Blocked(bk)
  <2>1. CASE <<b, i>> \in live
    <3>1. claim[<<b, i>>] \in Claim
        BY <1>2, <2>1
    <3> QED BY <1>6, <2>1, <3>1 DEF Moved, Claim
  <2>2. CASE <<b, i>> \notin live
      BY <1>6, <2>2
  <2> QED BY <2>1, <2>2
<1>12. ASSUME NEW i \in Lines PROVE OfKind(booking[b].ask, i, tx'[t].writes[i])
  <2>1. OfKind(booking[b].ask, i, NoClaim) /\ OfKind(booking[b].ask, i, claim[<<b, i>>])
      BY <1>2 DEF OfKind, NoClaim, RowsOK
  <2>2. OfKind(booking[b].ask, i, w[i])
      BY <1>11, <2>1 DEF OfKind
  <2> QED BY <1>2, <1>9, <2>1, <2>2
<1>13. FitsOK(t)'
  <2>1. SUFFICES ASSUME NEW i \in Lines, IsBulk(tx'[t].writes[i])
                 PROVE  /\ "bulk" \in tx'[t].products
                        /\ \A d \in tx'[t].writes[i].slots :
                              CoverAt(t, d)' + tx'[t].writes[i].qty <= OnHand
      BY DEF FitsOK, IsBulk
  <2>2. /\ tx'[t].writes = w /\ tx'[t].products = p /\ ~Collides(t, live, bk)
      BY <1>2, <1>9, <2>1 DEF IsBulk, NoClaim
  <2>3. /\ <<b, i>> \in live /\ w[i].state = claim[<<b, i>>].state
        /\ w[i].unit = claim[<<b, i>>].unit /\ w[i].qty = claim[<<b, i>>].qty
        /\ w[i].slots = Blocked(bk)
      BY <1>11, <2>1, <2>2 DEF IsBulk, NoClaim
  <2>4. <<b, i>> \in bulk /\ "bulk" \in p
      BY <1>8, <2>1, <2>2, <2>3 DEF IsBulk
  <2>5. StockFits(t, claim[<<b, i>>].qty, Blocked(bk))
    <3> HIDE DEF live, b
    <3>1. claim[<<b, i>>].state = "confirmed" /\ claim[<<b, i>>].unit = NoUnit
        BY <2>1, <2>2, <2>3 DEF IsBulk
    <3> QED BY <2>2, <2>3, <3>1 DEF Collides
  <2>6. \A d : CoverAt(t, d)' = CoverAt(t, d)
      BY <1>1, <1>9, CoverKept
  <2> QED BY <2>2, <2>3, <2>4, <2>5, <2>6 DEF StockFits
<1>14. StockCallOK(t)'
    BY <1>1, <1>9, <1>10, <1>12, <1>13 DEF StockCallOK, WrittenOK, OfKind
<1>15. "bulk" \in tx'[t].products => "bulk" \in tx[t].products \/ ProductFree(t, "bulk")
    BY <1>1, <1>7, <1>9
<1> QED BY <1>1, <1>9, <1>14, <1>15, OwnShelf

-----------------------------------------------------------------------------
(* What is on the shelf for t after rows of others have gone.              *)
LEMMA ShrunkShelf ==
    ASSUME IsFiniteSet(Ids), claim \in [Rows -> Claim], claim' \in [Rows -> Claim],
           NEW S \in SUBSET Rows, NEW R \in SUBSET S, \A r \in R : claim'[r] = claim[r]
    PROVE  Shelf(claim', R) \in Nat /\ Shelf(claim, S) \in Nat /\ Shelf(claim', R) <= Shelf(claim, S)
<1>1. /\ Shelf(claim', R) = SumFn(Qty(claim'), R) /\ IsFiniteSet(R)
      /\ \A r \in R : Qty(claim')[r] \in Nat
    BY ShelfIsSum
<1>2. /\ Shelf(claim, S) = SumFn(Qty(claim), S) /\ IsFiniteSet(S)
      /\ \A r \in S : Qty(claim)[r] \in Nat
    BY ShelfIsSum
<1>3. \A r \in R : Qty(claim')[r] = Qty(claim)[r] /\ Qty(claim')[r] \in Int
  <2>1. \A r \in R : Qty(claim')[r] = claim'[r].qty /\ Qty(claim)[r] = claim[r].qty
      BY DEF Qty
  <2> QED BY <1>1, <2>1
<1>4. SumFn(Qty(claim'), R) = SumFn(Qty(claim), R)
    BY <1>1, <1>3, SumCong
<1>5. SumFn(Qty(claim), R) \in Nat /\ SumFn(Qty(claim), S) \in Nat
      /\ SumFn(Qty(claim), R) <= SumFn(Qty(claim), S)
    BY <1>2, SumWithin
<1> QED BY <1>1, <1>2, <1>4, <1>5

(* An open call is as it was when its booking is, and when no one else's   *)
(* bulk stock has come to count against the product it has locked.         *)
LEMMA OthersShelf ==
    ASSUME StockInv, BookInv', IsFiniteSet(Ids), NEW s \in Desks, tx'[s] = tx[s],
           tx[s].at \in {"lines", "done"} => booking'[tx[s].b] = booking[tx[s].b],
           "bulk" \in tx[s].products =>
               \A d : \A r \in Others(s, d)' : r \in Others(s, d) /\ claim'[r] = claim[r]
    PROVE  StockCallOK(s)'
<1>1. StockCallOK(s) /\ claim \in [Rows -> Claim] /\ claim' \in [Rows -> Claim]
      /\ tx[s] \in Transaction
    BY DEF StockInv, ShelfInv, AllocInv, BookInv, BookingTypeOK
<1>2. ASSUME "bulk" \in tx[s].products, NEW d
      PROVE  CoverAt(s, d)' \in Nat /\ CoverAt(s, d) \in Nat /\ CoverAt(s, d)' <= CoverAt(s, d)
  <2>1. /\ Others(s, d) \in SUBSET Rows /\ Others(s, d)' \in SUBSET Others(s, d)
        /\ \A r \in Others(s, d)' : claim'[r] = claim[r]
    <3>1. Others(s, d) \in SUBSET Rows
        BY DEF Others
    <3>2. \A r \in Others(s, d)' : r \in Others(s, d) /\ claim'[r] = claim[r]
        BY <1>2
    <3> HIDE DEF Others
    <3> QED BY <3>1, <3>2
  <2> DEFINE S == Others(s, d)
             R == Others(s, d)'
  <2>2. /\ S \in SUBSET Rows /\ R \in SUBSET S /\ \A r \in R : claim'[r] = claim[r]
      BY <2>1
  <2>3. CoverAt(s, d) = Shelf(claim, S)
      BY CoverIsShelf
  <2>4. CoverAt(s, d)' = Shelf(claim', R)
    <3>1. (CoverAt(s, d) = Shelf(claim, Others(s, d)))'
        BY CoverIsShelfNext
    <3> QED BY <3>1
  <2> HIDE DEF S, R
  <2> QED BY <1>1, <2>2, <2>3, <2>4, ShrunkShelf
<1>3. tx[s].at \in {"lines", "done"} /\ FitsOK(s) => FitsOK(s)'
  <2>1. SUFFICES ASSUME FitsOK(s), NEW i \in Lines, IsBulk(tx[s].writes[i]),
                        tx[s].new.status = "confirmed"
                 PROVE  /\ "bulk" \in tx[s].products
                        /\ \A d \in tx[s].writes[i].slots :
                              CoverAt(s, d)' + tx[s].writes[i].qty <= OnHand
      BY DEF FitsOK, IsBulk
  <2>2. /\ "bulk" \in tx[s].products /\ tx[s].writes[i].qty \in Nat
        /\ \A d \in tx[s].writes[i].slots : CoverAt(s, d) + tx[s].writes[i].qty <= OnHand
    <3>1. tx[s].writes[i] \in Claim
        BY <1>1 DEF Transaction
    <3> QED BY <2>1, <3>1 DEF FitsOK, Claim
  <2> QED BY <1>2, <2>2, BookingAssumption
<1>4. tx[s].at \in {"lines", "done"} /\ WrittenOK(s) => WrittenOK(s)'
    BY DEF WrittenOK
<1> QED BY <1>1, <1>3, <1>4 DEF StockCallOK, OfKind

(* A bulk reservation that counts after a commit counted before, or is one *)
(* the call has found room for.                                            *)
LEMMA CommittedRows ==
    ASSUME StockInv, NEW t \in Desks, Commit(t), NEW r \in Rows,
           claim'[r].state = "confirmed", claim'[r].unit = NoUnit,
           booking'[r[1]].status = "confirmed"
    PROVE  /\ r[1] = tx[t].b \/ r[1] \notin tx[t].expired
           /\ r[1] = tx[t].b => /\ tx[t].new.ask \in Asks /\ r[2] \in DOMAIN tx[t].new.ask
                                /\ tx[t].new.ask[r[2]].kind = "bulk"
           /\ \/ claim'[r] = claim[r] /\ booking[r[1]].status = "confirmed"
              \/ /\ r[1] = tx[t].b /\ claim'[r] = tx[t].writes[r[2]]
                 /\ IsBulk(tx[t].writes[r[2]]) /\ tx[t].new.status = "confirmed"
<1> DEFINE b == tx[t].b
           i == r[2]
<1>0. BookInv /\ RowsOK /\ StockCallOK(t)
    BY DEF StockInv, AllocInv, ShelfInv
<1>1. /\ tx[t].at = "done" /\ claim'[r] = View(t, r)
      /\ \A x \in Ids : booking'[x] =
             IF x = b THEN tx[t].new
             ELSE IF x \in tx[t].expired THEN [booking[x] EXCEPT !.status = "cancelled"]
             ELSE booking[x]
      /\ b \in Ids /\ booking \in [Ids -> BookingRow] /\ tx[t].new.ask \in Asks
    BY <1>0 DEF Commit, BookInv, BookingTypeOK, CallOK
<1>2. r[1] \in Ids /\ i \in Lines /\ r = <<r[1], i>>
    BY DEF Rows
<1>3. claim'[r] # NoClaim
    BY DEF NoClaim
<1>4. r \notin tx[t].drops
    BY <1>1, <1>3 DEF View
<1>5. CASE r[1] # b
  <2>1. claim'[r] = claim[r]
      BY <1>1, <1>4, <1>5 DEF View
  <2>2. r[1] \notin tx[t].expired /\ booking[r[1]].status = "confirmed"
      BY <1>1, <1>2, <1>5 DEF BookingRow
  <2> QED BY <1>5, <2>1, <2>2
<1>6. CASE r[1] = b
  <2>1. tx[t].new.status = "confirmed"
      BY <1>1, <1>6
  <2>2. tx[t].new.ask = booking[b].ask /\ OfKind(tx[t].new.ask, i, tx[t].writes[i])
      BY <1>0, <1>1, <1>2, <2>1 DEF StockCallOK
  <2>3. OfKind(booking[b].ask, i, claim[r])
      BY <1>0, <1>2, <1>6 DEF RowsOK
  <2>4. CASE tx[t].writes[i].state # "none"
    <3>1. claim'[r] = tx[t].writes[i]
        BY <1>1, <1>4, <1>6, <2>4 DEF View
    <3>2. i \in DOMAIN tx[t].new.ask /\ tx[t].new.ask[i].kind = "bulk"
        BY <2>2, <2>4, <3>1 DEF OfKind
    <3> QED BY <1>1, <1>6, <2>1, <3>1, <3>2 DEF IsBulk
  <2>5. CASE tx[t].writes[i].state = "none"
    <3>1. claim'[r] = claim[r]
        BY <1>1, <1>4, <1>6, <2>5 DEF View
    <3>2. i \in DOMAIN tx[t].new.ask /\ tx[t].new.ask[i].kind = "bulk"
        BY <2>2, <2>3, <3>1 DEF OfKind
    <3>3. booking[b].status = "confirmed"
        BY <1>0, <1>1, <2>1, <2>5, <3>2 DEF StockCallOK, WrittenOK
    <3> QED BY <1>1, <1>6, <3>1, <3>2, <3>3
  <2> QED BY <2>4, <2>5
<1> QED BY <1>5, <1>6

(* So the shelf holds what the commit leaves reserved.                     *)
LEMMA CommitHolds ==
    ASSUME StockInv, BookInv', OneBulkLine, IsFiniteSet(Ids), NEW t \in Desks, Commit(t)
    PROVE  StockHolds'
<1>0. claim \in [Rows -> Claim] /\ claim' \in [Rows -> Claim] /\ StockCallOK(t) /\ tx[t].at = "done"
      /\ tx[t] \in Transaction
    BY DEF StockInv, ShelfInv, AllocInv, BookInv, BookingTypeOK, Commit
<1>1. ASSUME NEW d \in 1..(MaxSlot + MaxTurn) PROVE Shelf(claim', Counted(d)') <= OnHand
  <2>1. \A r \in Counted(d)' :
           /\ r \in Rows /\ claim'[r].state = "confirmed" /\ claim'[r].unit = NoUnit
           /\ booking'[r[1]].status = "confirmed" /\ d \in claim'[r].slots
      BY DEF Counted
  <2> DEFINE S == Counted(d)'
             Old(r) == claim'[r] = claim[r] /\ booking[r[1]].status = "confirmed"
             New(r) == /\ r[1] = tx[t].b /\ claim'[r] = tx[t].writes[r[2]]
                       /\ IsBulk(tx[t].writes[r[2]]) /\ tx[t].new.status = "confirmed"
  <2>2. \A r \in S : /\ r[1] = tx[t].b \/ r[1] \notin tx[t].expired
                     /\ r[1] = tx[t].b => /\ tx[t].new.ask \in Asks /\ r[2] \in DOMAIN tx[t].new.ask
                                          /\ tx[t].new.ask[r[2]].kind = "bulk"
                     /\ Old(r) \/ New(r)
      BY <2>1, CommittedRows
  <2>3. \A r \in S : Old(r) => r \in Counted(d)
      BY <2>1 DEF Counted
  <2>4. CASE \A r \in S : Old(r)
    <3>1. S \in SUBSET Counted(d) /\ Counted(d) \in SUBSET Rows /\ \A r \in S : claim'[r] = claim[r]
        BY <2>3, <2>4 DEF Counted
    <3>2. Shelf(claim, Counted(d)) <= OnHand
        BY StockIsShelf DEF StockInv, ShelfInv
    <3> HIDE DEF S
    <3>3. Shelf(claim', S) \in Nat /\ Shelf(claim, Counted(d)) \in Nat
          /\ Shelf(claim', S) <= Shelf(claim, Counted(d))
      <4> DEFINE C == Counted(d)
      <4>1. C \in SUBSET Rows /\ S \in SUBSET C /\ \A r \in S : claim'[r] = claim[r]
          BY <3>1
      <4> HIDE DEF C
      <4>2. Shelf(claim', S) \in Nat /\ Shelf(claim, C) \in Nat /\ Shelf(claim', S) <= Shelf(claim, C)
          BY <1>0, <4>1, ShrunkShelf
      <4> QED BY <4>2 DEF C
    <3>4. Shelf(claim', S) <= OnHand
        BY <3>2, <3>3, BookingAssumption
    <3> QED BY <3>4 DEF S
  <2>5. CASE \E r \in S : New(r)
    <3>1. PICK q \in S : New(q)
        BY <2>5
    <3>2. q \in Rows /\ q[2] \in Lines /\ d \in tx[t].writes[q[2]].slots /\ tx[t].writes[q[2]] \in Claim
      <4>1. q \in Rows /\ d \in claim'[q].slots
          BY <2>1, <3>1
      <4>2. q[2] \in Lines
          BY <4>1 DEF Rows
      <4> QED BY <1>0, <3>1, <4>1, <4>2 DEF Transaction
    <3>3. CoverAt(t, d) + tx[t].writes[q[2]].qty <= OnHand
        BY <1>0, <3>1, <3>2 DEF StockCallOK, FitsOK
    <3>4. ASSUME NEW r \in S, r # q PROVE r \in Others(t, d) /\ claim'[r] = claim[r]
      <4>1. r[1] # tx[t].b
        <5>1. CASE r[1] = tx[t].b
          <6>1. r[2] = q[2]
              BY <2>2, <3>1, <3>4, <5>1 DEF OneBulkLine
          <6>2. r = q
              BY <2>1, <3>1, <3>2, <3>4, <5>1, <6>1 DEF Rows
          <6> QED BY <3>4, <6>2
        <5> QED BY <5>1
      <4>2. Old(r) /\ r[1] \notin tx[t].expired
          BY <2>2, <3>4, <4>1
      <4> QED BY <2>1, <3>4, <4>1, <4>2 DEF Others
    <3> DEFINE Q == S \ {q}
               O == Others(t, d)
    <3>5. O \in SUBSET Rows /\ Q \in SUBSET O /\ \A r \in Q : claim'[r] = claim[r]
        BY <3>4 DEF Others
    <3>6. CoverAt(t, d) = Shelf(claim, O)
        BY CoverIsShelf
    <3>7. S \in SUBSET Rows /\ q \in S
        BY <2>1, <3>1
    <3> HIDE DEF O, S
    <3>8. Shelf(claim', Q) \in Nat /\ Shelf(claim, O) \in Nat /\ Shelf(claim', Q) <= Shelf(claim, O)
      <4> HIDE DEF Q
      <4> QED BY <1>0, <3>5, ShrunkShelf
    <3>9. Shelf(claim', S) = claim'[q].qty + Shelf(claim', Q)
      <4>1. /\ Shelf(claim', S) = SumFn(Qty(claim'), S) /\ IsFiniteSet(S)
            /\ \A r \in S : Qty(claim')[r] \in Nat
          BY <1>0, <3>7, ShelfIsSum
      <4>2. SumFn(Qty(claim'), S) = Qty(claim')[q] + SumFn(Qty(claim'), S \ {q})
          BY <3>7, <4>1, SumRemove
      <4>3. Q \in SUBSET Rows
          BY <3>7
      <4>4. Shelf(claim', Q) = SumFn(Qty(claim'), Q)
        <5> HIDE DEF Q
        <5> QED BY <1>0, <4>3, ShelfIsSum
      <4>5. Qty(claim')[q] = claim'[q].qty
          BY <3>2 DEF Qty
      <4> QED BY <4>1, <4>2, <4>4, <4>5
    <3>10. claim'[q].qty = tx[t].writes[q[2]].qty /\ tx[t].writes[q[2]].qty \in Nat
        BY <3>1, <3>2 DEF Claim
    <3> HIDE DEF Q
    <3>11. Shelf(claim', S) <= OnHand
        BY <3>3, <3>6, <3>8, <3>9, <3>10, BookingAssumption
    <3> QED BY <3>11 DEF S
  <2> QED BY <2>2, <2>4, <2>5
<1>2. (StockHolds <=> \A d \in 1..(MaxSlot + MaxTurn) : Shelf(claim, Counted(d)) <= OnHand)'
    BY StockIsShelfNext
<1> QED BY <1>1, <1>2

LEMMA CommitShelf ==
    ASSUME StockInv, OneBulkLine, IsFiniteSet(Ids), NEW t \in Desks, Commit(t)
    PROVE  ShelfInv'
<1> DEFINE b == tx[t].b
<1>0. /\ BookInv' /\ BookInv /\ RowsOK /\ StockCallOK(t) /\ PromiseOK(t) /\ DropsOK(t)
    BY CommitAlloc DEF StockInv, AllocInv, ShelfInv
<1>1. /\ tx[t].at = "done" /\ tx'[t] = Idle /\ \A s \in Desks \ {t} : tx'[s] = tx[s]
      /\ \A r \in Rows : claim'[r] = View(t, r)
      /\ \A x \in Ids : booking'[x] =
             IF x = b THEN tx[t].new
             ELSE IF x \in tx[t].expired THEN [booking[x] EXCEPT !.status = "cancelled"]
             ELSE booking[x]
      /\ b \in Ids /\ booking \in [Ids -> BookingRow]
    BY <1>0 DEF Commit, Ends, BookInv, BookingTypeOK, CallOK
<1>2. b \notin tx[t].expired /\ tx[t].new.status # "none"
    BY <1>0, <1>1 DEF PromiseOK
<1>3. StockHolds'
    BY <1>0, CommitHolds
<1>4. ASSUME NEW x \in Ids, NEW i \in Lines
      PROVE  /\ OfKind(booking'[x].ask, i, claim'[<<x, i>>])
             /\ booking'[x].status = "none" => claim'[<<x, i>>].state = "none"
  <2>1. /\ <<x, i>> \in Rows /\ claim'[<<x, i>>] = View(t, <<x, i>>)
        /\ OfKind(booking[x].ask, i, claim[<<x, i>>])
        /\ booking[x].status = "none" => claim[<<x, i>>].state = "none"
      BY <1>0, <1>1 DEF Rows, RowsOK
  <2>2. \A ask : OfKind(ask, i, NoClaim)
      BY DEF OfKind, NoClaim
  <2>3. CASE x = b
    <3>1. /\ booking'[x] = tx[t].new /\ OfKind(tx[t].new.ask, i, tx[t].writes[i])
          /\ claim'[<<x, i>>] \in {NoClaim, tx[t].writes[i], claim[<<x, i>>]}
        BY <1>0, <1>1, <2>1, <2>3 DEF StockCallOK, View
    <3>2. OfKind(tx[t].new.ask, i, claim[<<x, i>>])
      <4>1. CASE tx[t].op = "create"
        <5>1. booking[b].status = "none"
            BY <1>1, <4>1 DEF StockInv, AllocInv, HoldInv
        <5> QED BY <2>1, <2>3, <5>1 DEF OfKind
      <4>2. CASE tx[t].op # "create"
          BY <1>0, <1>1, <2>1, <2>3, <4>2 DEF StockCallOK
      <4> QED BY <4>1, <4>2
    <3> QED BY <1>2, <2>2, <3>1, <3>2
  <2>4. CASE x # b
    <3>1. claim'[<<x, i>>] \in {NoClaim, claim[<<x, i>>]}
        BY <2>1, <2>4 DEF View
    <3>2. /\ booking'[x].ask = booking[x].ask
          /\ booking'[x].status = "none" => booking[x].status = "none"
        BY <1>1, <2>4 DEF BookingRow
    <3>3. NoClaim.state = "none"
        BY DEF NoClaim
    <3> QED BY <2>1, <2>2, <3>1, <3>2, <3>3
  <2> QED BY <2>3, <2>4
<1>5. ASSUME NEW s \in Desks PROVE StockCallOK(s)'
  <2>1. CASE s = t
    <3>1. tx'[s].at = "idle"
        BY <1>1, <2>1 DEF Idle
    <3> QED BY <3>1 DEF StockCallOK
  <2>2. CASE s # t
    <3>1. tx'[s] = tx[s]
        BY <1>1, <2>2
    <3>2. ASSUME tx[s].at \in {"lines", "done"} PROVE booking'[tx[s].b] = booking[tx[s].b]
      <4>1. HoldsBooking(s, tx[s].b) /\ tx[s].b \in Ids
          BY <1>0, <3>2 DEF HoldsBooking, BookInv, CallOK
      <4>2. \A x \in tx[t].expired \cup {b} : HoldsBooking(t, x)
          BY <1>1 DEF HoldsBooking
      <4>3. tx[s].b \notin tx[t].expired \cup {b}
          BY <2>2, <4>1, <4>2 DEF StockInv, AllocInv, HoldInv
      <4> QED BY <1>1, <4>1, <4>3
    <3>3. ASSUME "bulk" \in tx[s].products, NEW d, NEW r \in Others(s, d)'
          PROVE  r \in Others(s, d) /\ claim'[r] = claim[r]
      <4>1. /\ r \in Rows /\ r[1] \notin {tx[s].b} \cup tx[s].expired
            /\ booking'[r[1]].status = "confirmed"
            /\ claim'[r].state = "confirmed" /\ claim'[r].unit = NoUnit /\ d \in claim'[r].slots
          BY <3>1, <3>3 DEF Others
      <4>2. \/ claim'[r] = claim[r] /\ booking[r[1]].status = "confirmed"
            \/ /\ r[1] = tx[t].b /\ claim'[r] = tx[t].writes[r[2]]
               /\ IsBulk(tx[t].writes[r[2]]) /\ tx[t].new.status = "confirmed"
          BY <4>1, CommittedRows
      <4>3. r[2] \in Lines
          BY <4>1 DEF Rows
      <4>4. ~(IsBulk(tx[t].writes[r[2]]) /\ tx[t].new.status = "confirmed")
        <5>1. "bulk" \notin tx[t].products
            BY <2>2, <3>3 DEF StockInv, ShelfInv
        <5> QED BY <1>0, <1>1, <4>3, <5>1 DEF StockCallOK, FitsOK
      <4> QED BY <4>1, <4>2, <4>4 DEF Others
    <3> QED BY <1>0, <3>1, <3>2, <3>3, OthersShelf
  <2> QED BY <2>1, <2>2
<1>6. ASSUME NEW u \in Desks, NEW s \in Desks, u # s
      PROVE  ~("bulk" \in tx'[u].products /\ "bulk" \in tx'[s].products)
  <2>1. "bulk" \notin Idle.products
      BY DEF Idle
  <2> QED BY <1>1, <1>6, <2>1 DEF StockInv, ShelfInv
<1> QED BY <1>3, <1>4, <1>5, <1>6 DEF ShelfInv, RowsOK

LEMMA RollbackShelf ==
    ASSUME StockInv, NEW t \in Desks, Rollback(t) PROVE ShelfInv'
<1>1. /\ UNCHANGED <<booking, claim>> /\ tx'[t] = Idle /\ \A s \in Desks \ {t} : tx'[s] = tx[s]
    BY DEF Rollback, Ends, StockInv, AllocInv, BookInv, BookingTypeOK
<1>2. Idle.at = "idle" /\ Idle.products = {}
    BY DEF Idle
<1>3. StockCallOK(t)'
    BY <1>1, <1>2 DEF StockCallOK
<1> QED BY <1>1, <1>2, <1>3, OwnShelf

(* A swap puts one unit in the place of another.                           *)
LEMMA ReallocateShelf ==
    ASSUME StockInv, BookInv', IsFiniteSet(Ids), NEW r \in Rows, NEW u \in Units, Reallocate(r, u)
    PROVE  ShelfInv'
<1>1. /\ UNCHANGED <<booking, tx>> /\ claim \in [Rows -> Claim] /\ claim' \in [Rows -> Claim]
      /\ claim' = [claim EXCEPT ![r] = [claim[r] EXCEPT !.unit = u]] /\ claim[r].unit # NoUnit
      /\ u # NoUnit /\ RowsOK /\ StockHolds
    BY BookingAssumption DEF Reallocate, StockInv, AllocInv, BookInv, BookingTypeOK, ShelfInv
<1>2. /\ claim'[r].unit # NoUnit /\ claim'[r].state = claim[r].state
      /\ \A q \in Rows \ {r} : claim'[q] = claim[q]
    BY <1>1 DEF Claim
<1>3. RowsOK'
  <2>1. ASSUME NEW b \in Ids, NEW i \in Lines
        PROVE  /\ OfKind(booking'[b].ask, i, claim'[<<b, i>>])
               /\ booking'[b].status = "none" => claim'[<<b, i>>].state = "none"
    <3>1. /\ <<b, i>> \in Rows /\ OfKind(booking[b].ask, i, claim[<<b, i>>])
          /\ booking[b].status = "none" => claim[<<b, i>>].state = "none"
        BY <1>1 DEF Rows, RowsOK
    <3>2. CASE <<b, i>> = r
        BY <1>1, <1>2, <3>1, <3>2 DEF OfKind
    <3>3. CASE <<b, i>> # r
        BY <1>1, <1>2, <3>1, <3>3
    <3> QED BY <3>2, <3>3
  <2> QED BY <2>1 DEF RowsOK
<1>4. StockHolds'
  <2>1. ASSUME NEW d \in 1..(MaxSlot + MaxTurn) PROVE Shelf(claim', Counted(d)') <= OnHand
    <3> DEFINE S == Counted(d)
               R == Counted(d)'
    <3>1. S \in SUBSET Rows /\ R \in SUBSET S /\ \A q \in R : claim'[q] = claim[q]
        BY <1>1, <1>2 DEF Counted
    <3>2. Shelf(claim, S) <= OnHand
        BY <1>1, StockIsShelf
    <3> HIDE DEF S, R
    <3>3. Shelf(claim', R) \in Nat /\ Shelf(claim, S) \in Nat /\ Shelf(claim', R) <= Shelf(claim, S)
        BY <1>1, <3>1, ShrunkShelf
    <3>4. Shelf(claim', R) <= OnHand
        BY <3>2, <3>3, BookingAssumption
    <3> QED BY <3>4 DEF R
  <2>2. (StockHolds <=> \A d \in 1..(MaxSlot + MaxTurn) : Shelf(claim, Counted(d)) <= OnHand)'
      BY StockIsShelfNext
  <2> QED BY <2>1, <2>2
<1>5. ASSUME NEW s \in Desks PROVE StockCallOK(s)'
  <2>1. \A d : \A q \in Others(s, d)' : q \in Others(s, d) /\ claim'[q] = claim[q]
      BY <1>1, <1>2 DEF Others
  <2> QED BY <1>1, <2>1, OthersShelf
<1> QED BY <1>1, <1>3, <1>4, <1>5 DEF StockInv, ShelfInv

(* Steps that leave bookings, reservations and calls alone.                *)
LEMMA QuietShelf ==
    ASSUME StockInv, BookInv', IsFiniteSet(Ids), UNCHANGED <<booking, claim, tx>> PROVE ShelfInv'
<1>1. RowsOK'
    BY DEF StockInv, ShelfInv, RowsOK, OfKind
<1>2. StockHolds'
  <2>1. \A d : Shelf(claim, Counted(d))' = Shelf(claim, Counted(d))
      BY DEF Counted, Shelf, MapThenSumSet, MapThenFoldSet
  <2> QED BY <2>1, StockIsShelf, StockIsShelfNext DEF StockInv, ShelfInv
<1>3. ASSUME NEW s \in Desks PROVE StockCallOK(s)'
  <2>1. \A d : \A q \in Others(s, d)' : q \in Others(s, d) /\ claim'[q] = claim[q]
      BY DEF Others
  <2> QED BY <2>1, OthersShelf
<1> QED BY <1>1, <1>2, <1>3 DEF StockInv, ShelfInv

LEMMA InitShelf == ASSUME Init, IsFiniteSet(Ids) PROVE ShelfInv
<1>1. /\ \A t \in Desks : tx[t] = Idle
      /\ \A r \in Rows : claim[r] = NoClaim
      /\ \A b \in Ids : booking[b] = NoBooking
    BY DEF Init
<1>2. /\ Idle.at = "idle" /\ Idle.products = {} /\ NoClaim.state = "none"
    BY DEF Idle, NoClaim
<1>3. RowsOK
  <2>1. \A b \in Ids, i \in Lines : claim[<<b, i>>].state = "none"
    <3>1. \A b \in Ids, i \in Lines : <<b, i>> \in Rows
        BY DEF Rows
    <3> QED BY <1>1, <1>2, <3>1
  <2> QED BY <2>1 DEF RowsOK, OfKind
<1>4. StockHolds
  <2>1. ASSUME NEW d \in 1..(MaxSlot + MaxTurn) PROVE Shelf(claim, Counted(d)) <= OnHand
    <3>1. Counted(d) = {}
      <4>1. \A r \in Rows : claim[r].state # "confirmed"
          BY <1>1, <1>2
      <4> QED BY <4>1 DEF Counted
    <3>2. claim \in [Rows -> Claim]
        BY ConstantFacts DEF Init
    <3>3. Shelf(claim, {}) = SumFn(Qty(claim), {})
        BY <3>2, ShelfIsSum
    <3> HIDE DEF Counted
    <3> QED BY <3>1, <3>3, SumEmpty, BookingAssumption
  <2> QED BY <2>1, StockIsShelf
<1> QED BY <1>1, <1>2, <1>3, <1>4 DEF ShelfInv, StockCallOK

LEMMA NextShelf ==
    ASSUME StockInv, [Next]_vars, OneBulkLine, IsFiniteSet(Ids) PROVE StockInv'
<1>0. AllocInv' /\ BookInv'
    BY NextAlloc DEF StockInv, AllocInv
<1>1. ASSUME NEW t \in Desks, Begin(t) PROVE ShelfInv'
    BY <1>1, BeginShelf
<1>2. ASSUME NEW t \in Desks, SeeClaims(t) \/ DropClaims(t) \/ PruneBookings(t) PROVE ShelfInv'
    BY <1>2, PruneShelf
<1>3. ASSUME NEW t \in Desks, Create(t) PROVE ShelfInv'
    BY <1>3, CreateShelf
<1>4. ASSUME NEW t \in Desks, StartConfirm(t) \/ Cancel(t) \/ Convert(t) PROVE ShelfInv'
    BY <1>4, PlainShelf
<1>5. ASSUME NEW t \in Desks, ConfirmLine(t) PROVE ShelfInv'
    BY <1>5, ConfirmLineShelf
<1>6. ASSUME NEW t \in Desks, Extend(t) PROVE ShelfInv'
    BY <1>6, ExtendShelf
<1>7. ASSUME NEW t \in Desks, Commit(t) PROVE ShelfInv'
    BY <1>7, CommitShelf
<1>8. ASSUME NEW t \in Desks, Rollback(t) PROVE ShelfInv'
    BY <1>8, RollbackShelf
<1>9. ASSUME NEW t \in Desks, Bump(t) PROVE ShelfInv'
    BY <1>0, <1>9, QuietShelf DEF Bump
<1>10. ASSUME NEW r \in Rows, NEW u \in Units, Reallocate(r, u) PROVE ShelfInv'
    BY <1>0, <1>10, ReallocateShelf
<1>11. ASSUME NEW b \in Ids, CloseJob(b) \/ ReopenJob(b) \/ Lapse(b) PROVE ShelfInv'
    BY <1>0, <1>11, QuietShelf DEF CloseJob, ReopenJob, JobTurns, Lapse
<1>12. ASSUME UNCHANGED vars PROVE ShelfInv'
    BY <1>0, <1>12, QuietShelf DEF vars
<1>13. ShelfInv'
    BY <1>1, <1>2, <1>3, <1>4, <1>5, <1>6, <1>7, <1>8, <1>9, <1>10, <1>11, <1>12 DEF Next
<1> QED BY <1>0, <1>13 DEF StockInv

(* At no moment is more bulk stock promised than is on hand, whoever       *)
(* confirms, extends, cancels and prunes at the same time: what the        *)
(* advisory lock on the product and stock_reserved_peak are for.           *)
THEOREM ShelfIsNeverOverdrawn ==
    ASSUME OneBulkLine, IsFiniteSet(Ids)
    PROVE  Spec => []StockHolds
<1>1. Init => StockInv
    BY InitAlloc, InitShelf DEF StockInv
<1>2. StockInv /\ [Next]_vars => StockInv'
    BY NextShelf
<1>3. StockInv => StockHolds
    BY DEF StockInv, ShelfInv
<1> QED BY <1>1, <1>2, <1>3, PTL DEF Spec
=============================================================================
