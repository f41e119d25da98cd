------------------------ MODULE NetworkDeskProofs ------------------------
(***************************************************************************)
(* Borrowed gear that went home stays away, for every number of partner    *)
(* houses, sub-hires, units, jobs, writes and moves of other desks.        *)
(*                                                                         *)
(* The queue is seen as tickets - an op without its arguments and state:   *)
(* those that wait, those refused, those the server has taken.  HouseInv   *)
(* relates them to the rows of the phone, of the server and of the page    *)
(* on its way.                                                             *)
(***************************************************************************)
EXTENDS NetworkDesk, DataInduction

USE NetworkAssumption

Scans == {"checkOut", "checkIn", "retire"}
Deals == {"borrow", "lend"}
Others == {"addHouse", "editHouse", "removeHouse", "createJob", "setDue", "closeJob",
           "reopenJob", "assign", "unassign"}
Verbs == Scans \cup Deals \cup Others \cup {"close"}
Places == {"none", "here", "out", "gone"}

OpParts == {"op", "house", "loan", "unit", "job", "who", "due", "flag", "names", "on",
            "n", "parent", "state"}
OpFields(o) ==
    /\ DOMAIN o = OpParts
    /\ o.op \in Verbs /\ o.loan \in Loans \cup {NoUnit} /\ o.unit \in Units \cup {NoUnit}
    /\ o.flag \in BOOLEAN /\ NoUnit \notin o.names /\ o.state \in {"pending", "failed"}
IsOp(o) == OpFields(o) /\ o.n \in Nat \ {0} /\ o.parent \in Nat

QueueOK(q) ==
    /\ \E Z : q \in Seq(Z)
    /\ \A i \in DOMAIN q : IsOp(q[i])
    /\ \A i, j \in DOMAIN q : i < j => q[i].n < q[j].n

Ticket(o) == [n |-> o.n, op |-> o.op, loan |-> o.loan, unit |-> o.unit, flag |-> o.flag,
              parent |-> o.parent]
TicketSet == [n : Nat \ {0}, op : Verbs, loan : Loans \cup {NoUnit},
              unit : Units \cup {NoUnit}, flag : BOOLEAN, parent : Nat]
WaitingIn(q) == {Ticket(q[i]) : i \in {k \in DOMAIN q : q[k].state # "failed"}}
RefusedIn(q) == {Ticket(q[i]) : i \in {k \in DOMAIN q : q[k].state = "failed"}}
Waiting == WaitingIn(queue)
Refused == RefusedIn(queue)
Done == {Ticket(o) : o \in receipts}

-----------------------------------------------------------------------------
(* The queue's moves.                                                      *)
LEMMA QueueFacts ==
    ASSUME NEW q, QueueOK(q)
    PROVE  /\ Len(q) \in Nat /\ DOMAIN q = 1..Len(q)
           /\ \A i \in DOMAIN q : Ticket(q[i]) \in TicketSet
           /\ WaitingIn(q) \in SUBSET TicketSet /\ RefusedIn(q) \in SUBSET TicketSet
           /\ \A i, j \in DOMAIN q : q[i].n = q[j].n => i = j
<1>1. Len(q) \in Nat /\ DOMAIN q = 1..Len(q)
    BY DEF QueueOK
<1>2. \A i \in DOMAIN q : IsOp(q[i])
    BY DEF QueueOK
<1>3. \A i \in DOMAIN q : Ticket(q[i]) \in TicketSet
    BY <1>2 DEF IsOp, OpFields, Ticket, TicketSet
<1>4. \A i, j \in DOMAIN q : q[i].n = q[j].n => i = j
  <2> SUFFICES ASSUME NEW i \in DOMAIN q, NEW j \in DOMAIN q, q[i].n = q[j].n, i # j
               PROVE  FALSE
      OBVIOUS
  <2>1. q[i].n \in Nat /\ q[j].n \in Nat
      BY <1>2 DEF IsOp
  <2>2. i < j \/ j < i
      BY <1>1
  <2> QED BY <2>1, <2>2 DEF QueueOK
<1> QED BY <1>1, <1>3, <1>4 DEF WaitingIn, RefusedIn

LEMMA AppendedTo ==
    ASSUME NEW q, QueueOK(q), NEW x, IsOp(x), x.state = "pending",
           \A t \in WaitingIn(q) \cup RefusedIn(q) : t.n < x.n
    PROVE  /\ QueueOK(Append(q, x))
           /\ WaitingIn(Append(q, x)) = WaitingIn(q) \cup {Ticket(x)}
           /\ RefusedIn(Append(q, x)) = RefusedIn(q)
<1>0. PICK Z : q \in Seq(Z)
    BY DEF QueueOK
<1> DEFINE p == Append(q, x)
<1>1. q \in Seq(Z \cup {x}) /\ p \in Seq(Z \cup {x})
    BY <1>0
<1>2. /\ DOMAIN q = 1..Len(q) /\ Len(q) \in Nat
      /\ DOMAIN p = 1..(Len(q) + 1)
      /\ \A i \in DOMAIN q : p[i] = q[i]
      /\ p[Len(q) + 1] = x
    BY <1>1
<1> HIDE DEF p
<1>3. \A i \in DOMAIN q : q[i].n < x.n
  <2> SUFFICES ASSUME NEW i \in DOMAIN q PROVE q[i].n < x.n
      OBVIOUS
  <2>1. Ticket(q[i]) \in WaitingIn(q) \cup RefusedIn(q)
      BY DEF WaitingIn, RefusedIn
  <2> QED BY <2>1 DEF Ticket
<1>4. \A i \in DOMAIN p : IsOp(p[i])
    BY <1>2 DEF QueueOK
<1>5. \A i, j \in DOMAIN p : i < j => p[i].n < p[j].n
    BY <1>2, <1>3 DEF QueueOK
<1>6. QueueOK(p)
    BY <1>1, <1>4, <1>5 DEF QueueOK
<1>7. WaitingIn(p) = WaitingIn(q) \cup {Ticket(x)}
    BY <1>2 DEF WaitingIn
<1>8. RefusedIn(p) = RefusedIn(q)
    BY <1>2 DEF RefusedIn
<1> QED BY <1>6, <1>7, <1>8 DEF p

Bounded(T) == \E N \in Nat : \A t \in T : t.n <= N

(* A write gets a number above every other, and what waits for nothing     *)
(* hangs on nothing.                                                       *)
LEMMA QueuedIs ==
    ASSUME NEW q, QueueOK(q), \A r \in receipts : IsOp(r),
           Bounded(WaitingIn(q) \cup RefusedIn(q) \cup Done),
           NEW o, OpFields(o), o.state = "pending"
    PROVE  \E x : /\ Queued(q, o) = Append(q, x) /\ IsOp(x) /\ x.state = "pending"
                  /\ x.op = o.op /\ x.loan = o.loan /\ x.unit = o.unit /\ x.flag = o.flag
                  /\ o.on = NoUnit => x.parent = 0
                  /\ \A t \in WaitingIn(q) \cup RefusedIn(q) \cup Done : t.n < x.n
<1>1. PICK N \in Nat : \A t \in WaitingIn(q) \cup RefusedIn(q) \cup Done : t.n <= N
    BY DEF Bounded
<1>2. \A i \in DOMAIN q : q[i].n \in 0..N
  <2> SUFFICES ASSUME NEW i \in DOMAIN q PROVE q[i].n \in 0..N
      OBVIOUS
  <2>1. IsOp(q[i]) /\ Ticket(q[i]) \in WaitingIn(q) \cup RefusedIn(q)
      BY DEF QueueOK, WaitingIn, RefusedIn
  <2> QED BY <1>1, <2>1 DEF Ticket, IsOp
<1>3. \A r \in receipts : r.n \in 0..N
  <2> SUFFICES ASSUME NEW r \in receipts PROVE r.n \in 0..N
      OBVIOUS
  <2>1. IsOp(r) /\ Ticket(r) \in Done
      BY DEF Done
  <2> QED BY <1>1, <2>1 DEF Ticket, IsOp
<1> DEFINE all == {0} \cup {q[i].n : i \in DOMAIN q} \cup {r.n : r \in receipts}
           before == {q[i].n : i \in {k \in DOMAIN q : q[k].state # "failed" /\ o.on \in q[k].names}}
           n == Max(all) + 1
           parent == Max({0} \cup before)
           x == [o EXCEPT !.n = n, !.parent = parent]
<1>4. Queued(q, o) = Append(q, x)
    BY DEF Queued
<1>5. Max(all) \in Nat /\ \A k \in all : k <= Max(all)
  <2>1. all \in SUBSET (0..N) /\ all # {}
      BY <1>2, <1>3
  <2> HIDE DEF all
  <2>2. N \in Nat
      OBVIOUS
  <2>3. Max(all) \in all /\ \A k \in all : k <= Max(all)
      BY ONLY <2>1, <2>2, GreatestNat
  <2>4. Max(all) \in 0..N
      BY ONLY <2>1, <2>3
  <2>5. Max(all) \in Nat
      BY ONLY <2>4, <2>2
  <2> QED BY <2>3, <2>5
<1>6. parent \in Nat /\ (before = {} => parent = 0)
  <2>1. {0} \cup before \in SUBSET (0..N) /\ {0} \cup before # {}
      BY <1>2
  <2> HIDE DEF before
  <2>2. Max({0} \cup before) \in {0} \cup before
      BY <2>1, GreatestNat
  <2> QED BY <2>1, <2>2
<1>7. o.on = NoUnit => before = {}
    BY DEF QueueOK, IsOp, OpFields
<1>8. \A t \in WaitingIn(q) \cup RefusedIn(q) \cup Done : t.n \in all
    BY DEF WaitingIn, RefusedIn, Done, Ticket
<1>9. \A k \in all : k \in Nat
    BY <1>2, <1>3
<1>10. /\ DOMAIN x = OpParts /\ x.n = n /\ x.parent = parent
       /\ x.op = o.op /\ x.loan = o.loan /\ x.unit = o.unit /\ x.flag = o.flag
       /\ x.names = o.names /\ x.state = o.state
  <2>1. DOMAIN o = OpParts
      BY DEF OpFields
  <2> HIDE DEF all, before, n, parent
  <2> QED BY <2>1 DEF OpParts
<1> HIDE DEF all, before
<1>11. n \in Nat \ {0} /\ \A k \in all : k < n
  <2> DEFINE top == Max(all)
  <2>1. top \in Nat /\ \A k \in all : k \in Nat /\ k <= top
      BY <1>5, <1>9
  <2> HIDE DEF top
  <2>2. top + 1 \in Nat \ {0} /\ \A k \in all : k < top + 1
      BY <2>1
  <2> QED BY <2>2 DEF top
<1> HIDE DEF n, parent, x
<1>12. IsOp(x)
    BY <1>6, <1>10, <1>11 DEF IsOp, OpFields
<1>13. \A t \in WaitingIn(q) \cup RefusedIn(q) \cup Done : t.n < x.n
    BY <1>8, <1>10, <1>11
<1>14. /\ x.state = "pending" /\ x.op = o.op /\ x.loan = o.loan /\ x.unit = o.unit
       /\ x.flag = o.flag /\ x.parent = parent
    BY <1>10
<1> QED BY <1>4, <1>6, <1>7, <1>12, <1>13, <1>14

(* What waits and what was refused, by places in the queue.                *)
LEMMA Here ==
    ASSUME QueueOK(queue)
    PROVE  /\ Waiting = {Ticket(queue[i]) : i \in {k \in DOMAIN queue : queue[k].state # "failed"}}
           /\ Refused = {Ticket(queue[i]) : i \in {k \in DOMAIN queue : queue[k].state = "failed"}}
           /\ Live = {i \in DOMAIN queue : queue[i].state # "failed"}
           /\ Unsent = {t.n : t \in Waiting}
           /\ \A o \in LiveOps : Ticket(o) \in Waiting
           /\ \A i \in DOMAIN queue : \A t \in Waiting :
                 t.n = queue[i].n => t = Ticket(queue[i]) /\ i \in Live
<1>1. Waiting = {Ticket(queue[i]) : i \in {k \in DOMAIN queue : queue[k].state # "failed"}}
    BY DEF Waiting, WaitingIn
<1>2. Refused = {Ticket(queue[i]) : i \in {k \in DOMAIN queue : queue[k].state = "failed"}}
    BY DEF Refused, RefusedIn
<1>3. Live = {i \in DOMAIN queue : queue[i].state # "failed"}
    BY DEF Live
<1>4. LiveOps = {queue[i] : i \in {k \in DOMAIN queue : queue[k].state # "failed"}}
    BY DEF LiveOps, Live
<1>5. Unsent = {t.n : t \in Waiting}
  <2>1. \A o : Ticket(o).n = o.n
      BY DEF Ticket
  <2>2. \A m : m \in Unsent => m \in {t.n : t \in Waiting}
    <3> SUFFICES ASSUME NEW o \in LiveOps PROVE o.n \in {t.n : t \in Waiting}
        BY DEF Unsent
    <3>1. Ticket(o) \in Waiting
        BY <1>1, <1>4
    <3> QED BY <2>1, <3>1
  <2>3. \A t \in Waiting : t.n \in Unsent
      BY <1>1, <1>4, <2>1 DEF Unsent
  <2> QED BY <2>2, <2>3
<1>6. \A i \in DOMAIN queue : \A t \in Waiting :
         t.n = queue[i].n => t = Ticket(queue[i]) /\ i \in Live
  <2>1. \A i, j \in DOMAIN queue : queue[i].n = queue[j].n => i = j
      BY QueueFacts
  <2> QED BY <1>1, <1>3, <2>1 DEF Ticket
<1> QED BY <1>1, <1>2, <1>3, <1>4, <1>5, <1>6

(* The first of the line is the oldest that waits.                         *)
LEMMA FirstIsOldest ==
    ASSUME QueueOK(queue), Live # {}
    PROVE  /\ Min(Live) \in Live /\ First \in LiveOps /\ IsOp(First)
           /\ Ticket(First) \in Waiting
           /\ \A t \in Waiting : First.n <= t.n
           /\ \A i \in Live : Min(Live) <= i
<1>0. Live \in SUBSET Nat /\ Live \subseteq DOMAIN queue
    BY QueueFacts DEF Live
<1>1. \E m \in Live : \A k \in Live : m <= k
    BY <1>0, LeastNat
<1>2. Min(Live) \in Live /\ \A k \in Live : Min(Live) <= k
    BY <1>1 DEF Min
<1>3. First \in LiveOps /\ IsOp(First)
    BY <1>0, <1>2 DEF First, LiveOps, QueueOK
<1>4. \A i \in Live : First.n <= queue[i].n
  <2> SUFFICES ASSUME NEW i \in Live PROVE First.n <= queue[i].n
      OBVIOUS
  <2>0. IsOp(queue[i])
      BY <1>0 DEF QueueOK
  <2>1. CASE i = Min(Live)
      BY <2>0, <2>1 DEF First, IsOp
  <2>2. CASE i # Min(Live)
    <3>0. Min(Live) \in Nat /\ i \in Nat /\ Min(Live) <= i
        BY <1>0, <1>2
    <3> DEFINE m == Min(Live)
    <3> HIDE DEF m
    <3>1. Min(Live) < i
      <4>1. m \in Nat /\ m <= i /\ i # m
          BY <3>0, <2>2 DEF m
      <4>2. m < i
          BY <3>0, <4>1
      <4> QED BY <4>2 DEF m
    <3>2. queue[Min(Live)].n < queue[i].n
        BY <1>0, <1>2, <3>1 DEF QueueOK
    <3> QED BY <1>3, <2>0, <3>2 DEF First, IsOp
  <2> QED BY <2>1, <2>2
<1> QED BY <1>2, <1>3, <1>4 DEF Waiting, WaitingIn, Ticket, LiveOps, Live

(* The head leaves.                                                        *)
LEMMA HeadLeft ==
    ASSUME QueueOK(queue), Live # {}
    PROVE  QueueOK(Landed) /\ WaitingIn(Landed) = Waiting \ {Ticket(First)} /\ RefusedIn(Landed) = Refused
<1> DEFINE p == Landed
           m == Min(Live)
           L == Len(queue)
           Old(i) == IF i < m THEN i ELSE i + 1
<1>0. PICK Z : queue \in Seq(Z)
    BY DEF QueueOK
<1>1. L \in Nat /\ DOMAIN queue = 1..L /\ m \in 1..L /\ m \in Live
    BY <1>0, FirstIsOldest DEF Live
<1> HIDE DEF m
<1>5. /\ p \in Seq(Z) /\ DOMAIN p = 1..(L - 1)
      /\ \A i \in 1..(L - 1) : p[i] = queue[Old(i)] /\ Old(i) \in DOMAIN queue \ {m}
  <2>1. p = RemoveAt(queue, m)
      BY DEF m, Landed
  <2>2. m \in 1..Len(queue)
      BY <1>1
  <2> HIDE DEF Old, L, p
  <2>3. /\ p \in Seq(Z) /\ DOMAIN p = 1..(Len(queue) - 1)
        /\ \A i \in 1..(Len(queue) - 1) :
              p[i] = queue[IF i < m THEN i ELSE i + 1]
              /\ (IF i < m THEN i ELSE i + 1) \in (1..Len(queue)) \ {m}
      BY ONLY <1>0, <2>1, <2>2, RemovedAt
  <2> QED BY <1>1, <2>3 DEF Old, L
<1>6. QueueOK(Landed)
  <2>1. \A i \in DOMAIN p : IsOp(p[i])
      BY <1>5 DEF QueueOK
  <2>2. \A i, j \in DOMAIN p : i < j => Old(i) < Old(j)
      BY <1>1, <1>5
  <2>3. \A i, j \in DOMAIN p : i < j => p[i].n < p[j].n
      BY <1>5, <2>2 DEF QueueOK
  <2> QED BY <1>5, <2>1, <2>3 DEF QueueOK
<1>7. \A k \in DOMAIN queue \ {m} : \E i \in DOMAIN p : Old(i) = k
  <2> SUFFICES ASSUME NEW k \in DOMAIN queue \ {m}
               PROVE  \E i \in DOMAIN p : Old(i) = k
      OBVIOUS
  <2>1. CASE k < m
      BY <1>1, <1>5, <2>1
  <2>2. CASE m < k
    <3>1. k - 1 \in DOMAIN p /\ Old(k - 1) = k
        BY <1>1, <1>5, <2>2
    <3> QED BY <3>1
  <2> QED BY <1>1, <2>1, <2>2
<1> HIDE DEF Old
<1>8. WaitingIn(Landed) = {Ticket(p[i]) : i \in {k \in DOMAIN p : p[k].state # "failed"}}
    BY DEF WaitingIn
<1>9. RefusedIn(Landed) = {Ticket(p[i]) : i \in {k \in DOMAIN p : p[k].state = "failed"}}
    BY DEF RefusedIn
<1>10. RefusedIn(Landed) = Refused
  <2>1. queue[m].state # "failed"
      BY <1>1 DEF Live
  <2>2. \A x \in RefusedIn(Landed) : x \in Refused
      BY <1>5, <1>9, Here
  <2>3. \A x \in Refused : x \in RefusedIn(Landed)
    <3> SUFFICES ASSUME NEW k \in DOMAIN queue, queue[k].state = "failed"
                 PROVE  Ticket(queue[k]) \in RefusedIn(Landed)
        BY Here
    <3>1. PICK i \in DOMAIN p : Old(i) = k
        BY <1>7, <2>1
    <3> QED BY <1>5, <1>9, <3>1
  <2> QED BY <2>2, <2>3
<1>11. WaitingIn(Landed) = {Ticket(queue[i]) : i \in {k \in DOMAIN queue \ {m} : queue[k].state # "failed"}}
  <2> DEFINE Rest == {Ticket(queue[i]) : i \in {k \in DOMAIN queue \ {m} : queue[k].state # "failed"}}
  <2>1. \A x \in WaitingIn(Landed) : x \in Rest
    <3> SUFFICES ASSUME NEW i \in DOMAIN p, p[i].state # "failed"
                 PROVE  Ticket(p[i]) \in Rest
        BY <1>8
    <3>1. p[i] = queue[Old(i)] /\ Old(i) \in DOMAIN queue \ {m}
        BY <1>5
    <3> QED BY <3>1
  <2>2. \A x \in Rest : x \in WaitingIn(Landed)
    <3> SUFFICES ASSUME NEW k \in DOMAIN queue \ {m}, queue[k].state # "failed"
                 PROVE  Ticket(queue[k]) \in WaitingIn(Landed)
        OBVIOUS
    <3>1. PICK i \in DOMAIN p : Old(i) = k
        BY <1>7
    <3>2. p[i] = queue[k]
        BY <1>5, <3>1
    <3> QED BY <1>8, <3>2
  <2> HIDE DEF Rest
  <2>3. WaitingIn(Landed) = Rest
      BY <2>1, <2>2
  <2> QED BY <2>3 DEF Rest
<1>12. \A i \in DOMAIN queue \ {m} : Ticket(queue[i]) # Ticket(First)
  <2> SUFFICES ASSUME NEW i \in DOMAIN queue \ {m}, Ticket(queue[i]) = Ticket(First)
               PROVE  FALSE
      OBVIOUS
  <2>1. queue[i].n = queue[m].n
      BY DEF Ticket, First, m
  <2>2. IsOp(queue[i]) /\ (i < m \/ m < i)
      BY <1>1 DEF QueueOK
  <2> QED BY <1>1, <2>1, <2>2 DEF QueueOK, IsOp
<1>13. Ticket(First) = Ticket(queue[m])
    BY DEF First, m
<1>14. WaitingIn(Landed) = Waiting \ {Ticket(First)}
    BY <1>1, <1>11, <1>12, <1>13, Here
<1> QED BY <1>6, <1>10, <1>14

(* The head parks, and what hangs on it.                                   *)
LEMMA SubtreeParks ==
    ASSUME QueueOK(queue), NEW fallen \in SUBSET Unsent,
           NEW p, p = [i \in DOMAIN queue |-> IF queue[i].n \in fallen
                        THEN [queue[i] EXCEPT !.state = "failed"] ELSE queue[i]]
    PROVE  /\ QueueOK(p)
           /\ WaitingIn(p) = {t \in Waiting : t.n \notin fallen}
           /\ RefusedIn(p) = Refused \cup {t \in Waiting : t.n \in fallen}
<1>0. PICK Z : queue \in Seq(Z)
    BY DEF QueueOK
<1>1. DOMAIN queue = 1..Len(queue) /\ Len(queue) \in Nat
    BY <1>0
<1>2. DOMAIN p = DOMAIN queue
    OBVIOUS
<1>4. \A i \in DOMAIN queue :
         /\ IsOp(p[i]) /\ Ticket(p[i]) = Ticket(queue[i])
         /\ p[i].n = queue[i].n
         /\ p[i].state = "failed" <=> queue[i].state = "failed" \/ queue[i].n \in fallen
  <2> SUFFICES ASSUME NEW i \in DOMAIN queue
               PROVE  /\ IsOp(p[i]) /\ Ticket(p[i]) = Ticket(queue[i])
                      /\ p[i].n = queue[i].n
                      /\ p[i].state = "failed" <=> queue[i].state = "failed" \/ queue[i].n \in fallen
      OBVIOUS
  <2>1. IsOp(queue[i])
      BY DEF QueueOK
  <2>2. CASE queue[i].n \notin fallen
      BY <2>1, <2>2
  <2>3. CASE queue[i].n \in fallen
    <3>1. p[i] = [queue[i] EXCEPT !.state = "failed"] /\ DOMAIN queue[i] = OpParts
        BY <2>1, <2>3 DEF IsOp, OpFields
    <3>2. /\ DOMAIN p[i] = OpParts /\ p[i].state = "failed" /\ p[i].op = queue[i].op
          /\ p[i].loan = queue[i].loan /\ p[i].unit = queue[i].unit /\ p[i].n = queue[i].n
          /\ p[i].flag = queue[i].flag /\ p[i].parent = queue[i].parent
          /\ p[i].names = queue[i].names
        BY <3>1 DEF OpParts
    <3> QED BY <2>1, <2>3, <3>2 DEF IsOp, OpFields, Ticket
  <2> QED BY <2>2, <2>3
<1>5. p \in Seq({p[i] : i \in DOMAIN p})
    BY <1>1, <1>2
<1>6. QueueOK(p)
  <2>1. \A i \in DOMAIN p : IsOp(p[i])
      BY <1>2, <1>4
  <2>2. \A i, j \in DOMAIN queue : i < j => queue[i].n < queue[j].n
      BY DEF QueueOK
  <2>3. \A i, j \in DOMAIN p : i < j => p[i].n < p[j].n
    <3> SUFFICES ASSUME NEW i \in DOMAIN queue, NEW j \in DOMAIN queue, i < j
                 PROVE  p[i].n < p[j].n
        BY <1>2
    <3>1. p[i].n = queue[i].n /\ p[j].n = queue[j].n
        BY <1>4
    <3>2. queue[i].n < queue[j].n
        BY <2>2
    <3> QED BY <3>1, <3>2
  <2> QED BY <1>5, <2>1, <2>3 DEF QueueOK
<1>7. WaitingIn(p) = {Ticket(p[i]) : i \in {k \in DOMAIN p : p[k].state # "failed"}}
    BY DEF WaitingIn
<1>8. RefusedIn(p) = {Ticket(p[i]) : i \in {k \in DOMAIN p : p[k].state = "failed"}}
    BY DEF RefusedIn
<1>9. \A i \in DOMAIN queue : Ticket(queue[i]).n = queue[i].n
    BY DEF Ticket
<1>10. WaitingIn(p) = {t \in Waiting : t.n \notin fallen}
  <2>1. \A x \in WaitingIn(p) : x \in Waiting /\ x.n \notin fallen
    <3> SUFFICES ASSUME NEW i \in DOMAIN p, p[i].state # "failed"
                 PROVE  Ticket(p[i]) \in Waiting /\ Ticket(p[i]).n \notin fallen
        BY <1>7
    <3> QED BY <1>2, <1>4, <1>9, Here
  <2>2. \A x \in Waiting : x.n \notin fallen => x \in WaitingIn(p)
    <3> SUFFICES ASSUME NEW i \in DOMAIN queue, queue[i].state # "failed", queue[i].n \notin fallen
                 PROVE  Ticket(queue[i]) \in WaitingIn(p)
        BY <1>9, Here
    <3> QED BY <1>2, <1>4, <1>7
  <2> QED BY <2>1, <2>2
<1>11. \A i \in DOMAIN queue : queue[i].n \in fallen => Ticket(queue[i]) \in Waiting
    BY Here
<1>12. RefusedIn(p) = Refused \cup {t \in Waiting : t.n \in fallen}
  <2>1. \A x \in RefusedIn(p) : x \in Refused \/ (x \in Waiting /\ x.n \in fallen)
    <3> SUFFICES ASSUME NEW i \in DOMAIN p, p[i].state = "failed"
                 PROVE  \/ Ticket(p[i]) \in Refused
                        \/ Ticket(p[i]) \in Waiting /\ Ticket(p[i]).n \in fallen
        BY <1>8
    <3> QED BY <1>2, <1>4, <1>9, <1>11, Here
  <2>2. \A x \in Refused : x \in RefusedIn(p)
    <3> SUFFICES ASSUME NEW i \in DOMAIN queue, queue[i].state = "failed"
                 PROVE  Ticket(queue[i]) \in RefusedIn(p)
        BY Here
    <3> QED BY <1>2, <1>4, <1>8
  <2>3. \A x \in Waiting : x.n \in fallen => x \in RefusedIn(p)
    <3> SUFFICES ASSUME NEW i \in DOMAIN queue, queue[i].n \in fallen
                 PROVE  Ticket(queue[i]) \in RefusedIn(p)
        BY <1>9, Here
    <3> QED BY <1>2, <1>4, <1>8
  <2> QED BY <2>1, <2>2, <2>3
<1> QED BY <1>6, <1>10, <1>12

(* A ticket that hangs on nothing falls only with itself.                  *)
LEMMA CascadeFacts ==
    ASSUME QueueOK(queue), NEW h \in Waiting
    PROVE  /\ Cascade(h.n) \in SUBSET Unsent /\ h.n \in Cascade(h.n)
           /\ \A w \in Waiting : w.parent = 0 /\ w.n \in Cascade(h.n) => w.n = h.n
<1>1. Unsent = {t.n : t \in Waiting} /\ 0 \notin Unsent
  <2>1. \A t \in Waiting : t.n # 0
      BY QueueFacts DEF Waiting, TicketSet
  <2> QED BY <2>1, Here
<1>2. Cascade(h.n) \in SUBSET Unsent /\ h.n \in Cascade(h.n)
    BY <1>1 DEF Cascade
<1>3. ASSUME NEW w \in Waiting, w.parent = 0, w.n \in Cascade(h.n), w.n # h.n PROVE FALSE
  <2> DEFINE S == Unsent \ {w.n}
  <2>1. S \in SUBSET Unsent /\ h.n \in S /\ 0 \notin S
      BY <1>1, <1>3
  <2>2. HoldsItsChildren(S)
    <3> SUFFICES ASSUME NEW o \in LiveOps, o.parent \in S, o.n = w.n PROVE FALSE
        BY DEF HoldsItsChildren, Unsent
    <3>1. PICK i \in DOMAIN queue : o = queue[i]
        BY DEF LiveOps, Live
    <3>2. w = Ticket(o)
        BY <3>1, Here
    <3>3. o.parent = 0
        BY <1>3, <3>2 DEF Ticket
    <3> QED BY <2>1, <3>3
  <2> HIDE DEF S
  <2>3. w.n \in S
      BY <1>3, <2>1, <2>2 DEF Cascade
  <2> QED BY <2>3 DEF S
<1> QED BY <1>2, <1>3

-----------------------------------------------------------------------------
(* The rows.                                                               *)
RowsOK(rows) ==
    /\ DOMAIN rows = {"houses", "loans", "units", "jobs"}
    /\ DOMAIN rows.loans = Loans /\ DOMAIN rows.units = Units /\ DOMAIN rows.jobs = Jobs
    /\ \A l \in Loans : DOMAIN rows.loans[l] = {"way", "house", "unit", "open"}
    /\ \A u \in Units : DOMAIN rows.units[u] = {"at", "job"} /\ rows.units[u].at \in Places
    /\ \A j \in Jobs : DOMAIN rows.jobs[j] = {"status", "due", "names"}

At(rows, u) == rows.units[u].at
SameDeals(new, old) == new.loans = old.loans /\ new.units = old.units

LEMMA UnitsApart ==
    /\ \A l \in Loans : Borrowed(l) \in Units /\ Borrowed(l) \notin Fleet /\ Borrowed(l) # NoUnit
    /\ \A l, m \in Loans : Borrowed(l) = Borrowed(m) => l = m
    /\ \A u \in Units : u # NoUnit
    /\ \A u \in Units : u \notin Fleet => \E l \in Loans : u = Borrowed(l)
    /\ \A l \in Loans : LoanJob(l) \in Jobs
<1>1. \A l, m \in Loans : Borrowed(l) = Borrowed(m) => l = m
    BY DEF Borrowed
<1>2. \A l \in Loans : Borrowed(l) \in Units /\ Borrowed(l) \notin Fleet
    BY DEF NetworkAssumption, Units
<1>3. \A u \in Units : u # NoUnit
    BY DEF NetworkAssumption
<1>4. \A l \in Loans : LoanJob(l) \in Jobs
    BY DEF Jobs
<1>5. \A u \in Units : u \notin Fleet => \E l \in Loans : u = Borrowed(l)
    BY DEF Units
<1> QED BY <1>1, <1>2, <1>3, <1>4, <1>5

LEMMA EmptyRowsOK ==
    /\ RowsOK(EmptyRows)
    /\ \A l \in Loans : EmptyRows.loans[l] = NoLoan
    /\ \A u \in Units : At(EmptyRows, u) = IF u \in Fleet THEN "here" ELSE "none"
BY DEF RowsOK, EmptyRows, NoLoan, At, Places

LEMMA HouseRows ==
    ASSUME NEW rows, RowsOK(rows), NEW h, NEW s
    PROVE  RowsOK(WithHouse(rows, h, s)) /\ SameDeals(WithHouse(rows, h, s), rows)
BY DEF RowsOK, WithHouse, SameDeals

LEMMA StatusRows ==
    ASSUME NEW rows, RowsOK(rows), NEW j, NEW s
    PROVE  RowsOK(SetStatus(rows, j, s)) /\ SameDeals(SetStatus(rows, j, s), rows)
BY DEF RowsOK, SetStatus, SameDeals

LEMMA DueRows ==
    ASSUME NEW rows, RowsOK(rows), NEW j, NEW due
    PROVE  /\ RowsOK([rows EXCEPT !.jobs[j].due = due])
           /\ SameDeals([rows EXCEPT !.jobs[j].due = due], rows)
BY DEF RowsOK, SameDeals

LEMMA CrewRows ==
    ASSUME NEW rows, RowsOK(rows), NEW j, NEW on
    PROVE  /\ RowsOK([rows EXCEPT !.jobs[j].names = on])
           /\ SameDeals([rows EXCEPT !.jobs[j].names = on], rows)
BY DEF RowsOK, SameDeals

LEMMA BorrowRows ==
    ASSUME NEW rows, RowsOK(rows), NEW l \in Loans, NEW h, NEW serial \in BOOLEAN
    PROVE  LET new == Borrow(rows, l, h, serial)
               unit == IF serial THEN Borrowed(l) ELSE NoUnit
           IN /\ RowsOK(new)
              /\ new.loans[l] = [way |-> "in", house |-> h, unit |-> unit, open |-> TRUE]
              /\ \A m \in Loans : m # l => new.loans[m] = rows.loans[m]
              /\ \A u \in Units : At(new, u) = IF u = unit THEN "here" ELSE At(rows, u)
<1> DEFINE unit == IF serial THEN Borrowed(l) ELSE NoUnit
           loans == [rows.loans EXCEPT ![l] = [way |-> "in", house |-> h, unit |-> unit, open |-> TRUE]]
           units == [u \in Units |-> IF u = unit THEN [at |-> "here", job |-> NoJob] ELSE rows.units[u]]
           new == Borrow(rows, l, h, serial)
<1>1. /\ DOMAIN new = DOMAIN rows /\ new.loans = loans /\ new.units = units
      /\ new.jobs = rows.jobs /\ new.houses = rows.houses
  <2> HIDE DEF unit
  <2>1. new = [rows EXCEPT !.loans[l] = [way |-> "in", house |-> h, unit |-> unit, open |-> TRUE],
                           !.units = [u \in Units |-> IF u = unit THEN [at |-> "here", job |-> NoJob]
                                                      ELSE @[u]]]
      BY DEF Borrow, unit
  <2> HIDE DEF new
  <2> QED BY <2>1 DEF RowsOK
<1> HIDE DEF unit, new
<1>2. /\ DOMAIN loans = Loans
      /\ loans[l] = [way |-> "in", house |-> h, unit |-> unit, open |-> TRUE]
      /\ \A m \in Loans : m # l => loans[m] = rows.loans[m]
    BY DEF RowsOK
<1>3. \A m \in Loans : DOMAIN loans[m] = {"way", "house", "unit", "open"}
    BY <1>2 DEF RowsOK
<1>4. /\ DOMAIN units = Units
      /\ \A u \in Units : units[u] = IF u = unit THEN [at |-> "here", job |-> NoJob] ELSE rows.units[u]
    OBVIOUS
<1>5. \A u \in Units : DOMAIN units[u] = {"at", "job"} /\ units[u].at \in Places
    BY <1>4 DEF RowsOK, Places
<1> HIDE DEF loans, units
<1>6. RowsOK(new)
    BY <1>1, <1>2, <1>3, <1>4, <1>5 DEF RowsOK
<1>7. \A u \in Units : At(new, u) = IF u = unit THEN "here" ELSE At(rows, u)
    BY <1>1, <1>4 DEF At
<1> QED BY <1>1, <1>2, <1>6, <1>7 DEF new, unit

LEMMA LendRows ==
    ASSUME NEW rows, RowsOK(rows), NEW l \in Loans, NEW h, NEW unit
    PROVE  LET new == Lend(rows, l, h, unit)
           IN /\ RowsOK(new) /\ new.units = rows.units
              /\ new.loans[l] = [way |-> "out", house |-> h, unit |-> unit, open |-> TRUE]
              /\ \A m \in Loans : m # l => new.loans[m] = rows.loans[m]
<1> DEFINE new == Lend(rows, l, h, unit)
           loans == [rows.loans EXCEPT ![l] = [way |-> "out", house |-> h, unit |-> unit, open |-> TRUE]]
           jobs == [rows.jobs EXCEPT ![LoanJob(l)] = [rows.jobs[LoanJob(l)] EXCEPT !.status = "open"]]
<1>1. /\ DOMAIN new = DOMAIN rows /\ new.loans = loans /\ new.units = rows.units /\ new.jobs = jobs
    BY DEF Lend, RowsOK
<1>2. /\ DOMAIN loans = Loans
      /\ loans[l] = [way |-> "out", house |-> h, unit |-> unit, open |-> TRUE]
      /\ \A m \in Loans : m # l => loans[m] = rows.loans[m]
    BY DEF RowsOK
<1>3. \A m \in Loans : DOMAIN loans[m] = {"way", "house", "unit", "open"}
    BY <1>2 DEF RowsOK
<1>4. DOMAIN jobs = Jobs /\ \A j \in Jobs : DOMAIN jobs[j] = {"status", "due", "names"}
    BY DEF RowsOK
<1> HIDE DEF loans, jobs, new
<1>5. RowsOK(new)
    BY <1>1, <1>2, <1>3, <1>4 DEF RowsOK
<1> QED BY <1>1, <1>2, <1>5 DEF new

(* A loan that is closed, and a unit that is sent home.                    *)
LEMMA ShutRows ==
    ASSUME NEW rows, RowsOK(rows), NEW l \in Loans
    PROVE  LET new == [rows EXCEPT !.loans[l].open = FALSE]
           IN /\ RowsOK(new) /\ new.units = rows.units
              /\ new.loans[l].way = rows.loans[l].way /\ new.loans[l].unit = rows.loans[l].unit
              /\ ~new.loans[l].open
              /\ \A m \in Loans : m # l => new.loans[m] = rows.loans[m]
BY DEF RowsOK

LEMMA UnitRows ==
    ASSUME NEW rows, RowsOK(rows), NEW u \in Units, NEW at \in Places
    PROVE  LET new == [rows EXCEPT !.units[u].at = at]
           IN /\ RowsOK(new) /\ new.loans = rows.loans /\ At(new, u) = at
              /\ \A v \in Units : v # u => new.units[v] = rows.units[v]
BY DEF RowsOK, At

LEMMA PlacedRows ==
    ASSUME NEW rows, RowsOK(rows), NEW u \in Units, NEW at \in Places, NEW job
    PROVE  LET new == [rows EXCEPT !.units[u] = [at |-> at, job |-> job]]
           IN /\ RowsOK(new) /\ new.loans = rows.loans /\ At(new, u) = at
              /\ \A v \in Units : v # u => new.units[v] = rows.units[v]
BY DEF RowsOK, At

LEMMA ScannedRows ==
    ASSUME NEW rows, RowsOK(rows), NEW o, o.op \in Scans => o.unit \in Units
    PROVE  LET new == Scanned(rows, o)
           IN /\ RowsOK(new) /\ new.loans = rows.loans
              /\ o.op \notin Scans => new = rows
              /\ \A v \in Units : v # o.unit => new.units[v] = rows.units[v]
              /\ o.op = "checkOut" => At(new, o.unit) = "out"
              /\ o.op = "checkIn" => At(new, o.unit) = "here"
              /\ o.op = "retire" => At(new, o.unit) = "gone"
<1>0. RowsOK(rows)
    OBVIOUS
<1>1. CASE o.op = "checkOut"
  <2>1. Scanned(rows, o) = [rows EXCEPT !.units[o.unit] = [at |-> "out", job |-> o.job]]
      BY <1>1 DEF Scanned
  <2>2. o.unit \in Units /\ "out" \in Places
      BY <1>1 DEF Scans, Places
  <2>3. LET new == [rows EXCEPT !.units[o.unit] = [at |-> "out", job |-> o.job]]
        IN /\ RowsOK(new) /\ new.loans = rows.loans /\ At(new, o.unit) = "out"
           /\ \A v \in Units : v # o.unit => new.units[v] = rows.units[v]
      BY ONLY <1>0, <2>2, PlacedRows
  <2> QED BY <1>1, <2>1, <2>3 DEF Scans
<1>2. CASE o.op = "checkIn"
  <2>1. Scanned(rows, o) = [rows EXCEPT !.units[o.unit] = [at |-> "here", job |-> NoJob]]
      BY <1>2 DEF Scanned
  <2>2. o.unit \in Units /\ "here" \in Places
      BY <1>2 DEF Scans, Places
  <2>3. LET new == [rows EXCEPT !.units[o.unit] = [at |-> "here", job |-> NoJob]]
        IN /\ RowsOK(new) /\ new.loans = rows.loans /\ At(new, o.unit) = "here"
           /\ \A v \in Units : v # o.unit => new.units[v] = rows.units[v]
      BY ONLY <1>0, <2>2, PlacedRows
  <2> QED BY <1>2, <2>1, <2>3 DEF Scans
<1>3. CASE o.op = "retire"
  <2>1. Scanned(rows, o) = [rows EXCEPT !.units[o.unit].at = "gone"]
      BY <1>3 DEF Scanned
  <2>2. o.unit \in Units /\ "gone" \in Places
      BY <1>3 DEF Scans, Places
  <2>3. LET new == [rows EXCEPT !.units[o.unit].at = "gone"]
        IN /\ RowsOK(new) /\ new.loans = rows.loans /\ At(new, o.unit) = "gone"
           /\ \A v \in Units : v # o.unit => new.units[v] = rows.units[v]
      BY ONLY <1>0, <2>2, UnitRows
  <2> QED BY <1>3, <2>1, <2>3 DEF Scans
<1>4. CASE o.op \notin Scans
    BY <1>4 DEF Scanned, Scans
<1> QED BY <1>1, <1>2, <1>3, <1>4 DEF Scans

-----------------------------------------------------------------------------
(* The replay, scan after scan.                                            *)
FoldStep(g, s, rows, q) ==
    IF s = {} THEN rows ELSE Projected(g[s \ {Max(s)}], q[Max(s)])
IsFold(g, S, rows, q) == g = [s \in SUBSET S |-> FoldStep(g, s, rows, q)]

LEMMA FoldExists ==
    ASSUME NEW rows, NEW q, NEW L \in Nat
    PROVE  \E g : IsFold(g, 1..L, rows, q)
<1> DEFINE T == {n \in Nat : \E g : IsFold(g, 1..n, rows, q)}
<1>1. 0 \in T
  <2> DEFINE g == [s \in SUBSET (1..0) |-> rows]
  <2>1. \A s \in SUBSET (1..0) : s = {}
      OBVIOUS
  <2>2. IsFold(g, 1..0, rows, q)
      BY <2>1 DEF IsFold, FoldStep
  <2> QED BY <2>2
<1>2. ASSUME NEW n \in Nat, n \in T PROVE n + 1 \in T
  <2>1. PICK g : IsFold(g, 1..n, rows, q)
      BY <1>2
  <2> DEFINE h == [s \in SUBSET (1..(n + 1)) |->
                      IF s \in SUBSET (1..n) THEN g[s] ELSE Projected(g[s \ {n + 1}], q[n + 1])]
  <2>2. \A s \in SUBSET (1..n) : s \in SUBSET (1..(n + 1))
      OBVIOUS
  <2>3. \A s \in SUBSET (1..n) : h[s] = g[s]
      BY <2>2
  <2>4. \A s \in SUBSET (1..(n + 1)) : s \notin SUBSET (1..n) =>
           n + 1 \in s /\ h[s] = Projected(g[s \ {n + 1}], q[n + 1])
      OBVIOUS
  <2>5. DOMAIN h = SUBSET (1..(n + 1)) /\ h = [s \in SUBSET (1..(n + 1)) |-> h[s]]
      OBVIOUS
  <2> HIDE DEF h
  <2>6. ASSUME NEW s \in SUBSET (1..(n + 1)) PROVE h[s] = FoldStep(h, s, rows, q)
    <3>1. CASE s = {}
      <4>1. s \in SUBSET (1..n)
          BY <3>1
      <4> QED BY <2>1, <2>3, <3>1, <4>1 DEF IsFold, FoldStep
    <3>2. CASE s # {}
      <4>1. Max(s) \in s /\ \A k \in s : k <= Max(s)
        <5>1. s \in SUBSET (0..(n + 1)) /\ n + 1 \in Nat
            OBVIOUS
        <5> QED BY ONLY <5>1, <3>2, GreatestNat
      <4>2. CASE s \in SUBSET (1..n)
        <5>1. s \ {Max(s)} \in SUBSET (1..n)
            BY <4>2
        <5>2. h[s \ {Max(s)}] = g[s \ {Max(s)}] /\ h[s] = g[s]
            BY <2>3, <4>2, <5>1
        <5>3. g[s] = FoldStep(g, s, rows, q)
            BY <2>1, <4>2 DEF IsFold
        <5> QED BY <3>2, <5>2, <5>3 DEF FoldStep
      <4>3. CASE s \notin SUBSET (1..n)
        <5>1. n + 1 \in s /\ h[s] = Projected(g[s \ {n + 1}], q[n + 1])
            BY <2>4, <4>3
        <5>2. Max(s) = n + 1
          <6> DEFINE m == Max(s)
          <6>1. m \in 1..(n + 1) /\ n + 1 <= m
              BY <4>1, <5>1
          <6> HIDE DEF m
          <6>2. m = n + 1
              BY <6>1
          <6> QED BY <6>2 DEF m
        <5>3. s \ {n + 1} \in SUBSET (1..n)
            OBVIOUS
        <5>4. h[s \ {n + 1}] = g[s \ {n + 1}]
            BY <2>3, <5>3
        <5> QED BY <3>2, <5>1, <5>2, <5>4 DEF FoldStep
      <4> QED BY <4>2, <4>3
    <3> QED BY <3>1, <3>2
  <2>7. IsFold(h, 1..(n + 1), rows, q)
      BY <2>5, <2>6 DEF IsFold
  <2> QED BY <2>7
<1>3. Nat \subseteq T
  <2> HIDE DEF T
  <2> QED BY <1>1, <1>2, NatSetInduction
<1> QED BY <1>3

LEMMA ReplaySteps ==
    ASSUME NEW rows, QueueOK(queue)
    PROVE  \E f : /\ f[0] = rows /\ f[Len(queue)] = Replayed(rows)
                  /\ \A k \in 1..Len(queue) : f[k] = Projected(f[k - 1], queue[k])
<1> DEFINE L == Len(queue)
           g == CHOOSE g : IsFold(g, 1..L, rows, queue)
           f == [k \in 0..L |-> g[1..k]]
<1>1. L \in Nat /\ DOMAIN queue = 1..L
    BY QueueFacts
<1>2. IsFold(g, 1..L, rows, queue)
  <2> HIDE DEF L
  <2> QED BY <1>1, FoldExists
<1>3. Replayed(rows) = g[1..L]
  <2> HIDE DEF L
  <2> QED BY <1>1 DEF Replayed, FoldLeft, MapThenFoldSet, IsFold, FoldStep
<1> HIDE DEF g, L
<1>4. \A s \in SUBSET (1..L) : g[s] = FoldStep(g, s, rows, queue)
    BY <1>2 DEF IsFold
<1>5. f[0] = rows
  <2>1. 1..0 = {} /\ {} \in SUBSET (1..L) /\ 0 \in 0..L
      BY <1>1
  <2> QED BY <1>4, <2>1 DEF FoldStep
<1>6. f[L] = g[1..L]
    BY <1>1
<1>7. ASSUME NEW k \in 1..L PROVE f[k] = Projected(f[k - 1], queue[k])
  <2>1. 1..k \in SUBSET (1..L) /\ 1..k # {} /\ k \in 1..k /\ (1..k) \ {k} = 1..(k - 1)
        /\ k \in 0..L /\ k - 1 \in 0..L /\ k \in Nat
      BY <1>1
  <2>2. Max(1..k) = k
    <3>1. 1..k \in SUBSET (0..k)
        OBVIOUS
    <3>2. Max(1..k) \in 1..k /\ \A x \in 1..k : x <= Max(1..k)
        BY ONLY <2>1, <3>1, GreatestNat
    <3> DEFINE m == Max(1..k)
    <3>3. m \in 1..k /\ k <= m
        BY <2>1, <3>2
    <3> HIDE DEF m
    <3>4. m = k
        BY <2>1, <3>3
    <3> QED BY <3>4 DEF m
  <2>3. g[1..k] = Projected(g[1..(k - 1)], queue[k])
      BY <1>4, <2>1, <2>2 DEF FoldStep
  <2> QED BY <2>1, <2>3
<1> QED BY <1>3, <1>5, <1>6, <1>7 DEF L

(* What a replay does to a unit is what its last waiting scan does.        *)
LEMMA ReplayFacts ==
    ASSUME NEW rows, RowsOK(rows), QueueOK(queue),
           \A t \in Waiting : t.op \in Scans => t.unit \in Units
    PROVE  LET new == Replayed(rows) IN
           /\ RowsOK(new) /\ new.loans = rows.loans
           /\ \A u \in Units : (\A t \in Waiting : t.op \in Scans => t.unit # u) => At(new, u) = At(rows, u)
           /\ \A r \in Waiting :
                 /\ r.op = "retire"
                 /\ \A t \in Waiting : t.op \in Scans /\ t.unit = r.unit => t.n <= r.n
                 => At(new, r.unit) = "gone"
           /\ \A u \in Units : At(new, u) = "gone" =>
                 At(rows, u) = "gone" \/ \E t \in Waiting : t.op = "retire" /\ t.unit = u
<1> DEFINE L == Len(queue)
<1>1. PICK f : /\ f[0] = rows /\ f[L] = Replayed(rows)
               /\ \A k \in 1..L : f[k] = Projected(f[k - 1], queue[k])
    BY ReplaySteps
<1>2. L \in Nat /\ DOMAIN queue = 1..L
    BY QueueFacts
<1> HIDE DEF L
<1> DEFINE Plays(i) == queue[i].state # "failed" /\ queue[i].op \in Scans
           Kept(k) == \A u \in Units : (\A i \in 1..k : Plays(i) => queue[i].unit # u) =>
                         At(f[k], u) = At(rows, u)
           Gone(k) == \A i \in 1..k :
                         /\ Plays(i) /\ queue[i].op = "retire"
                         /\ \A j \in 1..k : i < j /\ Plays(j) => queue[j].unit # queue[i].unit
                         => At(f[k], queue[i].unit) = "gone"
           Why(k) == \A u \in Units : At(f[k], u) = "gone" =>
                         At(rows, u) = "gone" \/ \E i \in 1..k :
                             Plays(i) /\ queue[i].op = "retire" /\ queue[i].unit = u
           Holds(k) == RowsOK(f[k]) /\ f[k].loans = rows.loans /\ Kept(k) /\ Gone(k) /\ Why(k)
           T == {k \in Nat : k <= L => Holds(k)}
<1>3. 0 \in T
    BY <1>1
<1>4. \A i \in 1..L : /\ IsOp(queue[i])
                      /\ queue[i].state # "failed" => Ticket(queue[i]) \in Waiting
    BY <1>2, Here DEF QueueOK
<1>5. \A i \in 1..L : Plays(i) => queue[i].unit \in Units
    BY <1>4 DEF Ticket
<1>6. ASSUME NEW k \in Nat, k \in T PROVE k + 1 \in T
  <2> SUFFICES ASSUME k + 1 <= L PROVE Holds(k + 1)
      OBVIOUS
  <2> DEFINE o == queue[k + 1]
  <2>1. k + 1 \in 1..L /\ k <= L /\ (k + 1) - 1 = k
      BY <1>2
  <2>2. Holds(k)
      BY <1>6, <2>1
  <2>3. f[k + 1] = Projected(f[k], o) /\ IsOp(o)
      BY <1>1, <1>4, <2>1
  <2>4. CASE ~Plays(k + 1)
    <3>1. f[k + 1] = f[k]
      <4>1. CASE o.state = "failed"
          BY <2>3, <4>1 DEF Projected
      <4>2. CASE o.state # "failed"
          BY <2>3, <2>4, <4>2 DEF Projected, Scanned, Scans
      <4> QED BY <4>1, <4>2
    <3>2. Kept(k + 1)
        BY <2>2, <3>1
    <3>3. Gone(k + 1)
        BY <2>2, <2>4, <3>1
    <3>4. Why(k + 1)
        BY <2>2, <3>1
    <3> QED BY <2>2, <3>1, <3>2, <3>3, <3>4
  <2>5. CASE Plays(k + 1)
    <3>1. f[k + 1] = Scanned(f[k], o) /\ OpFields(o) /\ o.unit \in Units
        BY <1>5, <2>1, <2>3, <2>5 DEF Projected, IsOp
    <3>2. /\ RowsOK(f[k + 1]) /\ f[k + 1].loans = f[k].loans
          /\ \A v \in Units : v # o.unit => At(f[k + 1], v) = At(f[k], v)
          /\ o.op = "checkOut" => At(f[k + 1], o.unit) = "out"
          /\ o.op = "checkIn" => At(f[k + 1], o.unit) = "here"
          /\ o.op = "retire" => At(f[k + 1], o.unit) = "gone"
      <4> HIDE DEF o
      <4> QED BY <2>2, <3>1, ScannedRows DEF At
    <3>3. Kept(k + 1)
      <4> SUFFICES ASSUME NEW u \in Units, \A i \in 1..(k + 1) : Plays(i) => queue[i].unit # u
                   PROVE  At(f[k + 1], u) = At(rows, u)
          OBVIOUS
      <4>1. u # o.unit
          BY <2>5
      <4>2. At(f[k], u) = At(rows, u)
          BY <2>2
      <4> QED BY <3>2, <4>1, <4>2
    <3>4. Gone(k + 1)
      <4> SUFFICES ASSUME NEW i \in 1..(k + 1), Plays(i), queue[i].op = "retire",
                          \A j \in 1..(k + 1) : i < j /\ Plays(j) => queue[j].unit # queue[i].unit
                   PROVE  At(f[k + 1], queue[i].unit) = "gone"
          OBVIOUS
      <4>1. CASE i = k + 1
          BY <3>2, <4>1
      <4>2. CASE i # k + 1
        <5>1. i \in 1..k /\ i < k + 1 /\ i \in 1..L
          <6>1. i \in 1..(k + 1) /\ k \in Nat /\ L \in Nat /\ k + 1 <= L
              BY <1>2
          <6> QED BY ONLY <4>2, <6>1
        <5>2. queue[i].unit # o.unit
            BY <2>5, <5>1
        <5>3. At(f[k], queue[i].unit) = "gone"
            BY <2>2, <5>1
        <5> QED BY <1>5, <3>2, <5>1, <5>2, <5>3
      <4> QED BY <4>1, <4>2
    <3>5. Why(k + 1)
      <4> SUFFICES ASSUME NEW u \in Units, At(f[k + 1], u) = "gone", At(rows, u) # "gone"
                   PROVE  \E i \in 1..(k + 1) : Plays(i) /\ queue[i].op = "retire" /\ queue[i].unit = u
          OBVIOUS
      <4>1. CASE u = o.unit
        <5>1. o.op = "retire"
            BY <2>5, <3>2, <4>1 DEF Scans
        <5> QED BY <2>5, <4>1, <5>1
      <4>2. CASE u # o.unit
        <5>1. At(f[k], u) = "gone"
            BY <3>2, <4>2
        <5> QED BY <2>2, <5>1
      <4> QED BY <4>1, <4>2
    <3> QED BY <2>2, <3>2, <3>3, <3>4, <3>5
  <2> QED BY <2>4, <2>5
<1>7. Holds(L)
  <2>1. Nat \subseteq T
    <3> HIDE DEF T
    <3> QED BY <1>3, <1>6, NatSetInduction
  <2> QED BY <1>2, <2>1
<1> HIDE DEF Kept, Gone, Why
<1>8. \A t \in Waiting : t.op \in Scans =>
         \E i \in 1..L : Plays(i) /\ t = Ticket(queue[i])
    BY <1>2, Here DEF Ticket
<1>9. \A i \in 1..L : Plays(i) => /\ Ticket(queue[i]) \in Waiting
                                  /\ Ticket(queue[i]).op = queue[i].op
                                  /\ Ticket(queue[i]).unit = queue[i].unit
                                  /\ Ticket(queue[i]).n = queue[i].n
    BY <1>4 DEF Ticket
<1>10. ASSUME NEW u \in Units, \A t \in Waiting : t.op \in Scans => t.unit # u
       PROVE  At(f[L], u) = At(rows, u)
  <2>1. \A i \in 1..L : Plays(i) => queue[i].unit # u
      BY <1>9, <1>10
  <2> QED BY <1>7, <2>1 DEF Kept
<1>11. ASSUME NEW r \in Waiting, r.op = "retire",
              \A t \in Waiting : t.op \in Scans /\ t.unit = r.unit => t.n <= r.n
       PROVE  At(f[L], r.unit) = "gone"
  <2>1. PICK i \in 1..L : Plays(i) /\ r = Ticket(queue[i])
      BY <1>8, <1>11 DEF Scans
  <2>2. queue[i].op = "retire" /\ queue[i].unit = r.unit /\ queue[i].n = r.n
      BY <1>9, <1>11, <2>1
  <2>3. ASSUME NEW j \in 1..L, i < j, Plays(j), queue[j].unit = queue[i].unit PROVE FALSE
    <3>1. queue[j].n <= queue[i].n
        BY <1>9, <1>11, <2>2, <2>3
    <3>2. queue[i].n < queue[j].n /\ queue[i].n \in Nat /\ queue[j].n \in Nat
        BY <1>2, <1>4, <2>3 DEF QueueOK, IsOp
    <3> QED BY <3>1, <3>2
  <2> QED BY <1>7, <2>1, <2>2, <2>3 DEF Gone
<1>12. ASSUME NEW u \in Units, At(f[L], u) = "gone", At(rows, u) # "gone"
       PROVE  \E t \in Waiting : t.op = "retire" /\ t.unit = u
  <2>1. PICK i \in 1..L : Plays(i) /\ queue[i].op = "retire" /\ queue[i].unit = u
      BY <1>7, <1>12 DEF Why
  <2> QED BY <1>9, <2>1
<1> QED BY <1>1, <1>7, <1>10, <1>11, <1>12

-----------------------------------------------------------------------------
(* What relates the tickets, the phone's rows ph, the server's sv, the     *)
(* units nw the next page will tell and the page pg on its way.            *)
Serial(rows, l) == rows.loans[l].way = "in" /\ rows.loans[l].unit # NoUnit
Ended(rows, l) == Serial(rows, l) /\ ~rows.loans[l].open

TicketsOK(T) ==
    /\ T \in SUBSET TicketSet /\ Bounded(T)
    /\ \A s, t \in T : s.n = t.n => s = t
    /\ \A s, t \in T : s.op \in Deals /\ t.op \in Deals /\ s.loan = t.loan => s = t

(* A ticket says of its loan what the phone says, for good; a unit is sent *)
(* home only by closing its loan.                                          *)
TicketOK(t, ph) ==
    /\ t.op \in Deals \cup {"close"} =>
          t.loan \in Loans /\ ph.loans[t.loan].unit = t.unit
    /\ t.op = "borrow" => /\ ph.loans[t.loan].way = "in"
                          /\ t.unit = IF t.flag THEN Borrowed(t.loan) ELSE NoUnit
    /\ t.op = "lend" => ph.loans[t.loan].way = "out"
    /\ t.op = "close" => ph.loans[t.loan].way # "none" /\ ~ph.loans[t.loan].open
    /\ t.op \in Others => t.unit = NoUnit
    /\ t.op \in Scans => t.parent = 0 /\ t.unit \in Units
    /\ t.op = "retire" => \E l \in Loans : t.unit = Borrowed(l) /\ Ended(ph, l)

LoanOK(ph, sv, l) ==
    /\ ph.loans[l].way \in {"none", "in", "out"}
    /\ ph.loans[l].way = "none" => ph.loans[l] = NoLoan
    /\ ph.loans[l].way = "in" => ph.loans[l].unit \in {NoUnit, Borrowed(l)}
    /\ ph.loans[l].way = "out" => ph.loans[l].unit \in Fleet \cup {NoUnit}
    /\ sv.loans[l].way # "none" => /\ sv.loans[l].way = ph.loans[l].way
                                   /\ sv.loans[l].unit = ph.loans[l].unit
    /\ sv.loans[l].way = "none" => ~sv.loans[l].open

(* Whoever shows a unit as gone: the phone has closed its loan.            *)
GoneOK(ph, sv, pg) ==
    \A u \in Units :
        At(ph, u) = "gone" \/ At(sv, u) = "gone" \/ (u \in pg.units /\ At(pg.rows, u) = "gone") =>
            \E l \in Loans : u = Borrowed(l) /\ Ended(ph, l)

ServedOK(W, D, ph, sv, nw, pg) ==
    /\ \A u \in Fleet : At(sv, u) # "none"
    /\ \A l \in Loans : At(sv, Borrowed(l)) # "none" =>
          ph.loans[l].way = "in" /\ ph.loans[l].unit = Borrowed(l)
    /\ \A t \in W \ D : t.op = "borrow" /\ t.flag => At(sv, t.unit) = "none"
    /\ \A t \in D : t.op = "retire" => At(sv, t.unit) = "gone"
    /\ \A u \in nw \cup pg.units : u \in Units /\ At(sv, u) # "none"
    /\ \A l \in Loans : Ended(sv, l) => At(sv, Borrowed(l)) = "gone"
    /\ \A l \in Loans : Serial(sv, l) => At(sv, Borrowed(l)) # "none"

(* Gear whose loan the phone has closed is on its way out of the fleet -   *)
(* its last waiting scan sends it home - or it is out wherever it could    *)
(* come back from.                                                         *)
Leaving(W, l) ==
    \E r \in W :
        /\ r.op = "retire" /\ r.unit = Borrowed(l)
        /\ \A t \in W : t.unit = Borrowed(l) /\ t.op \in Scans \cup {"borrow"} => t.n <= r.n
HasLeft(W, sv, pg, l) ==
    /\ \A t \in W : t.op \in Scans \cup {"borrow"} => t.unit # Borrowed(l)
    /\ At(sv, Borrowed(l)) \in {"gone", "none"}
    /\ Borrowed(l) \in pg.units => At(pg.rows, Borrowed(l)) = "gone"
HomeOK(W, ph, sv, pg) ==
    \A l \in Loans : Ended(ph, l) =>
        At(ph, Borrowed(l)) = "gone" /\ (Leaving(W, l) \/ HasLeft(W, sv, pg, l))

HouseInv(W, F, D, ph, sv, nw, pg) ==
    /\ TicketsOK(W \cup F \cup D) /\ \A t \in W \cup F \cup D : TicketOK(t, ph)
    /\ \A l \in Loans : LoanOK(ph, sv, l)
    /\ GoneOK(ph, sv, pg)
    /\ ServedOK(W, D, ph, sv, nw, pg)
    /\ HomeOK(W, ph, sv, pg)

-----------------------------------------------------------------------------
(* The phone's writes.                                                     *)
LEMMA TicketAdded ==
    ASSUME NEW T, TicketsOK(T), NEW t \in TicketSet, \A s \in T : s.n < t.n,
           t.op \in Deals => \A s \in T : s.op \in Deals => s.loan # t.loan
    PROVE  TicketsOK(T \cup {t})
<1>1. T \cup {t} \in SUBSET TicketSet
    BY DEF TicketsOK
<1>2. Bounded(T \cup {t})
  <2>1. t.n \in Nat /\ \A s \in T : s.n \in Nat
      BY DEF TicketsOK, TicketSet
  <2>2. \A s \in T \cup {t} : s.n <= t.n
      BY <2>1
  <2> QED BY <2>1, <2>2 DEF Bounded
<1>3. \A s \in T : s.n # t.n
  <2>1. t.n \in Nat /\ \A s \in T : s.n \in Nat
      BY DEF TicketsOK, TicketSet
  <2> QED BY <2>1
<1>4. \A s, x \in T \cup {t} : s.n = x.n => s = x
    BY <1>3 DEF TicketsOK
<1>5. \A s, x \in T \cup {t} : s.op \in Deals /\ x.op \in Deals /\ s.loan = x.loan => s = x
    BY DEF TicketsOK
<1> QED BY <1>1, <1>2, <1>4, <1>5 DEF TicketsOK

LEMMA PlainWrite ==
    ASSUME NEW W, NEW F, NEW D, NEW ph, NEW sv, NEW nw, NEW pg,
           HouseInv(W, F, D, ph, sv, nw, pg),
           NEW new, SameDeals(new, ph),
           NEW t \in TicketSet, t.op \in Others, t.unit = NoUnit,
           \A s \in W \cup F \cup D : s.n < t.n
    PROVE  HouseInv(W \cup {t}, F, D, new, sv, nw, pg)
<1> DEFINE T == W \cup F \cup D
<1>1. (W \cup {t}) \cup F \cup D = T \cup {t}
    OBVIOUS
<1>2. TicketsOK(T \cup {t})
  <2>1. t.op \notin Deals
      BY DEF Others, Deals
  <2> QED BY <2>1, TicketAdded DEF HouseInv
<1>3. /\ \A l \in Loans : new.loans[l] = ph.loans[l] /\ (Ended(new, l) <=> Ended(ph, l))
      /\ \A u \in Units : At(new, u) = At(ph, u)
    BY DEF SameDeals, Ended, Serial, At
<1>4. \A s \in T \cup {t} : TicketOK(s, new)
  <2>1. ASSUME NEW s \in T PROVE TicketOK(s, new)
    <3>1. TicketOK(s, ph)
        BY DEF HouseInv
    <3>2. s.op \in Deals \cup {"close"} => s.loan \in Loans /\ new.loans[s.loan] = ph.loans[s.loan]
        BY <1>3, <3>1 DEF TicketOK
    <3>3. s.op = "retire" => \E l \in Loans : s.unit = Borrowed(l) /\ Ended(new, l)
        BY <1>3, <3>1 DEF TicketOK
    <3> QED BY <3>1, <3>2, <3>3 DEF TicketOK, Deals
  <2>2. TicketOK(t, new)
      BY DEF TicketOK, Others, Deals, Scans
  <2> QED BY <2>1, <2>2
<1>5. \A l \in Loans : LoanOK(new, sv, l)
    BY <1>3 DEF HouseInv, LoanOK
<1>6. GoneOK(new, sv, pg)
    BY <1>3 DEF HouseInv, GoneOK
<1>7. ServedOK(W \cup {t}, D, new, sv, nw, pg)
  <2>1. t.op # "borrow"
      BY DEF Others
  <2> QED BY <1>3, <2>1 DEF HouseInv, ServedOK
<1>8. HomeOK(W \cup {t}, new, sv, pg)
  <2> SUFFICES ASSUME NEW l \in Loans, Ended(new, l)
               PROVE  /\ At(new, Borrowed(l)) = "gone"
                      /\ Leaving(W \cup {t}, l) \/ HasLeft(W \cup {t}, sv, pg, l)
      BY DEF HomeOK
  <2>1. At(ph, Borrowed(l)) = "gone" /\ (Leaving(W, l) \/ HasLeft(W, sv, pg, l))
      BY <1>3 DEF HouseInv, HomeOK
  <2>2. t.unit # Borrowed(l)
      BY UnitsApart
  <2>3. Leaving(W, l) => Leaving(W \cup {t}, l)
      BY <2>2 DEF Leaving
  <2>4. HasLeft(W, sv, pg, l) => HasLeft(W \cup {t}, sv, pg, l)
      BY <2>2 DEF HasLeft
  <2> QED BY <1>3, <2>1, <2>3, <2>4, UnitsApart
<1> QED BY <1>1, <1>2, <1>4, <1>5, <1>6, <1>7, <1>8 DEF HouseInv

(* A sub-hire is recorded, in or out.                                      *)
DealMade(ph, new, l, t) ==
    /\ ph.loans[l] = NoLoan
    /\ \A m \in Loans : m # l => new.loans[m] = ph.loans[m]
    /\ t.op \in Deals /\ t.loan = l
    /\ new.loans[l].way = (IF t.op = "borrow" THEN "in" ELSE "out")
    /\ new.loans[l].unit = t.unit /\ new.loans[l].open = TRUE
    /\ t.op = "borrow" => t.unit = IF t.flag THEN Borrowed(l) ELSE NoUnit
    /\ t.op = "lend" => t.unit \in Fleet \cup {NoUnit}
    /\ \A u \in Units : At(new, u) = At(ph, u) \/ (u = Borrowed(l) /\ At(new, u) = "here")

LEMMA DealWritten ==
    ASSUME NEW W, NEW F, NEW D, NEW ph, NEW sv, NEW nw, NEW pg,
           HouseInv(W, F, D, ph, sv, nw, pg),
           NEW new, NEW l \in Loans, NEW t \in TicketSet, DealMade(ph, new, l, t),
           \A s \in W \cup F \cup D : s.n < t.n
    PROVE  HouseInv(W \cup {t}, F, D, new, sv, nw, pg)
<1> USE DEF DealMade
<1> DEFINE T == W \cup F \cup D
<1>1. (W \cup {t}) \cup F \cup D = T \cup {t}
    OBVIOUS
<1>2. ph.loans[l].way = "none" /\ ~Ended(ph, l) /\ ~Ended(new, l)
    BY DEF NoLoan, Ended, Serial
<1>3. \A s \in T : s.op \in Deals \cup {"close"} => s.loan \in Loans /\ s.loan # l
    BY <1>2 DEF HouseInv, TicketOK, Deals
<1>4. \A m \in Loans : m # l => (Ended(new, m) <=> Ended(ph, m))
    BY DEF Ended, Serial
<1>5. TicketsOK(T \cup {t})
    BY <1>3, TicketAdded DEF HouseInv
<1>6. \A s \in T \cup {t} : TicketOK(s, new)
  <2>1. ASSUME NEW s \in T PROVE TicketOK(s, new)
    <3>1. TicketOK(s, ph)
        BY DEF HouseInv
    <3>2. s.op \in Deals \cup {"close"} => s.loan \in Loans /\ new.loans[s.loan] = ph.loans[s.loan]
        BY <1>3
    <3>3. s.op = "retire" => \E m \in Loans : s.unit = Borrowed(m) /\ Ended(new, m)
        BY <1>2, <1>4, <3>1 DEF TicketOK
    <3> QED BY <3>1, <3>2, <3>3 DEF TicketOK, Deals
  <2>2. TicketOK(t, new)
      BY DEF TicketOK, Others, Deals, Scans
  <2> QED BY <2>1, <2>2
<1>7. \A m \in Loans : LoanOK(new, sv, m)
  <2> SUFFICES ASSUME NEW m \in Loans PROVE LoanOK(new, sv, m)
      OBVIOUS
  <2>1. LoanOK(ph, sv, m)
      BY DEF HouseInv
  <2>2. CASE m # l
      BY <2>1, <2>2 DEF LoanOK
  <2>3. CASE m = l
    <3>1. sv.loans[l].way = "none" /\ ~sv.loans[l].open
        BY <1>2, <2>1, <2>3 DEF LoanOK
    <3>2. new.loans[l].way \in {"in", "out"} /\ new.loans[l].unit = t.unit
        OBVIOUS
    <3>3. new.loans[l].way = "in" => t.unit \in {NoUnit, Borrowed(l)}
        BY DEF Deals
    <3>4. new.loans[l].way = "out" => t.unit \in Fleet \cup {NoUnit}
        BY DEF Deals
    <3> QED BY ONLY <2>3, <3>1, <3>2, <3>3, <3>4 DEF LoanOK
  <2> QED BY <2>2, <2>3
<1>8. GoneOK(new, sv, pg)
  <2> SUFFICES ASSUME NEW u \in Units,
                      At(new, u) = "gone" \/ At(sv, u) = "gone"
                          \/ (u \in pg.units /\ At(pg.rows, u) = "gone")
               PROVE  \E m \in Loans : u = Borrowed(m) /\ Ended(new, m)
      BY DEF GoneOK
  <2>1. PICK m \in Loans : u = Borrowed(m) /\ Ended(ph, m)
      BY DEF HouseInv, GoneOK
  <2> QED BY <1>2, <1>4, <2>1
<1>9. ServedOK(W \cup {t}, D, new, sv, nw, pg)
  <2>1. \A m \in Loans : At(sv, Borrowed(m)) # "none" =>
           m # l /\ ph.loans[m].way = "in" /\ ph.loans[m].unit = Borrowed(m)
      BY <1>2 DEF HouseInv, ServedOK
  <2>2. t.op = "borrow" /\ t.flag => At(sv, t.unit) = "none"
      BY <2>1
  <2> QED BY <2>1, <2>2 DEF HouseInv, ServedOK
<1>10. HomeOK(W \cup {t}, new, sv, pg)
  <2> SUFFICES ASSUME NEW m \in Loans, Ended(new, m)
               PROVE  /\ At(new, Borrowed(m)) = "gone"
                      /\ Leaving(W \cup {t}, m) \/ HasLeft(W \cup {t}, sv, pg, m)
      BY DEF HomeOK
  <2>0. m # l /\ Ended(ph, m)
      BY <1>2, <1>4
  <2>1. At(ph, Borrowed(m)) = "gone" /\ (Leaving(W, m) \/ HasLeft(W, sv, pg, m))
      BY <2>0 DEF HouseInv, HomeOK
  <2>2. t.unit # Borrowed(m)
      BY <2>0, UnitsApart DEF Deals
  <2>3. Leaving(W, m) => Leaving(W \cup {t}, m)
      BY <2>2 DEF Leaving
  <2>4. HasLeft(W, sv, pg, m) => HasLeft(W \cup {t}, sv, pg, m)
      BY <2>2 DEF HasLeft
  <2>5. At(new, Borrowed(m)) = "gone"
      BY <2>0, <2>1, UnitsApart
  <2> QED BY <2>1, <2>3, <2>4, <2>5
<1> QED BY <1>1, <1>5, <1>6, <1>7, <1>8, <1>9, <1>10 DEF HouseInv

(* A scan of a unit the phone still shows.                                 *)
LEMMA ScanWritten ==
    ASSUME NEW W, NEW F, NEW D, NEW ph, NEW sv, NEW nw, NEW pg,
           HouseInv(W, F, D, ph, sv, nw, pg),
           NEW new, new.loans = ph.loans,
           NEW u \in Units, At(ph, u) # "gone", At(new, u) # "gone",
           \A v \in Units : v # u => At(new, v) = At(ph, v),
           NEW t \in TicketSet, t.op \in {"checkOut", "checkIn"}, t.unit = u, t.parent = 0,
           \A s \in W \cup F \cup D : s.n < t.n
    PROVE  HouseInv(W \cup {t}, F, D, new, sv, nw, pg)
<1> DEFINE T == W \cup F \cup D
<1>1. (W \cup {t}) \cup F \cup D = T \cup {t}
    OBVIOUS
<1>2. \A l \in Loans : new.loans[l] = ph.loans[l] /\ (Ended(new, l) <=> Ended(ph, l))
    BY DEF Ended, Serial
<1>3. \A l \in Loans : Ended(ph, l) => u # Borrowed(l)
    BY DEF HouseInv, HomeOK
<1>4. TicketsOK(T \cup {t})
  <2>1. t.op \notin Deals
      BY DEF Deals
  <2> QED BY <2>1, TicketAdded DEF HouseInv
<1>5. \A s \in T \cup {t} : TicketOK(s, new)
  <2>1. ASSUME NEW s \in T PROVE TicketOK(s, new)
    <3>1. TicketOK(s, ph)
        BY DEF HouseInv
    <3>2. s.op = "retire" => \E l \in Loans : s.unit = Borrowed(l) /\ Ended(new, l)
        BY <1>2, <3>1 DEF TicketOK
    <3> QED BY <3>1, <3>2 DEF TicketOK
  <2>2. TicketOK(t, new)
      BY DEF TicketOK, Others, Deals, Scans
  <2> QED BY <2>1, <2>2
<1>6. \A l \in Loans : LoanOK(new, sv, l)
    BY <1>2 DEF HouseInv, LoanOK
<1>7. GoneOK(new, sv, pg)
  <2> SUFFICES ASSUME NEW v \in Units,
                      At(new, v) = "gone" \/ At(sv, v) = "gone"
                          \/ (v \in pg.units /\ At(pg.rows, v) = "gone")
               PROVE  \E l \in Loans : v = Borrowed(l) /\ Ended(new, l)
      BY DEF GoneOK
  <2>1. At(ph, v) = "gone" \/ At(sv, v) = "gone" \/ (v \in pg.units /\ At(pg.rows, v) = "gone")
      OBVIOUS
  <2>2. PICK l \in Loans : v = Borrowed(l) /\ Ended(ph, l)
      BY <2>1 DEF HouseInv, GoneOK
  <2> QED BY <1>2, <2>2
<1>8. ServedOK(W \cup {t}, D, new, sv, nw, pg)
    BY <1>2 DEF HouseInv, ServedOK
<1>9. HomeOK(W \cup {t}, new, sv, pg)
  <2> SUFFICES ASSUME NEW l \in Loans, Ended(new, l)
               PROVE  /\ At(new, Borrowed(l)) = "gone"
                      /\ Leaving(W \cup {t}, l) \/ HasLeft(W \cup {t}, sv, pg, l)
      BY DEF HomeOK
  <2>0. Ended(ph, l) /\ u # Borrowed(l)
      BY <1>2, <1>3
  <2>1. At(ph, Borrowed(l)) = "gone" /\ (Leaving(W, l) \/ HasLeft(W, sv, pg, l))
      BY <2>0 DEF HouseInv, HomeOK
  <2>3. Leaving(W, l) => Leaving(W \cup {t}, l)
      BY <2>0 DEF Leaving
  <2>4. HasLeft(W, sv, pg, l) => HasLeft(W \cup {t}, sv, pg, l)
      BY <2>0 DEF HasLeft
  <2> QED BY <2>0, <2>1, <2>3, <2>4, UnitsApart
<1> QED BY <1>1, <1>4, <1>5, <1>6, <1>7, <1>8, <1>9 DEF HouseInv

ClosedLoan(ph, new, l) ==
    /\ ph.loans[l].open = TRUE /\ ~new.loans[l].open
    /\ new.loans[l].way = ph.loans[l].way /\ new.loans[l].unit = ph.loans[l].unit
    /\ \A m \in Loans : m # l => new.loans[m] = ph.loans[m]

(* A loan is closed on the phone: what the two ways of closing share.      *)
LEMMA ClosedTickets ==
    ASSUME NEW W, NEW F, NEW D, NEW ph, NEW sv, NEW nw, NEW pg,
           HouseInv(W, F, D, ph, sv, nw, pg),
           NEW new, NEW l \in Loans, ClosedLoan(ph, new, l)
    PROVE  /\ \A m \in Loans : Ended(ph, m) => Ended(new, m) /\ m # l
           /\ \A m \in Loans : m # l /\ Ended(new, m) => Ended(ph, m)
           /\ \A s \in W \cup F \cup D : TicketOK(s, new)
           /\ \A m \in Loans : LoanOK(new, sv, m)
           /\ ph.loans[l].way # "none"
           /\ \A u \in Units : At(ph, u) = "gone" \/ At(sv, u) = "gone"
                                  \/ (u \in pg.units /\ At(pg.rows, u) = "gone") =>
                 \E m \in Loans : u = Borrowed(m) /\ Ended(new, m)
           /\ ServedOK(W, D, new, sv, nw, pg)
<1> USE DEF ClosedLoan
<1>1. \A m \in Loans : Ended(ph, m) => Ended(new, m) /\ m # l
    BY DEF Ended, Serial
<1>2. \A m \in Loans : m # l /\ Ended(new, m) => Ended(ph, m)
    BY DEF Ended, Serial
<1>3. \A m \in Loans : new.loans[m].way = ph.loans[m].way /\ new.loans[m].unit = ph.loans[m].unit
    OBVIOUS
<1>4. ph.loans[l].way # "none"
    BY DEF HouseInv, LoanOK, NoLoan
<1>5. ASSUME NEW s \in W \cup F \cup D PROVE TicketOK(s, new)
  <2>1. TicketOK(s, ph)
      BY DEF HouseInv
  <2>2. s.op = "retire" => \E m \in Loans : s.unit = Borrowed(m) /\ Ended(new, m)
      BY <1>1, <2>1 DEF TicketOK
  <2>3. s.op = "close" => ~new.loans[s.loan].open
      BY <2>1 DEF TicketOK
  <2>4. s.op \in Deals \cup {"close"} =>
           /\ new.loans[s.loan].way = ph.loans[s.loan].way
           /\ new.loans[s.loan].unit = ph.loans[s.loan].unit
      BY <1>3, <2>1 DEF TicketOK
  <2> QED BY <2>1, <2>2, <2>3, <2>4 DEF TicketOK, Deals
<1>6. ASSUME NEW m \in Loans PROVE LoanOK(new, sv, m)
  <2>1. LoanOK(ph, sv, m)
      BY DEF HouseInv
  <2>2. CASE m # l
      BY <2>1, <2>2 DEF LoanOK
  <2>3. CASE m = l
      BY <1>3, <1>4, <2>1, <2>3 DEF LoanOK
  <2> QED BY <2>2, <2>3
<1>7. ASSUME NEW u \in Units, At(ph, u) = "gone" \/ At(sv, u) = "gone"
                                  \/ (u \in pg.units /\ At(pg.rows, u) = "gone")
      PROVE  \E m \in Loans : u = Borrowed(m) /\ Ended(new, m)
    BY <1>1, <1>7 DEF HouseInv, GoneOK
<1>8. ServedOK(W, D, new, sv, nw, pg)
    BY <1>3 DEF HouseInv, ServedOK
<1> QED BY <1>1, <1>2, <1>4, <1>5, <1>6, <1>7, <1>8

(* ... with the scan that sends the borrowed unit home before it,          *)
LEMMA SentBack ==
    ASSUME NEW W, NEW F, NEW D, NEW ph, NEW sv, NEW nw, NEW pg,
           HouseInv(W, F, D, ph, sv, nw, pg),
           NEW new, NEW l \in Loans, ClosedLoan(ph, new, l),
           ph.loans[l].way = "in", ph.loans[l].unit # NoUnit,
           At(new, Borrowed(l)) = "gone",
           \A u \in Units : u # Borrowed(l) => At(new, u) = At(ph, u),
           NEW r \in TicketSet, r.op = "retire", r.unit = Borrowed(l), r.parent = 0,
           \A s \in W \cup F \cup D : s.n < r.n,
           NEW t \in TicketSet, t.op = "close", t.loan = l, t.unit = ph.loans[l].unit,
           \A s \in W \cup F \cup D \cup {r} : s.n < t.n
    PROVE  HouseInv(W \cup {r, t}, F, D, new, sv, nw, pg)
<1> DEFINE T == W \cup F \cup D
<1>1. (W \cup {r, t}) \cup F \cup D = (T \cup {r}) \cup {t}
    OBVIOUS
<1>2. /\ \A m \in Loans : Ended(ph, m) => Ended(new, m) /\ m # l
      /\ \A m \in Loans : m # l /\ Ended(new, m) => Ended(ph, m)
      /\ \A s \in T : TicketOK(s, new)
      /\ \A m \in Loans : LoanOK(new, sv, m)
      /\ \A u \in Units : At(ph, u) = "gone" \/ At(sv, u) = "gone"
                             \/ (u \in pg.units /\ At(pg.rows, u) = "gone") =>
            \E m \in Loans : u = Borrowed(m) /\ Ended(new, m)
      /\ ServedOK(W, D, new, sv, nw, pg)
  <2>1. HouseInv(W, F, D, ph, sv, nw, pg) /\ ClosedLoan(ph, new, l) /\ l \in Loans
      OBVIOUS
  <2> QED BY ONLY <2>1, ClosedTickets
<1>3. Ended(new, l)
    BY DEF Ended, Serial, ClosedLoan
<1>4. TicketsOK((T \cup {r}) \cup {t})
  <2>1. TicketsOK(T \cup {r})
    <3>1. r.op \notin Deals
        BY DEF Deals
    <3> QED BY <3>1, TicketAdded DEF HouseInv
  <2>2. t.op \notin Deals
      BY DEF Deals
  <2> HIDE DEF T
  <2> QED BY <2>1, <2>2, TicketAdded DEF T
<1>5. \A s \in (T \cup {r}) \cup {t} : TicketOK(s, new)
  <2>1. TicketOK(r, new)
      BY <1>3, UnitsApart DEF TicketOK, Others, Deals, Scans
  <2>2. TicketOK(t, new)
      BY DEF TicketOK, Others, Deals, Scans, ClosedLoan
  <2> QED BY <1>2, <2>1, <2>2
<1>6. GoneOK(new, sv, pg)
  <2> SUFFICES ASSUME NEW u \in Units,
                      At(new, u) = "gone" \/ At(sv, u) = "gone"
                          \/ (u \in pg.units /\ At(pg.rows, u) = "gone")
               PROVE  \E m \in Loans : u = Borrowed(m) /\ Ended(new, m)
      BY DEF GoneOK
  <2>1. CASE u = Borrowed(l)
      BY <1>3, <2>1
  <2>2. CASE u # Borrowed(l)
      BY <1>2, <2>2
  <2> QED BY <2>1, <2>2
<1>7. ServedOK(W \cup {r, t}, D, new, sv, nw, pg)
    BY <1>2 DEF ServedOK
<1>8. HomeOK(W \cup {r, t}, new, sv, pg)
  <2> SUFFICES ASSUME NEW m \in Loans, Ended(new, m)
               PROVE  /\ At(new, Borrowed(m)) = "gone"
                      /\ Leaving(W \cup {r, t}, m) \/ HasLeft(W \cup {r, t}, sv, pg, m)
      BY DEF HomeOK
  <2>1. CASE m = l
    <3>1. \A s \in W \cup {r, t} : s.op \in Scans \cup {"borrow"} => s.n <= r.n
      <4>1. \A s \in W \cup {r} : s.n \in Nat
          BY DEF HouseInv, TicketsOK, TicketSet
      <4>2. t.op \notin Scans \cup {"borrow"}
          BY DEF Scans
      <4> QED BY <4>1, <4>2
    <3> QED BY <2>1, <3>1 DEF Leaving
  <2>2. CASE m # l
    <3>0. Ended(ph, m) /\ Borrowed(m) # Borrowed(l) /\ Borrowed(m) \in Units
        BY <1>2, <2>2, UnitsApart
    <3>1. At(ph, Borrowed(m)) = "gone" /\ (Leaving(W, m) \/ HasLeft(W, sv, pg, m))
        BY <3>0 DEF HouseInv, HomeOK
    <3>2. t.op \notin Scans \cup {"borrow"}
        BY DEF Scans
    <3>3. Leaving(W, m) => Leaving(W \cup {r, t}, m)
        BY <3>0, <3>2 DEF Leaving
    <3>4. HasLeft(W, sv, pg, m) => HasLeft(W \cup {r, t}, sv, pg, m)
        BY <3>0, <3>2 DEF HasLeft
    <3> QED BY <3>0, <3>1, <3>3, <3>4
  <2> QED BY <2>1, <2>2
<1> QED BY <1>1, <1>2, <1>4, <1>5, <1>6, <1>7, <1>8 DEF HouseInv

(* ... and without, where no unit of the fleet was borrowed.               *)
LEMMA ShutWritten ==
    ASSUME NEW W, NEW F, NEW D, NEW ph, NEW sv, NEW nw, NEW pg,
           HouseInv(W, F, D, ph, sv, nw, pg),
           NEW new, NEW l \in Loans, ClosedLoan(ph, new, l),
           ph.loans[l].way = "in" => ph.loans[l].unit = NoUnit,
           \A u \in Units : At(new, u) = At(ph, u),
           NEW t \in TicketSet, t.op = "close", t.loan = l, t.unit = ph.loans[l].unit,
           \A s \in W \cup F \cup D : s.n < t.n
    PROVE  HouseInv(W \cup {t}, F, D, new, sv, nw, pg)
<1> DEFINE T == W \cup F \cup D
<1>1. (W \cup {t}) \cup F \cup D = T \cup {t}
    OBVIOUS
<1>2. /\ \A m \in Loans : m # l /\ Ended(new, m) => Ended(ph, m)
      /\ \A s \in T : TicketOK(s, new)
      /\ \A m \in Loans : LoanOK(new, sv, m)
      /\ ph.loans[l].way # "none"
      /\ \A u \in Units : At(ph, u) = "gone" \/ At(sv, u) = "gone"
                             \/ (u \in pg.units /\ At(pg.rows, u) = "gone") =>
            \E m \in Loans : u = Borrowed(m) /\ Ended(new, m)
      /\ ServedOK(W, D, new, sv, nw, pg)
  <2>1. HouseInv(W, F, D, ph, sv, nw, pg) /\ ClosedLoan(ph, new, l) /\ l \in Loans
      OBVIOUS
  <2> QED BY ONLY <2>1, ClosedTickets
<1>3. ~Ended(new, l)
    BY DEF Ended, Serial, ClosedLoan
<1>4. TicketsOK(T \cup {t})
  <2>1. t.op \notin Deals
      BY DEF Deals
  <2> QED BY <2>1, TicketAdded DEF HouseInv
<1>5. \A s \in T \cup {t} : TicketOK(s, new)
  <2>1. TicketOK(t, new)
      BY <1>2 DEF TicketOK, Others, Deals, Scans, ClosedLoan
  <2> QED BY <1>2, <2>1
<1>6. GoneOK(new, sv, pg)
    BY <1>2 DEF GoneOK
<1>7. ServedOK(W \cup {t}, D, new, sv, nw, pg)
    BY <1>2 DEF ServedOK
<1>8. HomeOK(W \cup {t}, new, sv, pg)
  <2> SUFFICES ASSUME NEW m \in Loans, Ended(new, m)
               PROVE  /\ At(new, Borrowed(m)) = "gone"
                      /\ Leaving(W \cup {t}, m) \/ HasLeft(W \cup {t}, sv, pg, m)
      BY DEF HomeOK
  <2>0. Ended(ph, m) /\ Borrowed(m) \in Units
      BY <1>2, <1>3, UnitsApart
  <2>1. At(ph, Borrowed(m)) = "gone" /\ (Leaving(W, m) \/ HasLeft(W, sv, pg, m))
      BY <2>0 DEF HouseInv, HomeOK
  <2>2. t.op \notin Scans \cup {"borrow"}
      BY DEF Scans
  <2>3. Leaving(W, m) => Leaving(W \cup {t}, m)
      BY <2>2 DEF Leaving
  <2>4. HasLeft(W, sv, pg, m) => HasLeft(W \cup {t}, sv, pg, m)
      BY <2>2 DEF HasLeft
  <2> QED BY <2>0, <2>1, <2>3, <2>4
<1> QED BY <1>1, <1>2, <1>4, <1>5, <1>6, <1>7, <1>8 DEF HouseInv

-----------------------------------------------------------------------------
(* The server's moves, its own and the rivals': what every one of them     *)
(* keeps, taken being the tickets it has taken after.                      *)
ServerStep(W, D, ph, sv, taken, new, told) ==
    /\ \A l \in Loans : new.loans[l].way # "none" =>
          new.loans[l].way = ph.loans[l].way /\ new.loans[l].unit = ph.loans[l].unit
    /\ \A l \in Loans : new.loans[l].way = "none" => ~new.loans[l].open
    /\ \A u \in Units : At(sv, u) = "gone" => At(new, u) = "gone"
    /\ \A u \in Units : At(sv, u) # "none" => At(new, u) # "none"
    /\ \A u \in Units : At(new, u) = "gone" =>
          At(sv, u) = "gone" \/ \E l \in Loans : u = Borrowed(l) /\ Ended(ph, l)
    /\ \A u \in Units : At(sv, u) = "none" /\ At(new, u) # "none" =>
          \E t \in W : /\ t.op = "borrow" /\ t.unit = u /\ t \in taken
                       /\ t.flag /\ t.loan \in Loans /\ u = Borrowed(t.loan)
    /\ \A t \in taken \ D : t \in W /\ (t.op = "retire" => At(new, t.unit) = "gone")
    /\ \A u \in told : u \in Units /\ At(new, u) # "none"
    /\ \A l \in Loans : Ended(new, l) => At(new, Borrowed(l)) = "gone"
    /\ \A l \in Loans : Serial(new, l) => At(new, Borrowed(l)) # "none"

LEMMA ServerMoved ==
    ASSUME NEW W, NEW F, NEW D, NEW ph, NEW sv, NEW nw, NEW pg,
           HouseInv(W, F, D, ph, sv, nw, pg),
           NEW taken, D \subseteq taken, NEW new, NEW told,
           ServerStep(W, D, ph, sv, taken, new, told)
    PROVE  HouseInv(W, F, taken, ph, new, nw \cup told, pg)
<1> USE DEF ServerStep
<1>1. W \cup F \cup taken = W \cup F \cup D
    OBVIOUS
<1>2. \A l \in Loans : LoanOK(ph, new, l)
    BY DEF HouseInv, LoanOK
<1>3. GoneOK(ph, new, pg)
    BY DEF HouseInv, GoneOK
<1>4. ServedOK(W, taken, ph, new, nw \cup told, pg)
  <2>1. \A u \in Fleet : At(new, u) # "none"
      BY DEF HouseInv, ServedOK, Units
  <2>2. ASSUME NEW l \in Loans, At(new, Borrowed(l)) # "none"
        PROVE  ph.loans[l].way = "in" /\ ph.loans[l].unit = Borrowed(l)
    <3>1. CASE At(sv, Borrowed(l)) # "none"
        BY <3>1 DEF HouseInv, ServedOK
    <3>2. CASE At(sv, Borrowed(l)) = "none"
      <4>1. PICK t \in W : /\ t.op = "borrow" /\ t.flag /\ t.loan \in Loans
                           /\ t.unit = Borrowed(l) /\ Borrowed(l) = Borrowed(t.loan)
          BY <2>2, <3>2, UnitsApart
      <4>2. t.loan = l
          BY <4>1, UnitsApart
      <4>3. TicketOK(t, ph)
          BY DEF HouseInv
      <4> QED BY <4>1, <4>2, <4>3 DEF TicketOK, Deals
    <3> QED BY <3>1, <3>2
  <2>3. ASSUME NEW t \in W \ taken, t.op = "borrow", t.flag PROVE At(new, t.unit) = "none"
    <3>1. At(sv, t.unit) = "none"
        BY <2>3 DEF HouseInv, ServedOK
    <3>2. TicketOK(t, ph)
        BY DEF HouseInv
    <3>3. t.loan \in Loans /\ t.unit = Borrowed(t.loan) /\ t.unit \in Units
        BY <2>3, <3>2, UnitsApart DEF TicketOK, Deals
    <3> SUFFICES ASSUME At(new, t.unit) # "none" PROVE FALSE
        OBVIOUS
    <3>4. PICK s \in W : /\ s.op = "borrow" /\ s \in taken /\ s.loan \in Loans
                         /\ t.unit = Borrowed(s.loan)
        BY <3>1, <3>3
    <3>5. s.loan = t.loan
        BY <3>3, <3>4, UnitsApart
    <3>6. s = t
        BY <2>3, <3>4, <3>5 DEF HouseInv, TicketsOK, Deals
    <3> QED BY <3>4, <3>6
  <2>4. ASSUME NEW t \in taken, t.op = "retire" PROVE At(new, t.unit) = "gone"
    <3>1. CASE t \notin D
        BY <2>4, <3>1
    <3>2. CASE t \in D
      <4>1. At(sv, t.unit) = "gone" /\ TicketOK(t, ph)
          BY <2>4, <3>2 DEF HouseInv, ServedOK
      <4>2. t.unit \in Units
          BY <2>4, <4>1 DEF TicketOK, Scans
      <4> QED BY <4>1, <4>2
    <3> QED BY <3>1, <3>2
  <2>5. \A u \in (nw \cup told) \cup pg.units : u \in Units /\ At(new, u) # "none"
      BY DEF HouseInv, ServedOK
  <2> QED BY <2>1, <2>2, <2>3, <2>4, <2>5 DEF ServedOK
<1>5. HomeOK(W, ph, new, pg)
  <2> SUFFICES ASSUME NEW l \in Loans, Ended(ph, l)
               PROVE  /\ At(ph, Borrowed(l)) = "gone"
                      /\ Leaving(W, l) \/ HasLeft(W, new, pg, l)
      BY DEF HomeOK
  <2>1. At(ph, Borrowed(l)) = "gone" /\ (Leaving(W, l) \/ HasLeft(W, sv, pg, l))
      BY DEF HouseInv, HomeOK
  <2>2. ASSUME HasLeft(W, sv, pg, l) PROVE HasLeft(W, new, pg, l)
    <3>1. Borrowed(l) \in Units
        BY UnitsApart
    <3>2. CASE At(sv, Borrowed(l)) = "gone"
        BY <2>2, <3>1, <3>2 DEF HasLeft
    <3>3. CASE At(sv, Borrowed(l)) = "none"
      <4>1. At(new, Borrowed(l)) = "none"
        <5> SUFFICES ASSUME At(new, Borrowed(l)) # "none" PROVE FALSE
            OBVIOUS
        <5>1. PICK t \in W : t.op = "borrow" /\ t.unit = Borrowed(l)
            BY <3>1, <3>3
        <5> QED BY <2>2, <5>1 DEF HasLeft
      <4> QED BY <2>2, <4>1 DEF HasLeft
    <3> QED BY <2>2, <3>2, <3>3 DEF HasLeft
  <2> QED BY <2>1, <2>2
<1> QED BY <1>1, <1>2, <1>3, <1>4, <1>5 DEF HouseInv

(* The head leaves, taken.                                                 *)
LEMMA TicketLanded ==
    ASSUME NEW W, NEW F, NEW D, NEW ph, NEW sv, NEW nw, NEW pg,
           HouseInv(W, F, D, ph, sv, nw, pg), pg.units = {},
           NEW h \in W, h \in D, \A t \in W : h.n <= t.n
    PROVE  HouseInv(W \ {h}, F, D, ph, sv, nw, pg)
<1>1. (W \ {h}) \cup F \cup D = W \cup F \cup D
    OBVIOUS
<1>2. ServedOK(W \ {h}, D, ph, sv, nw, pg)
    BY DEF HouseInv, ServedOK
<1>3. HomeOK(W \ {h}, ph, sv, pg)
  <2> SUFFICES ASSUME NEW l \in Loans, Ended(ph, l)
               PROVE  /\ At(ph, Borrowed(l)) = "gone"
                      /\ Leaving(W \ {h}, l) \/ HasLeft(W \ {h}, sv, pg, l)
      BY DEF HomeOK
  <2>1. At(ph, Borrowed(l)) = "gone" /\ (Leaving(W, l) \/ HasLeft(W, sv, pg, l))
      BY DEF HouseInv, HomeOK
  <2>2. CASE HasLeft(W, sv, pg, l)
      BY <2>1, <2>2 DEF HasLeft
  <2>3. CASE Leaving(W, l)
    <3>1. PICK r \in W : /\ r.op = "retire" /\ r.unit = Borrowed(l)
                         /\ \A t \in W : t.unit = Borrowed(l) /\ t.op \in Scans \cup {"borrow"} => t.n <= r.n
        BY <2>3 DEF Leaving
    <3>2. CASE r # h
        BY <2>1, <3>1, <3>2 DEF Leaving
    <3>3. CASE r = h
      <4>1. ASSUME NEW t \in W \ {h}, t.op \in Scans \cup {"borrow"}, t.unit = Borrowed(l)
            PROVE  FALSE
        <5>1. t.n <= h.n /\ h.n <= t.n /\ t.n \in Nat /\ h.n \in Nat
            BY <3>1, <3>3, <4>1 DEF HouseInv, TicketsOK, TicketSet
        <5>2. t.n = h.n
            BY <5>1
        <5> QED BY <4>1, <5>2 DEF HouseInv, TicketsOK
      <4>2. At(sv, Borrowed(l)) = "gone"
          BY <3>1, <3>3 DEF HouseInv, ServedOK
      <4> QED BY <2>1, <4>1, <4>2 DEF HasLeft
    <3> QED BY <3>2, <3>3
  <2> QED BY <2>1, <2>2, <2>3
<1> QED BY <1>1, <1>2, <1>3 DEF HouseInv

(* The head parks; what hangs on it is no scan.                            *)
Standing(W, fallen) == {t \in W : t.n \notin fallen}
Falling(W, fallen) == {t \in W : t.n \in fallen}

LEMMA TicketRefused ==
    ASSUME NEW W, NEW F, NEW D, NEW ph, NEW sv, NEW nw, NEW pg,
           HouseInv(W, F, D, ph, sv, nw, pg), pg.units = {},
           NEW h \in W, \A t \in W : h.n <= t.n,
           h.op = "retire" => At(sv, h.unit) = "none",
           NEW fallen, h.n \in fallen,
           \A t \in W : t.parent = 0 /\ t.n \in fallen => t.n = h.n
    PROVE  HouseInv(Standing(W, fallen), F \cup Falling(W, fallen), D, ph, sv, nw, pg)
<1> DEFINE V == Standing(W, fallen)
<1>1. /\ V \cup (F \cup Falling(W, fallen)) \cup D = W \cup F \cup D /\ V \subseteq W
      /\ V = {t \in W : t.n \notin fallen}
    BY DEF Standing, Falling
<1> HIDE DEF V
<1>2. ServedOK(V, D, ph, sv, nw, pg)
    BY <1>1 DEF HouseInv, ServedOK
<1>3. HomeOK(V, ph, sv, pg)
  <2> SUFFICES ASSUME NEW l \in Loans, Ended(ph, l)
               PROVE  /\ At(ph, Borrowed(l)) = "gone"
                      /\ Leaving(V, l) \/ HasLeft(V, sv, pg, l)
      BY DEF HomeOK
  <2>1. At(ph, Borrowed(l)) = "gone" /\ (Leaving(W, l) \/ HasLeft(W, sv, pg, l))
      BY DEF HouseInv, HomeOK
  <2>2. CASE HasLeft(W, sv, pg, l)
      BY <1>1, <2>1, <2>2 DEF HasLeft
  <2>3. CASE Leaving(W, l)
    <3>1. PICK r \in W : /\ r.op = "retire" /\ r.unit = Borrowed(l)
                         /\ \A t \in W : t.unit = Borrowed(l) /\ t.op \in Scans \cup {"borrow"} => t.n <= r.n
        BY <2>3 DEF Leaving
    <3>2. CASE r # h
      <4>1. r.parent = 0 /\ r.n # h.n
        <5>1. TicketOK(r, ph)
            BY DEF HouseInv
        <5>2. r.parent = 0
            BY <3>1, <5>1 DEF TicketOK, Scans
        <5> QED BY <3>2, <5>2 DEF HouseInv, TicketsOK
      <4>2. r \in V
          BY <1>1, <4>1
      <4> QED BY <1>1, <2>1, <3>1, <4>2 DEF Leaving
    <3>3. CASE r = h
      <4>1. ASSUME NEW t \in V, t.op \in Scans \cup {"borrow"}, t.unit = Borrowed(l)
            PROVE  FALSE
        <5>1. t.n <= h.n /\ h.n <= t.n /\ t.n \in Nat /\ h.n \in Nat
            BY <1>1, <3>1, <3>3, <4>1 DEF HouseInv, TicketsOK, TicketSet
        <5>2. t.n = h.n
            BY <5>1
        <5> QED BY <1>1, <4>1, <5>2
      <4>2. At(sv, Borrowed(l)) = "none"
          BY <3>1, <3>3
      <4> QED BY <2>1, <4>1, <4>2 DEF HasLeft
    <3> QED BY <3>2, <3>3
  <2> QED BY <2>1, <2>2, <2>3
<1>4. HouseInv(V, F \cup Falling(W, fallen), D, ph, sv, nw, pg)
    BY <1>1, <1>2, <1>3 DEF HouseInv
<1> QED BY <1>4 DEF V

-----------------------------------------------------------------------------
(* The page.                                                               *)
LEMMA PageAsked ==
    ASSUME NEW W, NEW F, NEW D, NEW ph, NEW sv, NEW nw, NEW pg,
           HouseInv(W, F, D, ph, sv, nw, pg), NEW asked, asked.units = nw, asked.rows = sv
    PROVE  HouseInv(W, F, D, ph, sv, {}, asked)
<1>1. GoneOK(ph, sv, asked)
    BY DEF HouseInv, GoneOK
<1>2. ServedOK(W, D, ph, sv, {}, asked)
    BY DEF HouseInv, ServedOK
<1>3. HomeOK(W, ph, sv, asked)
  <2>1. ASSUME NEW l \in Loans, HasLeft(W, sv, pg, l) PROVE HasLeft(W, sv, asked, l)
      BY <2>1 DEF HouseInv, ServedOK, HasLeft
  <2> QED BY <2>1 DEF HouseInv, HomeOK
<1> QED BY <1>1, <1>2, <1>3 DEF HouseInv

LEMMA PageDropped ==
    ASSUME NEW W, NEW F, NEW D, NEW ph, NEW sv, NEW nw, NEW pg,
           HouseInv(W, F, D, ph, sv, nw, pg), NEW blank, blank.units = {},
           NEW told \in SUBSET (nw \cup pg.units)
    PROVE  HouseInv(W, F, D, ph, sv, told, blank)
<1>1. GoneOK(ph, sv, blank)
    BY DEF HouseInv, GoneOK
<1>2. ServedOK(W, D, ph, sv, told, blank)
    BY DEF HouseInv, ServedOK
<1>3. HomeOK(W, ph, sv, blank)
  <2>1. ASSUME NEW l \in Loans, HasLeft(W, sv, pg, l) PROVE HasLeft(W, sv, blank, l)
      BY <2>1 DEF HasLeft
  <2> QED BY <2>1 DEF HouseInv, HomeOK
<1> QED BY <1>1, <1>2, <1>3 DEF HouseInv

(* A page lands under the waiting scans.                                   *)
LEMMA PageApplied ==
    ASSUME NEW W, NEW F, NEW D, NEW ph, NEW sv, NEW nw, NEW pg,
           HouseInv(W, F, D, ph, sv, nw, pg),
           NEW base, \A u \in Units : At(base, u) = IF u \in pg.units THEN At(pg.rows, u) ELSE At(ph, u),
           NEW new, new.loans = ph.loans,
           \A u \in Units : (\A t \in W : t.op \in Scans => t.unit # u) => At(new, u) = At(base, u),
           \A r \in W :
              /\ r.op = "retire"
              /\ \A t \in W : t.op \in Scans /\ t.unit = r.unit => t.n <= r.n
              => At(new, r.unit) = "gone",
           \A u \in Units : At(new, u) = "gone" =>
              At(base, u) = "gone" \/ \E t \in W : t.op = "retire" /\ t.unit = u
    PROVE  HouseInv(W, F, D, new, sv, nw, pg)
<1>1. \A l \in Loans : new.loans[l] = ph.loans[l] /\ (Ended(new, l) <=> Ended(ph, l))
    BY DEF Ended, Serial
<1>2. ASSUME NEW s \in W \cup F \cup D PROVE TicketOK(s, new)
  <2>1. TicketOK(s, ph)
      BY <1>2 DEF HouseInv
  <2>2. s.op = "retire" => \E l \in Loans : s.unit = Borrowed(l) /\ Ended(new, l)
      BY <1>1, <2>1 DEF TicketOK
  <2> QED BY <2>1, <2>2 DEF TicketOK
<1>3. \A l \in Loans : LoanOK(new, sv, l)
    BY <1>1 DEF HouseInv, LoanOK
<1>4. GoneOK(new, sv, pg)
  <2> SUFFICES ASSUME NEW u \in Units,
                      At(new, u) = "gone" \/ At(sv, u) = "gone"
                          \/ (u \in pg.units /\ At(pg.rows, u) = "gone")
               PROVE  \E l \in Loans : u = Borrowed(l) /\ Ended(new, l)
      BY DEF GoneOK
  <2>1. CASE At(ph, u) = "gone" \/ At(sv, u) = "gone" \/ (u \in pg.units /\ At(pg.rows, u) = "gone")
      BY <1>1, <2>1 DEF HouseInv, GoneOK
  <2>2. CASE \E t \in W : t.op = "retire" /\ t.unit = u
    <3>1. PICK t \in W : t.op = "retire" /\ t.unit = u
        BY <2>2
    <3> QED BY <1>2, <3>1 DEF TicketOK
  <2> QED BY <2>1, <2>2
<1>5. ServedOK(W, D, new, sv, nw, pg)
    BY <1>1 DEF HouseInv, ServedOK
<1>6. HomeOK(W, new, sv, pg)
  <2> SUFFICES ASSUME NEW l \in Loans, Ended(new, l)
               PROVE  /\ At(new, Borrowed(l)) = "gone"
                      /\ Leaving(W, l) \/ HasLeft(W, sv, pg, l)
      BY DEF HomeOK
  <2>1. At(ph, Borrowed(l)) = "gone" /\ (Leaving(W, l) \/ HasLeft(W, sv, pg, l))
      BY <1>1 DEF HouseInv, HomeOK
  <2>2. CASE Leaving(W, l)
    <3>1. PICK r \in W : /\ r.op = "retire" /\ r.unit = Borrowed(l)
                         /\ \A t \in W : t.unit = Borrowed(l) /\ t.op \in Scans \cup {"borrow"} => t.n <= r.n
        BY <2>2 DEF Leaving
    <3>2. At(new, r.unit) = "gone"
        BY <3>1
    <3> QED BY <2>2, <3>1, <3>2
  <2>3. CASE HasLeft(W, sv, pg, l)
    <3>1. At(new, Borrowed(l)) = At(base, Borrowed(l))
        BY <2>3, UnitsApart DEF HasLeft
    <3>2. At(base, Borrowed(l)) = "gone"
        BY <2>1, <2>3, UnitsApart DEF HasLeft
    <3> QED BY <2>3, <3>1, <3>2
  <2> QED BY <2>1, <2>2, <2>3
<1> QED BY <1>1, <1>2, <1>3, <1>4, <1>5, <1>6 DEF HouseInv


-----------------------------------------------------------------------------
(* The invariant, and one write of the phone.                              *)
NetInv ==
    /\ QueueOK(queue) /\ \A r \in receipts : IsOp(r)
    /\ RowsOK(phone) /\ RowsOK(server) /\ RowsOK(page.rows)
    /\ phase # "asked" => page.units = {}
    /\ HouseInv(Waiting, Refused, Done, phone, server, news.units, page)

Shape(o, op, loan, unit, flag) ==
    /\ OpFields(o) /\ o.state = "pending"
    /\ o.op = op /\ o.loan = loan /\ o.unit = unit /\ o.flag = flag

(* The ticket of an op just written after those of T.                      *)
Fresh(t, o, T) ==
    /\ t \in TicketSet /\ t.op = o.op /\ t.loan = o.loan /\ t.unit = o.unit /\ t.flag = o.flag
    /\ o.on = NoUnit => t.parent = 0
    /\ \A s \in T : s.n < t.n

LEMMA OneQueued ==
    ASSUME NEW q, QueueOK(q), \A r \in receipts : IsOp(r),
           Bounded(WaitingIn(q) \cup RefusedIn(q) \cup Done),
           NEW o, OpFields(o), o.state = "pending"
    PROVE  \E t : /\ Fresh(t, o, WaitingIn(q) \cup RefusedIn(q) \cup Done)
                  /\ QueueOK(Queued(q, o))
                  /\ WaitingIn(Queued(q, o)) = WaitingIn(q) \cup {t}
                  /\ RefusedIn(Queued(q, o)) = RefusedIn(q)
<1> DEFINE T == WaitingIn(q) \cup RefusedIn(q) \cup Done
<1>1. PICK x : /\ Queued(q, o) = Append(q, x) /\ IsOp(x) /\ x.state = "pending"
               /\ x.op = o.op /\ x.loan = o.loan /\ x.unit = o.unit /\ x.flag = o.flag
               /\ o.on = NoUnit => x.parent = 0
               /\ \A t \in T : t.n < x.n
    BY QueuedIs
<1>2. \A t \in WaitingIn(q) \cup RefusedIn(q) : t.n < x.n
    BY <1>1
<1>3. /\ QueueOK(Append(q, x))
      /\ WaitingIn(Append(q, x)) = WaitingIn(q) \cup {Ticket(x)}
      /\ RefusedIn(Append(q, x)) = RefusedIn(q)
  <2>1. QueueOK(q)
      OBVIOUS
  <2> QED BY ONLY <1>1, <1>2, <2>1, AppendedTo
<1> HIDE DEF T
<1>4. Fresh(Ticket(x), o, T)
    BY <1>1 DEF Fresh, Ticket, TicketSet, IsOp, OpFields
<1> QED BY <1>1, <1>3, <1>4 DEF T

LEMMA WriteStep ==
    ASSUME NetInv, NEW rows, NEW o, OpFields(o), o.state = "pending", Write(rows, o),
           RowsOK(rows),
           \A t : Fresh(t, o, Waiting \cup Refused \cup Done) =>
              HouseInv(Waiting \cup {t}, Refused, Done, rows, server, news.units, page)
    PROVE  NetInv'
<1>1. QueueOK(queue) /\ \A r \in receipts : IsOp(r)
    BY DEF NetInv
<1>2. Bounded(WaitingIn(queue) \cup RefusedIn(queue) \cup Done)
    BY DEF NetInv, HouseInv, TicketsOK, Waiting, Refused
<1>3. PICK t : /\ Fresh(t, o, WaitingIn(queue) \cup RefusedIn(queue) \cup Done)
               /\ QueueOK(Queued(queue, o))
               /\ WaitingIn(Queued(queue, o)) = WaitingIn(queue) \cup {t}
               /\ RefusedIn(Queued(queue, o)) = RefusedIn(queue)
    BY <1>1, <1>2, OneQueued
<1>4. /\ phone' = rows /\ queue' = Queued(queue, o) /\ server' = server
      /\ receipts' = receipts /\ news' = news /\ page' = page /\ phase' = phase
    BY DEF Write
<1>5. Done' = Done
    BY <1>4 DEF Done
<1>6. Waiting' = Waiting \cup {t} /\ Refused' = Refused
    BY <1>3, <1>4 DEF Waiting, Refused
<1>7. HouseInv(Waiting \cup {t}, Refused, Done, rows, server, news.units, page)
    BY <1>3 DEF Waiting, Refused
<1> QED BY <1>3, <1>4, <1>5, <1>6, <1>7 DEF NetInv

LEMMA PlainStep ==
    ASSUME NetInv, NEW rows, NEW o, OpFields(o), o.state = "pending", Write(rows, o),
           RowsOK(rows), SameDeals(rows, phone), o.op \in Others, o.unit = NoUnit
    PROVE  NetInv'
<1>1. ASSUME NEW t, Fresh(t, o, Waiting \cup Refused \cup Done)
      PROVE  HouseInv(Waiting \cup {t}, Refused, Done, rows, server, news.units, page)
  <2>1. /\ HouseInv(Waiting, Refused, Done, phone, server, news.units, page)
        /\ SameDeals(rows, phone) /\ t \in TicketSet /\ t.op \in Others /\ t.unit = NoUnit
        /\ \A s \in Waiting \cup Refused \cup Done : s.n < t.n
      BY <1>1 DEF NetInv, Fresh
  <2> QED BY ONLY <2>1, PlainWrite
<1> QED BY <1>1, WriteStep

-----------------------------------------------------------------------------
(* The ops.                                                                *)
LEMMA HouseOps ==
    ASSUME NEW op \in Others, NEW h \in Houses
    PROVE  /\ Shape(HouseOp(op, h), op, NoUnit, NoUnit, FALSE)
           /\ Shape([HouseOp(op, h) EXCEPT !.on = NoUnit], op, NoUnit, NoUnit, FALSE)
BY DEF Shape, OpFields, OpParts, HouseOp, Blank, Verbs, NetworkAssumption

LEMMA JobOps ==
    ASSUME NEW op \in Others, NEW j \in Jobs
    PROVE  /\ Shape(JobOp(op, j), op, NoUnit, NoUnit, FALSE)
           /\ Shape([JobOp(op, j) EXCEPT !.on = NoUnit], op, NoUnit, NoUnit, FALSE)
BY DEF Shape, OpFields, OpParts, JobOp, Blank, Verbs, NetworkAssumption

LEMMA DueOps ==
    ASSUME NEW op \in Others, NEW j \in Jobs, NEW date
    PROVE  Shape([JobOp(op, j) EXCEPT !.due = date], op, NoUnit, NoUnit, FALSE)
BY DEF Shape, OpFields, OpParts, JobOp, Blank, Verbs, NetworkAssumption

LEMMA CrewOps ==
    ASSUME NEW op \in Others, NEW j \in Jobs, NEW who
    PROVE  /\ Shape([JobOp(op, j) EXCEPT !.who = who], op, NoUnit, NoUnit, FALSE)
           /\ Shape([JobOp(op, j) EXCEPT !.who = who, !.on = NoUnit], op, NoUnit, NoUnit, FALSE)
BY DEF Shape, OpFields, OpParts, JobOp, Blank, Verbs, NetworkAssumption

LEMMA ScanOps ==
    ASSUME NEW op \in Scans, NEW u \in Units, NEW j
    PROVE  /\ Shape(ScanOp(op, u, j), op, NoUnit, u, FALSE)
           /\ ScanOp(op, u, j).on = NoUnit /\ ScanOp(op, u, j).job = j
BY DEF Shape, OpFields, OpParts, ScanOp, Blank, Verbs, NetworkAssumption

LEMMA DealOps ==
    ASSUME NEW l \in Loans, NEW h \in Houses, NEW unit \in Units \cup {NoUnit},
           NEW flag \in BOOLEAN
    PROVE  /\ Shape([LoanOp("borrow", l, h, unit) EXCEPT !.flag = flag], "borrow", l, unit, flag)
           /\ Shape(LoanOp("lend", l, h, unit), "lend", l, unit, FALSE)
<1>1. l # NoUnit /\ LoanJob(l) # NoUnit /\ h # NoUnit
    BY UnitsApart DEF NetworkAssumption
<1>2. Shape([LoanOp("borrow", l, h, unit) EXCEPT !.flag = flag], "borrow", l, unit, flag)
  <2> DEFINE o == [LoanOp("borrow", l, h, unit) EXCEPT !.flag = flag]
  <2>1. /\ DOMAIN o = OpParts /\ o.op = "borrow" /\ o.loan = l /\ o.unit = unit
        /\ o.flag = flag /\ o.state = "pending" /\ o.names = {h, l} \cup {}
      BY DEF OpParts, LoanOp, Blank
  <2> HIDE DEF o
  <2>2. Shape(o, "borrow", l, unit, flag)
      BY <1>1, <2>1 DEF Shape, OpFields, Verbs, Deals
  <2> QED BY <2>2 DEF o
<1>3. Shape(LoanOp("lend", l, h, unit), "lend", l, unit, FALSE)
  <2> DEFINE o == LoanOp("lend", l, h, unit)
  <2>1. /\ DOMAIN o = OpParts /\ o.op = "lend" /\ o.loan = l /\ o.unit = unit
        /\ o.flag = FALSE /\ o.state = "pending" /\ o.names = {h, l} \cup {LoanJob(l)}
      BY DEF OpParts, LoanOp, Blank
  <2> HIDE DEF o
  <2>2. Shape(o, "lend", l, unit, FALSE)
      BY <1>1, <2>1 DEF Shape, OpFields, Verbs, Deals
  <2> QED BY <2>2 DEF o
<1> QED BY <1>2, <1>3

LEMMA CloseOp ==
    ASSUME NEW l \in Loans, NEW h, NEW unit \in Units \cup {NoUnit}
    PROVE  Shape([LoanOp("close", l, h, unit) EXCEPT !.names = {l}, !.on = l],
                 "close", l, unit, FALSE)
<1> DEFINE p == LoanOp("close", l, h, unit)
           o == [p EXCEPT !.names = {l}, !.on = l]
<1>1. /\ DOMAIN p = OpParts /\ p.op = "close" /\ p.loan = l /\ p.unit = unit
      /\ p.flag = FALSE /\ p.state = "pending"
    BY DEF OpParts, LoanOp, Blank
<1> HIDE DEF p
<1>2. /\ DOMAIN o = OpParts /\ o.op = "close" /\ o.loan = l /\ o.unit = unit
      /\ o.flag = FALSE /\ o.state = "pending" /\ o.names = {l}
    BY <1>1 DEF OpParts
<1> HIDE DEF o
<1>3. l # NoUnit
    BY DEF NetworkAssumption
<1>4. Shape(o, "close", l, unit, FALSE)
    BY <1>2, <1>3 DEF Shape, OpFields, Verbs
<1> QED BY <1>4 DEF o, p

-----------------------------------------------------------------------------
(* What the phone does.                                                    *)
LEMMA SameDealsSelf ==
    ASSUME NEW rows
    PROVE  SameDeals(rows, rows)
BY DEF SameDeals

LEMMA HouseActs ==
    ASSUME NetInv, NEW h \in Houses, UpsertPartner(h) \/ RemovePartner(h)
    PROVE  NetInv'
<1>0. RowsOK(phone)
    BY DEF NetInv
<1>1. /\ RowsOK(WithHouse(phone, h, "live")) /\ SameDeals(WithHouse(phone, h, "live"), phone)
      /\ RowsOK(WithHouse(phone, h, "removed")) /\ SameDeals(WithHouse(phone, h, "removed"), phone)
      /\ SameDeals(phone, phone)
    BY <1>0, HouseRows, SameDealsSelf
<1>2. CASE Write(WithHouse(phone, h, "live"), [HouseOp("addHouse", h) EXCEPT !.on = NoUnit])
  <2> DEFINE o == [HouseOp("addHouse", h) EXCEPT !.on = NoUnit]
  <2>1. "addHouse" \in Others
      BY DEF Others
  <2>2. Shape(o, "addHouse", NoUnit, NoUnit, FALSE)
      BY <2>1, HouseOps
  <2>3. Write(WithHouse(phone, h, "live"), o)
      BY <1>2
  <2> HIDE DEF o
  <2> QED BY <1>1, <2>1, <2>2, <2>3, PlainStep DEF Shape
<1>3. CASE Write(phone, HouseOp("editHouse", h))
  <2>1. "editHouse" \in Others
      BY DEF Others
  <2>2. Shape(HouseOp("editHouse", h), "editHouse", NoUnit, NoUnit, FALSE)
      BY <2>1, HouseOps
  <2> QED BY <1>0, <1>1, <1>3, <2>1, <2>2, PlainStep DEF Shape
<1>4. CASE Write(WithHouse(phone, h, "removed"), HouseOp("removeHouse", h))
  <2>1. "removeHouse" \in Others
      BY DEF Others
  <2>2. Shape(HouseOp("removeHouse", h), "removeHouse", NoUnit, NoUnit, FALSE)
      BY <2>1, HouseOps
  <2> QED BY <1>1, <1>4, <2>1, <2>2, PlainStep DEF Shape
<1>5. CASE UpsertPartner(h)
    BY <1>2, <1>3, <1>5 DEF UpsertPartner
<1>6. CASE RemovePartner(h)
    BY <1>4, <1>6 DEF RemovePartner
<1> QED BY <1>5, <1>6

LEMMA JobActs ==
    ASSUME NetInv, NEW j \in Jobs,
           \/ j \in Walkins /\ CreateJob(j)
           \/ \E date \in Dates : SetExpectedBack(j, date)
           \/ CloseJob(j) \/ ReopenJob(j)
           \/ \E who \in Crew : AssignAttendant(j, who) \/ UnassignAttendant(j, who)
    PROVE  NetInv'
<1>0. RowsOK(phone)
    BY DEF NetInv
<1>1. {"createJob", "setDue", "closeJob", "reopenJob", "assign", "unassign"} \subseteq Others
    BY DEF Others
<1>2. ASSUME NEW s PROVE RowsOK(SetStatus(phone, j, s)) /\ SameDeals(SetStatus(phone, j, s), phone)
    BY <1>0, StatusRows
<1>3. CASE j \in Walkins /\ CreateJob(j)
  <2> DEFINE o == [JobOp("createJob", j) EXCEPT !.on = NoUnit]
  <2>1. Shape(o, "createJob", NoUnit, NoUnit, FALSE)
      BY <1>1, JobOps
  <2>2. Write(SetStatus(phone, j, "open"), o)
      BY <1>3 DEF CreateJob
  <2> HIDE DEF o
  <2> QED BY <1>1, <1>2, <2>1, <2>2, PlainStep DEF Shape
<1>4. CASE \E date \in Dates : SetExpectedBack(j, date)
  <2>0. PICK date \in Dates : SetExpectedBack(j, date)
      BY <1>4
  <2> DEFINE o == [JobOp("setDue", j) EXCEPT !.due = date]
             rows == [phone EXCEPT !.jobs[j].due = date]
  <2>1. Shape(o, "setDue", NoUnit, NoUnit, FALSE)
      BY <1>1, DueOps
  <2>2. Write(rows, o)
      BY <2>0 DEF SetExpectedBack
  <2>3. RowsOK(rows) /\ SameDeals(rows, phone)
      BY <1>0, DueRows
  <2> HIDE DEF o, rows
  <2> QED BY <1>1, <2>1, <2>2, <2>3, PlainStep DEF Shape
<1>5. CASE CloseJob(j)
  <2>1. Shape(JobOp("closeJob", j), "closeJob", NoUnit, NoUnit, FALSE)
      BY <1>1, JobOps
  <2>2. Write(SetStatus(phone, j, "closed"), JobOp("closeJob", j))
      BY <1>5 DEF CloseJob
  <2> QED BY <1>1, <1>2, <2>1, <2>2, PlainStep DEF Shape
<1>6. CASE ReopenJob(j)
  <2>1. Shape(JobOp("reopenJob", j), "reopenJob", NoUnit, NoUnit, FALSE)
      BY <1>1, JobOps
  <2>2. Write(SetStatus(phone, j, "open"), JobOp("reopenJob", j))
      BY <1>6 DEF ReopenJob
  <2> QED BY <1>1, <1>2, <2>1, <2>2, PlainStep DEF Shape
<1>7. ASSUME NEW op \in {"assign", "unassign"}, NEW who, NEW on, CrewWrite(op, j, who, on)
      PROVE  NetInv'
  <2> DEFINE o == [JobOp(op, j) EXCEPT !.who = who, !.on = NoUnit]
             rows == [phone EXCEPT !.jobs[j].names = on]
  <2>0. op \in Others
      BY <1>1
  <2>1. Shape(o, op, NoUnit, NoUnit, FALSE)
      BY <2>0, CrewOps, Zenon
  <2>2. Write(rows, o)
      BY <1>7 DEF CrewWrite
  <2>3. RowsOK(rows) /\ SameDeals(rows, phone)
      BY <1>0, CrewRows
  <2> HIDE DEF o, rows
  <2> QED BY <2>0, <2>1, <2>2, <2>3, PlainStep DEF Shape
<1>8. CASE \E who \in Crew : AssignAttendant(j, who) \/ UnassignAttendant(j, who)
  <2>1. PICK who \in Crew : AssignAttendant(j, who) \/ UnassignAttendant(j, who)
      BY <1>8
  <2>2. CASE AssignAttendant(j, who)
      BY <1>7, <2>2 DEF AssignAttendant
  <2>3. CASE UnassignAttendant(j, who)
      BY <1>7, <2>3 DEF UnassignAttendant
  <2> QED BY <2>1, <2>2, <2>3
<1> QED BY <1>3, <1>4, <1>5, <1>6, <1>8

LEMMA ScanStep ==
    ASSUME NetInv, NEW u \in Units, NEW j, NEW op \in {"checkOut", "checkIn"},
           At(phone, u) \in {"here", "out"},
           Write(Scanned(phone, ScanOp(op, u, j)), ScanOp(op, u, j))
    PROVE  NetInv'
<1> DEFINE o == ScanOp(op, u, j)
           new == Scanned(phone, o)
<1>2. Shape(o, op, NoUnit, u, FALSE) /\ o.on = NoUnit
  <2>1. op \in Scans /\ u \in Units
      BY DEF Scans
  <2> QED BY ONLY <2>1, ScanOps
<1>3. Write(new, o)
    OBVIOUS
<1>4. /\ RowsOK(new) /\ new.loans = phone.loans /\ At(new, u) # "gone"
      /\ \A v \in Units : v # u => At(new, v) = At(phone, v)
  <2>1. o.op = op /\ o.unit = u
      BY <1>2 DEF Shape
  <2>2. RowsOK(phone)
      BY DEF NetInv
  <2> HIDE DEF o
  <2>3. /\ RowsOK(new) /\ new.loans = phone.loans
        /\ \A v \in Units : v # o.unit => new.units[v] = phone.units[v]
        /\ o.op = "checkOut" => At(new, o.unit) = "out"
        /\ o.op = "checkIn" => At(new, o.unit) = "here"
      BY <2>1, <2>2, ScannedRows
  <2> QED BY <2>1, <2>3 DEF At
<1> HIDE DEF o, new
<1>5. ASSUME NEW t, Fresh(t, o, Waiting \cup Refused \cup Done)
      PROVE  HouseInv(Waiting \cup {t}, Refused, Done, new, server, news.units, page)
  <2>1. /\ HouseInv(Waiting, Refused, Done, phone, server, news.units, page)
        /\ new.loans = phone.loans /\ u \in Units /\ At(phone, u) # "gone" /\ At(new, u) # "gone"
        /\ \A v \in Units : v # u => At(new, v) = At(phone, v)
        /\ t \in TicketSet /\ t.op \in {"checkOut", "checkIn"} /\ t.unit = u /\ t.parent = 0
        /\ \A s \in Waiting \cup Refused \cup Done : s.n < t.n
      BY <1>2, <1>4, <1>5 DEF NetInv, Fresh, Shape
  <2> QED BY ONLY <2>1, ScanWritten
<1> QED BY <1>2, <1>3, <1>4, <1>5, WriteStep DEF Shape

LEMMA ScanActs ==
    ASSUME NetInv, NEW u \in Units, ScanIn(u) \/ \E j \in Jobs : ScanOut(u, j)
    PROVE  NetInv'
<1>1. CASE ScanIn(u)
  <2>1. At(phone, u) \in {"here", "out"}
      BY <1>1 DEF ScanIn, At
  <2>2. Write(Scanned(phone, ScanOp("checkIn", u, NoJob)), ScanOp("checkIn", u, NoJob))
      BY ONLY <1>1 DEF ScanIn
  <2> QED BY <2>1, <2>2, ScanStep
<1>2. CASE \E j \in Jobs : ScanOut(u, j)
  <2>0. PICK j \in Jobs : ScanOut(u, j)
      BY <1>2
  <2>1. At(phone, u) \in {"here", "out"}
      BY <2>0 DEF ScanOut, At
  <2>2. Write(Scanned(phone, ScanOp("checkOut", u, j)), ScanOp("checkOut", u, j))
      BY ONLY <2>0 DEF ScanOut
  <2> QED BY <2>1, <2>2, ScanStep
<1> QED BY <1>1, <1>2

LEMMA RecordActs ==
    ASSUME NetInv, NEW l \in Loans, NEW h \in Houses,
           \/ \E serial \in BOOLEAN : RecordSubHireIn(l, h, serial)
           \/ \E unit \in Fleet \cup {NoUnit} : RecordSubHireOut(l, h, unit)
    PROVE  NetInv'
<1>0. RowsOK(phone)
    BY DEF NetInv
<1>1. CASE \E serial \in BOOLEAN : RecordSubHireIn(l, h, serial)
  <2>0. PICK serial \in BOOLEAN : RecordSubHireIn(l, h, serial)
      BY <1>1
  <2> DEFINE unit == IF serial THEN Borrowed(l) ELSE NoUnit
             o == [LoanOp("borrow", l, h, unit) EXCEPT !.flag = serial]
             new == Borrow(phone, l, h, serial)
  <2>1. Shape(o, "borrow", l, unit, serial)
    <3>1. unit \in Units \cup {NoUnit}
        BY UnitsApart
    <3> HIDE DEF unit
    <3> QED BY <3>1, DealOps
  <2>2. Write(new, o) /\ phone.loans[l] = NoLoan
      BY <2>0 DEF RecordSubHireIn
  <2>3. /\ RowsOK(new)
        /\ new.loans[l] = [way |-> "in", house |-> h, unit |-> unit, open |-> TRUE]
        /\ \A m \in Loans : m # l => new.loans[m] = phone.loans[m]
        /\ \A u \in Units : At(new, u) = IF u = unit THEN "here" ELSE At(phone, u)
      BY <1>0, BorrowRows
  <2>4. \A u \in Units : At(new, u) = At(phone, u) \/ (u = Borrowed(l) /\ At(new, u) = "here")
      BY <2>3, UnitsApart
  <2>5. o.unit = IF o.flag THEN Borrowed(l) ELSE NoUnit
      BY <2>1 DEF Shape
  <2> HIDE DEF o, new, unit
  <2>6. ASSUME NEW t, Fresh(t, o, Waiting \cup Refused \cup Done)
        PROVE  HouseInv(Waiting \cup {t}, Refused, Done, new, server, news.units, page)
    <3>1. /\ HouseInv(Waiting, Refused, Done, phone, server, news.units, page)
          /\ l \in Loans /\ t \in TicketSet /\ DealMade(phone, new, l, t)
          /\ \A s \in Waiting \cup Refused \cup Done : s.n < t.n
      <4>1. /\ t \in TicketSet /\ t.op = "borrow" /\ t.loan = l /\ t.unit = unit /\ t.flag = serial
            /\ \A s \in Waiting \cup Refused \cup Done : s.n < t.n
          BY <2>1, <2>6 DEF Fresh, Shape
      <4>2. unit = IF serial THEN Borrowed(l) ELSE NoUnit
          BY <2>1, <2>5 DEF Shape
      <4>3. new.loans[l].way = "in" /\ new.loans[l].unit = unit /\ new.loans[l].open = TRUE
          BY <2>3
      <4>4. /\ HouseInv(Waiting, Refused, Done, phone, server, news.units, page)
            /\ l \in Loans /\ phone.loans[l] = NoLoan
            /\ \A m \in Loans : m # l => new.loans[m] = phone.loans[m]
          BY <2>2, <2>3 DEF NetInv
      <4> QED BY <2>4, <4>1, <4>2, <4>3, <4>4 DEF Deals, DealMade
    <3> QED BY ONLY <3>1, DealWritten
  <2> QED BY <2>1, <2>2, <2>3, <2>6, WriteStep DEF Shape
<1>2. CASE \E unit \in Fleet \cup {NoUnit} : RecordSubHireOut(l, h, unit)
  <2>0. PICK unit \in Fleet \cup {NoUnit} : RecordSubHireOut(l, h, unit)
      BY <1>2
  <2> DEFINE o == LoanOp("lend", l, h, unit)
             new == Lend(phone, l, h, unit)
  <2>1. Shape(o, "lend", l, unit, FALSE)
    <3>1. unit \in Units \cup {NoUnit}
        BY DEF Units
    <3> QED BY <3>1, DealOps
  <2>2. Write(new, o) /\ phone.loans[l] = NoLoan
      BY <2>0 DEF RecordSubHireOut
  <2>3. /\ RowsOK(new) /\ new.units = phone.units
        /\ new.loans[l] = [way |-> "out", house |-> h, unit |-> unit, open |-> TRUE]
        /\ \A m \in Loans : m # l => new.loans[m] = phone.loans[m]
      BY <1>0, LendRows
  <2> HIDE DEF o, new
  <2>4. ASSUME NEW t, Fresh(t, o, Waiting \cup Refused \cup Done)
        PROVE  HouseInv(Waiting \cup {t}, Refused, Done, new, server, news.units, page)
    <3>1. /\ HouseInv(Waiting, Refused, Done, phone, server, news.units, page)
          /\ l \in Loans /\ t \in TicketSet /\ DealMade(phone, new, l, t)
          /\ \A s \in Waiting \cup Refused \cup Done : s.n < t.n
      <4>1. /\ t \in TicketSet /\ t.op = "lend" /\ t.loan = l /\ t.unit = unit
            /\ \A s \in Waiting \cup Refused \cup Done : s.n < t.n
          BY <2>1, <2>4 DEF Fresh, Shape
      <4>2. new.loans[l].way = "out" /\ new.loans[l].unit = unit /\ new.loans[l].open = TRUE
          BY <2>3
      <4>3. \A u \in Units : At(new, u) = At(phone, u)
          BY <2>3 DEF At
      <4>4. /\ HouseInv(Waiting, Refused, Done, phone, server, news.units, page)
            /\ l \in Loans /\ phone.loans[l] = NoLoan
            /\ \A m \in Loans : m # l => new.loans[m] = phone.loans[m]
          BY <2>2, <2>3 DEF NetInv
      <4> QED BY <2>0, <4>1, <4>2, <4>3, <4>4 DEF Deals, DealMade
    <3> QED BY ONLY <3>1, DealWritten
  <2> QED BY <2>1, <2>2, <2>3, <2>4, WriteStep DEF Shape
<1> QED BY <1>1, <1>2

(* An open loan's unit is still on the phone.                              *)
LEMMA OpenUnitStays ==
    ASSUME NEW W, NEW F, NEW D, NEW ph, NEW sv, NEW nw, NEW pg,
           HouseInv(W, F, D, ph, sv, nw, pg),
           NEW l \in Loans, ph.loans[l].open, ph.loans[l].way = "in", ph.loans[l].unit # NoUnit
    PROVE  ph.loans[l].unit = Borrowed(l) /\ At(ph, Borrowed(l)) # "gone"
<1>1. ph.loans[l].unit = Borrowed(l)
    BY DEF HouseInv, LoanOK
<1>2. ASSUME At(ph, Borrowed(l)) = "gone" PROVE FALSE
  <2>1. PICK m \in Loans : Borrowed(l) = Borrowed(m) /\ Ended(ph, m)
      BY <1>2, UnitsApart DEF HouseInv, GoneOK
  <2>2. m = l
      BY <2>1, UnitsApart
  <2> QED BY <2>1, <2>2 DEF Ended, Serial
<1> QED BY <1>1, <1>2

LEMMA FreshBound ==
    ASSUME NEW T, T \in SUBSET TicketSet, NEW o, NEW t, Fresh(t, o, T)
    PROVE  Bounded(T \cup {t})
<1>1. t.n \in Nat /\ \A s \in T : s.n \in Nat /\ s.n < t.n
    BY DEF Fresh, TicketSet
<1>2. \A s \in T \cup {t} : s.n <= t.n
    BY <1>1
<1> QED BY <1>1, <1>2 DEF Bounded

(* The closing of a sub-hire that writes one op before its own.            *)
LEMMA TwoQueued ==
    ASSUME NetInv, NEW first, OpFields(first), first.state = "pending",
           NEW o, OpFields(o), o.state = "pending"
    PROVE  \E r, t :
              /\ Fresh(r, first, Waiting \cup Refused \cup Done)
              /\ Fresh(t, o, (Waiting \cup Refused \cup Done) \cup {r})
              /\ QueueOK(Queued(Queued(queue, first), o))
              /\ WaitingIn(Queued(Queued(queue, first), o)) = Waiting \cup {r, t}
              /\ RefusedIn(Queued(Queued(queue, first), o)) = Refused
<1> DEFINE T == Waiting \cup Refused \cup Done
           q == Queued(queue, first)
<1>1. /\ QueueOK(queue) /\ \A x \in receipts : IsOp(x)
      /\ T \in SUBSET TicketSet /\ Bounded(T)
    BY DEF NetInv, HouseInv, TicketsOK
<1>2. PICK r : /\ Fresh(r, first, WaitingIn(queue) \cup RefusedIn(queue) \cup Done)
               /\ QueueOK(q)
               /\ WaitingIn(q) = WaitingIn(queue) \cup {r}
               /\ RefusedIn(q) = RefusedIn(queue)
    BY <1>1, OneQueued DEF Waiting, Refused
<1>3. Fresh(r, first, T) /\ WaitingIn(q) = Waiting \cup {r} /\ RefusedIn(q) = Refused
    BY <1>2 DEF Waiting, Refused
<1>4. WaitingIn(q) \cup RefusedIn(q) \cup Done = T \cup {r}
    BY <1>3
<1>5. Bounded(WaitingIn(q) \cup RefusedIn(q) \cup Done)
  <2>1. Bounded(T \cup {r})
    <3> HIDE DEF T
    <3> QED BY <1>1, <1>3, FreshBound
  <2> QED BY <1>4, <2>1
<1> HIDE DEF q
<1>6. PICK t : /\ Fresh(t, o, WaitingIn(q) \cup RefusedIn(q) \cup Done)
               /\ QueueOK(Queued(q, o))
               /\ WaitingIn(Queued(q, o)) = WaitingIn(q) \cup {t}
               /\ RefusedIn(Queued(q, o)) = RefusedIn(q)
    BY <1>1, <1>2, <1>5, OneQueued
<1>7. Fresh(t, o, T \cup {r}) /\ WaitingIn(Queued(q, o)) = Waiting \cup {r, t}
      /\ RefusedIn(Queued(q, o)) = Refused
    BY <1>3, <1>4, <1>6
<1> QED BY <1>3, <1>6, <1>7 DEF q

LEMMA CloseActs ==
    ASSUME NetInv, NEW l \in Loans, CloseSubHire(l)
    PROVE  NetInv'
<1> DEFINE T == Waiting \cup Refused \cup Done
           loan == phone.loans[l]
           unit == loan.unit
           job == LoanJob(l)
           o == [LoanOp("close", l, loan.house, unit) EXCEPT !.names = {l}, !.on = l]
           sendsUnit == loan.way = "in" /\ unit # NoUnit /\ phone.units[unit].at # "gone"
           closesJob == loan.way = "out" /\ phone.jobs[job].status = "open"
<1>1. /\ HouseInv(Waiting, Refused, Done, phone, server, news.units, page)
      /\ RowsOK(phone) /\ T \in SUBSET TicketSet
      /\ QueueOK(queue) /\ (\A r \in receipts : IsOp(r)) /\ Bounded(T)
    BY DEF NetInv, HouseInv, TicketsOK
<1>2. loan.open /\ loan.way \in {"in", "out"} /\ unit \in Units \cup {NoUnit}
  <2>1. loan.open
    <3>1. MayClose(loan, job)
        BY Zenon DEF CloseSubHire
    <3> QED BY ONLY <3>1 DEF MayClose
  <2>2. LoanOK(phone, server, l)
      BY <1>1 DEF HouseInv
  <2>3. loan.way # "none"
      BY <2>1, <2>2 DEF LoanOK, NoLoan
  <2>4. unit \in Units \cup {NoUnit}
      BY <2>2, <2>3, UnitsApart DEF LoanOK, Units
  <2> QED BY <2>1, <2>2, <2>3, <2>4 DEF LoanOK
<1>3. Shape(o, "close", l, unit, FALSE)
  <2> HIDE DEF loan
  <2> QED BY <1>2, CloseOp, Zenon
<1>4. UNCHANGED <<server, receipts, news, page, phase>>
    BY Zenon DEF CloseSubHire
<1> DEFINE Before == IF sendsUnit THEN Queued(queue, ScanOp("retire", unit, NoJob))
                     ELSE IF closesJob THEN Queued(queue, JobOp("closeJob", job))
                     ELSE queue
           Rows == IF sendsUnit THEN [phone EXCEPT !.units[unit].at = "gone"]
                   ELSE IF closesJob THEN SetStatus(phone, job, "closed")
                   ELSE phone
<1>10. queue' = Queued(Before, o) /\ phone' = [Rows EXCEPT !.loans[l].open = FALSE]
    BY Zenon DEF CloseSubHire
<1>5. Done' = Done
    BY <1>4 DEF Done
<1>6. ~sendsUnit => (loan.way = "in" => unit = NoUnit)
    BY <1>1, <1>2, OpenUnitStays DEF At
<1> HIDE DEF o, Before, Rows
<1>7. CASE sendsUnit
  <2> DEFINE back == ScanOp("retire", unit, NoJob)
             mid == [phone EXCEPT !.units[unit].at = "gone"]
             new == [mid EXCEPT !.loans[l].open = FALSE]
  <2>1. unit = Borrowed(l) /\ unit \in Units
      BY <1>1, <1>2, <1>7, OpenUnitStays, UnitsApart
  <2>2. Shape(back, "retire", NoUnit, unit, FALSE) /\ back.on = NoUnit
    <3>1. "retire" \in Scans /\ unit \in Units
        BY <2>1 DEF Scans
    <3> QED BY ONLY <3>1, ScanOps
  <2>3. /\ RowsOK(mid) /\ mid.loans = phone.loans /\ At(mid, unit) = "gone"
        /\ \A v \in Units : v # unit => mid.units[v] = phone.units[v]
      BY <1>1, <2>1, UnitRows DEF Places
  <2>4. queue' = Queued(Queued(queue, back), o) /\ phone' = new
    <3>1. Before = Queued(queue, back) /\ Rows = mid
        BY ONLY <1>7 DEF Before, Rows
    <3> HIDE DEF mid, back
    <3> QED BY ONLY <1>10, <3>1
  <2> HIDE DEF mid, back
  <2>5. /\ RowsOK(new) /\ new.units = mid.units
        /\ new.loans[l].way = mid.loans[l].way /\ new.loans[l].unit = mid.loans[l].unit
        /\ ~new.loans[l].open
        /\ \A m \in Loans : m # l => new.loans[m] = mid.loans[m]
      BY <2>3, ShutRows
  <2> HIDE DEF new
  <2>6. PICK r, t :
           /\ Fresh(r, back, T) /\ Fresh(t, o, T \cup {r})
           /\ QueueOK(Queued(Queued(queue, back), o))
           /\ WaitingIn(Queued(Queued(queue, back), o)) = Waiting \cup {r, t}
           /\ RefusedIn(Queued(Queued(queue, back), o)) = Refused
      BY <1>3, <2>2, TwoQueued DEF Shape
  <2>7. ClosedLoan(phone, new, l)
      BY <1>2, <2>3, <2>5 DEF ClosedLoan
  <2>8. /\ At(new, Borrowed(l)) = "gone"
        /\ \A u \in Units : u # Borrowed(l) => At(new, u) = At(phone, u)
      BY <2>1, <2>3, <2>5 DEF At
  <2>9. /\ r \in TicketSet /\ r.op = "retire" /\ r.unit = Borrowed(l) /\ r.parent = 0
        /\ \A s \in T : s.n < r.n
      BY <2>1, <2>2, <2>6 DEF Fresh, Shape
  <2>10. /\ t \in TicketSet /\ t.op = "close" /\ t.loan = l /\ t.unit = phone.loans[l].unit
         /\ \A s \in T \cup {r} : s.n < t.n
      BY <1>3, <2>6 DEF Fresh, Shape
  <2>11. HouseInv(Waiting \cup {r, t}, Refused, Done, new, server, news.units, page)
    <3>1. phone.loans[l].way = "in" /\ phone.loans[l].unit # NoUnit /\ l \in Loans
        BY <1>7
    <3> QED BY ONLY <1>1, <2>7, <2>8, <2>9, <2>10, <3>1, SentBack
  <2>12. Waiting' = Waiting \cup {r, t} /\ Refused' = Refused /\ QueueOK(queue')
      BY <2>4, <2>6 DEF Waiting, Refused
  <2>13. HouseInv(Waiting', Refused', Done', phone', server', news'.units, page')
      BY <1>4, <1>5, <2>4, <2>11, <2>12
  <2> QED BY <1>4, <2>4, <2>5, <2>12, <2>13 DEF NetInv
<1>8. CASE ~sendsUnit /\ closesJob
  <2> DEFINE shut == JobOp("closeJob", job)
             mid == SetStatus(phone, job, "closed")
             new == [mid EXCEPT !.loans[l].open = FALSE]
  <2>1. Shape(shut, "closeJob", NoUnit, NoUnit, FALSE)
    <3>1. "closeJob" \in Others /\ job \in Jobs
        BY UnitsApart DEF Others
    <3> HIDE DEF job
    <3> QED BY <3>1, JobOps
  <2>2. RowsOK(mid) /\ mid.loans = phone.loans /\ mid.units = phone.units
      BY <1>1, StatusRows DEF SameDeals
  <2>3. queue' = Queued(Queued(queue, shut), o) /\ phone' = new
    <3>1. Before = Queued(queue, shut) /\ Rows = mid
        BY ONLY <1>8 DEF Before, Rows
    <3> HIDE DEF mid, shut
    <3> QED BY ONLY <1>10, <3>1
  <2> HIDE DEF mid, shut
  <2>4. /\ RowsOK(new) /\ new.units = mid.units
        /\ new.loans[l].way = mid.loans[l].way /\ new.loans[l].unit = mid.loans[l].unit
        /\ ~new.loans[l].open
        /\ \A m \in Loans : m # l => new.loans[m] = mid.loans[m]
      BY <2>2, ShutRows
  <2> HIDE DEF new
  <2>5. PICK r, t :
           /\ Fresh(r, shut, T) /\ Fresh(t, o, T \cup {r})
           /\ QueueOK(Queued(Queued(queue, shut), o))
           /\ WaitingIn(Queued(Queued(queue, shut), o)) = Waiting \cup {r, t}
           /\ RefusedIn(Queued(Queued(queue, shut), o)) = Refused
      BY <1>3, <2>1, TwoQueued DEF Shape
  <2>6. HouseInv(Waiting \cup {r}, Refused, Done, phone, server, news.units, page)
    <3>1. /\ r \in TicketSet /\ r.op \in Others /\ r.unit = NoUnit /\ \A s \in T : s.n < r.n
        BY <2>1, <2>5 DEF Fresh, Shape, Others
    <3>2. SameDeals(phone, phone)
        BY SameDealsSelf
    <3> QED BY ONLY <1>1, <3>1, <3>2, PlainWrite
  <2>7. ClosedLoan(phone, new, l) /\ \A u \in Units : At(new, u) = At(phone, u)
      BY <1>2, <2>2, <2>4 DEF ClosedLoan, At
  <2>8. HouseInv((Waiting \cup {r}) \cup {t}, Refused, Done, new, server, news.units, page)
    <3>1. /\ t \in TicketSet /\ t.op = "close" /\ t.loan = l /\ t.unit = phone.loans[l].unit
          /\ \A s \in T \cup {r} : s.n < t.n
        BY <1>3, <2>5 DEF Fresh, Shape
    <3>2. \A s \in (Waiting \cup {r}) \cup Refused \cup Done : s.n < t.n
        BY <3>1
    <3>3. l \in Loans /\ (phone.loans[l].way = "in" => phone.loans[l].unit = NoUnit)
        BY <1>8
    <3> QED BY ONLY <2>6, <2>7, <3>1, <3>2, <3>3, ShutWritten
  <2>9. Waiting' = (Waiting \cup {r}) \cup {t} /\ Refused' = Refused /\ QueueOK(queue')
      BY <2>3, <2>5 DEF Waiting, Refused
  <2>10. HouseInv(Waiting', Refused', Done', phone', server', news'.units, page')
      BY <1>4, <1>5, <2>3, <2>8, <2>9
  <2> QED BY <1>4, <2>3, <2>4, <2>9, <2>10 DEF NetInv
<1>9. CASE ~sendsUnit /\ ~closesJob
  <2> DEFINE new == [phone EXCEPT !.loans[l].open = FALSE]
  <2>1. queue' = Queued(queue, o) /\ phone' = new
    <3>1. Before = queue /\ Rows = phone
        BY ONLY <1>9 DEF Before, Rows
    <3> QED BY ONLY <1>10, <3>1
  <2>2. /\ RowsOK(new) /\ new.units = phone.units
        /\ new.loans[l].way = phone.loans[l].way /\ new.loans[l].unit = phone.loans[l].unit
        /\ ~new.loans[l].open
        /\ \A m \in Loans : m # l => new.loans[m] = phone.loans[m]
      BY <1>1, ShutRows
  <2> HIDE DEF new
  <2>3. PICK t : /\ Fresh(t, o, WaitingIn(queue) \cup RefusedIn(queue) \cup Done)
                 /\ QueueOK(Queued(queue, o))
                 /\ WaitingIn(Queued(queue, o)) = WaitingIn(queue) \cup {t}
                 /\ RefusedIn(Queued(queue, o)) = RefusedIn(queue)
      BY <1>1, <1>3, OneQueued DEF Waiting, Refused, Shape
  <2>4. ClosedLoan(phone, new, l) /\ \A u \in Units : At(new, u) = At(phone, u)
      BY <1>2, <2>2 DEF ClosedLoan, At
  <2>5. HouseInv(Waiting \cup {t}, Refused, Done, new, server, news.units, page)
    <3>1. /\ t \in TicketSet /\ t.op = "close" /\ t.loan = l /\ t.unit = phone.loans[l].unit
          /\ \A s \in Waiting \cup Refused \cup Done : s.n < t.n
        BY <1>3, <2>3 DEF Fresh, Shape, Waiting, Refused
    <3>2. l \in Loans /\ (phone.loans[l].way = "in" => phone.loans[l].unit = NoUnit)
        BY <1>6, <1>9
    <3> QED BY ONLY <1>1, <2>4, <3>1, <3>2, ShutWritten
  <2>6. Waiting' = Waiting \cup {t} /\ Refused' = Refused /\ QueueOK(queue')
      BY <2>1, <2>3 DEF Waiting, Refused
  <2>7. HouseInv(Waiting', Refused', Done', phone', server', news'.units, page')
      BY <1>4, <1>5, <2>1, <2>5, <2>6
  <2> QED BY <1>4, <2>1, <2>2, <2>6, <2>7 DEF NetInv
<1> QED BY <1>7, <1>8, <1>9

-----------------------------------------------------------------------------
(* What the server does.                                                   *)
LEMMA ServerKeeps ==
    ASSUME NEW W, NEW F, NEW D, NEW ph, NEW sv, NEW nw, NEW pg,
           HouseInv(W, F, D, ph, sv, nw, pg),
           NEW new, SameDeals(new, sv), NEW taken, NEW told,
           \A t \in taken \ D : t \in W /\ t.op # "retire",
           told \in SUBSET Units, \A u \in told : At(sv, u) # "none"
    PROVE  ServerStep(W, D, ph, sv, taken, new, told)
<1>1. /\ \A l \in Loans : new.loans[l] = sv.loans[l]
      /\ \A u \in Units : At(new, u) = At(sv, u)
    BY DEF SameDeals, At
<1>2. \A l \in Loans : (Ended(new, l) <=> Ended(sv, l)) /\ (Serial(new, l) <=> Serial(sv, l))
    BY <1>1 DEF Ended, Serial
<1>3. \A u \in Units : At(sv, u) = "gone" => \E l \in Loans : u = Borrowed(l) /\ Ended(ph, l)
    BY DEF HouseInv, GoneOK
<1>4. /\ \A l \in Loans : Ended(sv, l) => At(sv, Borrowed(l)) = "gone"
      /\ \A l \in Loans : Serial(sv, l) => At(sv, Borrowed(l)) # "none"
    BY DEF HouseInv, ServedOK
<1>5. \A l \in Loans : LoanOK(ph, sv, l)
    BY DEF HouseInv
<1> QED BY <1>1, <1>2, <1>3, <1>4, <1>5, UnitsApart DEF ServerStep, LoanOK

LEMMA ServerScans ==
    ASSUME NEW W, NEW F, NEW D, NEW ph, NEW sv, NEW nw, NEW pg,
           HouseInv(W, F, D, ph, sv, nw, pg), RowsOK(sv),
           NEW o, o.op \in Scans, o.unit \in Units, At(sv, o.unit) # "none",
           o.op # "retire" => At(sv, o.unit) # "gone",
           o.op = "retire" => \E l \in Loans : o.unit = Borrowed(l) /\ Ended(ph, l),
           NEW taken, \A t \in taken \ D : t \in W /\ t.op = o.op /\ t.unit = o.unit
    PROVE  /\ RowsOK(Scanned(sv, o))
           /\ ServerStep(W, D, ph, sv, taken, Scanned(sv, o), {o.unit} \cap Units)
<1> DEFINE new == Scanned(sv, o)
<1>1. /\ RowsOK(new) /\ new.loans = sv.loans
      /\ \A v \in Units : v # o.unit => new.units[v] = sv.units[v]
      /\ o.op = "checkOut" => At(new, o.unit) = "out"
      /\ o.op = "checkIn" => At(new, o.unit) = "here"
      /\ o.op = "retire" => At(new, o.unit) = "gone"
    BY ScannedRows
<1> HIDE DEF new
<1>2. \A v \in Units : v # o.unit => At(new, v) = At(sv, v)
    BY <1>1 DEF At
<1>3. \A l \in Loans : (Ended(new, l) <=> Ended(sv, l)) /\ (Serial(new, l) <=> Serial(sv, l))
    BY <1>1 DEF Ended, Serial
<1>4. At(new, o.unit) # "none" /\ (At(new, o.unit) = "gone" <=> o.op = "retire")
    BY <1>1 DEF Scans
<1>5. /\ \A l \in Loans : Ended(sv, l) => At(sv, Borrowed(l)) = "gone"
      /\ \A l \in Loans : Serial(sv, l) => At(sv, Borrowed(l)) # "none"
    BY DEF HouseInv, ServedOK
<1>6. \A u \in Units : At(sv, u) = "gone" => At(new, u) = "gone"
    BY <1>2, <1>4
<1>7. \A u \in Units : At(sv, u) # "none" => At(new, u) # "none"
    BY <1>2, <1>4
<1>8. \A u \in Units : At(sv, u) = "none" => At(new, u) = "none"
    BY <1>2
<1>9. \A u \in Units : At(new, u) = "gone" =>
         At(sv, u) = "gone" \/ \E l \in Loans : u = Borrowed(l) /\ Ended(ph, l)
    BY <1>2, <1>4
<1>10. \A t \in taken \ D : t \in W /\ (t.op = "retire" => At(new, t.unit) = "gone")
    BY <1>4
<1>11. \A l \in Loans : /\ new.loans[l].way # "none" =>
                             new.loans[l].way = ph.loans[l].way /\ new.loans[l].unit = ph.loans[l].unit
                        /\ new.loans[l].way = "none" => ~new.loans[l].open
    BY <1>1 DEF HouseInv, LoanOK
<1>12. \A l \in Loans : Ended(new, l) => At(new, Borrowed(l)) = "gone"
    BY <1>3, <1>5, <1>6, UnitsApart
<1>13. \A l \in Loans : Serial(new, l) => At(new, Borrowed(l)) # "none"
    BY <1>3, <1>5, <1>7, UnitsApart
<1>14. \A u \in {o.unit} \cap Units : u \in Units /\ At(new, u) # "none"
    BY <1>4
<1>15. ServerStep(W, D, ph, sv, taken, new, {o.unit} \cap Units)
    BY ONLY <1>6, <1>7, <1>8, <1>9, <1>10, <1>11, <1>12, <1>13, <1>14 DEF ServerStep
<1> QED BY <1>1, <1>15 DEF new

LEMMA ServerBorrows ==
    ASSUME NEW W, NEW F, NEW D, NEW ph, NEW sv, NEW nw, NEW pg,
           HouseInv(W, F, D, ph, sv, nw, pg), RowsOK(sv),
           NEW t \in W, t \notin D, t.op = "borrow", NEW h
    PROVE  LET new == Borrow(sv, t.loan, h, t.flag)
           IN RowsOK(new) /\ ServerStep(W, D, ph, sv, D \cup {t}, new, {t.unit} \cap Units)
<1> DEFINE l == t.loan
           new == Borrow(sv, l, h, t.flag)
<1>1. /\ l \in Loans /\ t.flag \in BOOLEAN
      /\ t.unit = IF t.flag THEN Borrowed(l) ELSE NoUnit
      /\ ph.loans[l].way = "in" /\ ph.loans[l].unit = t.unit
  <2>1. TicketOK(t, ph) /\ t \in TicketSet
      BY DEF HouseInv, TicketsOK
  <2> QED BY <2>1 DEF TicketOK, Deals, TicketSet
<1> HIDE DEF l
<1>2. /\ RowsOK(new)
      /\ new.loans[l] = [way |-> "in", house |-> h, unit |-> t.unit, open |-> TRUE]
      /\ \A m \in Loans : m # l => new.loans[m] = sv.loans[m]
      /\ \A u \in Units : At(new, u) = IF u = t.unit THEN "here" ELSE At(sv, u)
    BY <1>1, BorrowRows
<1> HIDE DEF new
<1>3. t.unit \in Units => t.flag /\ t.unit = Borrowed(l) /\ At(sv, t.unit) = "none"
  <2>1. t.unit \in Units => t.flag
      BY <1>1, UnitsApart
  <2>2. t.flag => At(sv, t.unit) = "none"
      BY DEF HouseInv, ServedOK
  <2> QED BY <1>1, <2>1, <2>2
<1>4. /\ \A m \in Loans : Ended(sv, m) => At(sv, Borrowed(m)) = "gone"
      /\ \A m \in Loans : Serial(sv, m) => At(sv, Borrowed(m)) # "none"
    BY DEF HouseInv, ServedOK
<1>5. \A u \in Units : At(sv, u) # "none" => At(new, u) = At(sv, u)
    BY <1>2, <1>3
<1>6. \A u \in Units : At(new, u) = "gone" => At(sv, u) = "gone"
    BY <1>2
<1>7. \A u \in Units : At(sv, u) = "none" /\ At(new, u) # "none" =>
         \E s \in W : /\ s.op = "borrow" /\ s.unit = u /\ s \in D \cup {t}
                      /\ s.flag /\ s.loan \in Loans /\ u = Borrowed(s.loan)
  <2> SUFFICES ASSUME NEW u \in Units, At(sv, u) = "none", At(new, u) # "none"
               PROVE  /\ t.op = "borrow" /\ t.unit = u
                      /\ t.flag /\ t.loan \in Loans /\ u = Borrowed(t.loan)
      OBVIOUS
  <2>1. u = t.unit
      BY <1>2
  <2> QED BY <1>1, <1>3, <2>1 DEF l
<1>8. \A m \in Loans : /\ new.loans[m].way # "none" =>
                            new.loans[m].way = ph.loans[m].way /\ new.loans[m].unit = ph.loans[m].unit
                       /\ new.loans[m].way = "none" => ~new.loans[m].open
  <2>1. \A m \in Loans : LoanOK(ph, sv, m)
      BY DEF HouseInv
  <2> QED BY <1>1, <1>2, <2>1 DEF LoanOK
<1>9. \A m \in Loans : Ended(new, m) => At(new, Borrowed(m)) = "gone"
  <2> SUFFICES ASSUME NEW m \in Loans, Ended(new, m) PROVE At(new, Borrowed(m)) = "gone"
      OBVIOUS
  <2>1. m # l
      BY <1>2 DEF Ended
  <2>2. Ended(sv, m)
      BY <1>2, <2>1 DEF Ended, Serial
  <2> QED BY <1>4, <1>5, <2>2, UnitsApart
<1>10. \A m \in Loans : Serial(new, m) => At(new, Borrowed(m)) # "none"
  <2> SUFFICES ASSUME NEW m \in Loans, Serial(new, m) PROVE At(new, Borrowed(m)) # "none"
      OBVIOUS
  <2>1. CASE m # l
    <3>1. Serial(sv, m)
        BY <1>2, <2>1 DEF Serial
    <3> QED BY <1>4, <1>5, <3>1, UnitsApart
  <2>2. CASE m = l
    <3>1. t.unit # NoUnit
        BY <1>2, <2>2 DEF Serial
    <3> QED BY <1>1, <1>2, <2>2, <3>1, UnitsApart
  <2> QED BY <2>1, <2>2
<1>11. \A u \in {t.unit} \cap Units : u \in Units /\ At(new, u) # "none"
    BY <1>2
<1>12. \A s \in (D \cup {t}) \ D : s \in W /\ (s.op = "retire" => At(new, s.unit) = "gone")
    OBVIOUS
<1>13. ServerStep(W, D, ph, sv, D \cup {t}, new, {t.unit} \cap Units)
    BY ONLY <1>5, <1>6, <1>7, <1>8, <1>9, <1>10, <1>11, <1>12 DEF ServerStep
<1> QED BY <1>2, <1>13 DEF new, l

LEMMA ServerLends ==
    ASSUME NEW W, NEW F, NEW D, NEW ph, NEW sv, NEW nw, NEW pg,
           HouseInv(W, F, D, ph, sv, nw, pg), RowsOK(sv),
           NEW t \in W, t.op = "lend", NEW h, t.unit # NoUnit => At(sv, t.unit) # "none"
    PROVE  LET new == Lend(sv, t.loan, h, t.unit)
           IN RowsOK(new) /\ ServerStep(W, D, ph, sv, D \cup {t}, new, {t.unit} \cap Units)
<1> DEFINE l == t.loan
           new == Lend(sv, l, h, t.unit)
<1>1. l \in Loans /\ ph.loans[l].way = "out" /\ ph.loans[l].unit = t.unit
  <2>1. TicketOK(t, ph)
      BY DEF HouseInv
  <2> QED BY <2>1 DEF TicketOK, Deals
<1> HIDE DEF l
<1>2. /\ RowsOK(new) /\ new.units = sv.units
      /\ new.loans[l] = [way |-> "out", house |-> h, unit |-> t.unit, open |-> TRUE]
      /\ \A m \in Loans : m # l => new.loans[m] = sv.loans[m]
    BY <1>1, LendRows
<1> HIDE DEF new
<1>3. \A u \in Units : At(new, u) = At(sv, u)
    BY <1>2 DEF At
<1>4. \A m \in Loans : (Ended(new, m) => Ended(sv, m)) /\ (Serial(new, m) => Serial(sv, m))
    BY <1>2 DEF Ended, Serial
<1>5. /\ \A m \in Loans : Ended(sv, m) => At(sv, Borrowed(m)) = "gone"
      /\ \A m \in Loans : Serial(sv, m) => At(sv, Borrowed(m)) # "none"
    BY DEF HouseInv, ServedOK
<1>6. \A m \in Loans : /\ new.loans[m].way # "none" =>
                            new.loans[m].way = ph.loans[m].way /\ new.loans[m].unit = ph.loans[m].unit
                       /\ new.loans[m].way = "none" => ~new.loans[m].open
  <2>1. \A m \in Loans : LoanOK(ph, sv, m)
      BY DEF HouseInv
  <2> QED BY <1>1, <1>2, <2>1 DEF LoanOK
<1>7. \A u \in {t.unit} \cap Units : u \in Units /\ At(new, u) # "none"
    BY <1>3, UnitsApart
<1>8. \A s \in (D \cup {t}) \ D : s \in W /\ (s.op = "retire" => At(new, s.unit) = "gone")
    OBVIOUS
<1>9. ServerStep(W, D, ph, sv, D \cup {t}, new, {t.unit} \cap Units)
    BY <1>3, <1>4, <1>5, <1>6, <1>7, <1>8, UnitsApart DEF ServerStep
<1> QED BY <1>2, <1>9 DEF new, l

LEMMA ServerCloses ==
    ASSUME NEW W, NEW F, NEW D, NEW ph, NEW sv, NEW nw, NEW pg,
           HouseInv(W, F, D, ph, sv, nw, pg),
           NEW t \in W, t.op = "close",
           NEW new, ClosedLoan(sv, new, t.loan),
           \A u \in Units : At(new, u) = IF Serial(sv, t.loan) /\ u = sv.loans[t.loan].unit
                                         THEN "gone" ELSE At(sv, u)
    PROVE  ServerStep(W, D, ph, sv, D \cup {t}, new, {t.unit} \cap Units)
<1> DEFINE l == t.loan
<1>1. l \in Loans /\ ph.loans[l].unit = t.unit /\ ~ph.loans[l].open
  <2>1. TicketOK(t, ph)
      BY DEF HouseInv
  <2> QED BY <2>1 DEF TicketOK
<1> HIDE DEF l
<1>2. /\ sv.loans[l].open = TRUE /\ ~new.loans[l].open
      /\ new.loans[l].way = sv.loans[l].way /\ new.loans[l].unit = sv.loans[l].unit
      /\ \A m \in Loans : m # l => new.loans[m] = sv.loans[m]
    BY DEF ClosedLoan, l
<1>3. LoanOK(ph, sv, l)
    BY <1>1 DEF HouseInv
<1>4. /\ sv.loans[l].way = ph.loans[l].way /\ sv.loans[l].unit = t.unit
      /\ ph.loans[l].way \in {"in", "out"}
      /\ ph.loans[l].way = "in" => t.unit \in {NoUnit, Borrowed(l)}
      /\ ph.loans[l].way = "out" => t.unit \in Fleet \cup {NoUnit}
    BY <1>1, <1>2, <1>3 DEF LoanOK
<1>5. /\ \A m \in Loans : Ended(sv, m) => At(sv, Borrowed(m)) = "gone"
      /\ \A m \in Loans : Serial(sv, m) => At(sv, Borrowed(m)) # "none"
      /\ \A u \in Fleet : At(sv, u) # "none"
    BY DEF HouseInv, ServedOK
<1>6. Serial(sv, l) => t.unit = Borrowed(l) /\ Ended(ph, l) /\ At(sv, t.unit) # "none"
    BY <1>1, <1>4, <1>5 DEF Serial, Ended
<1>7. \A u \in Units : At(new, u) = IF Serial(sv, l) /\ u = t.unit THEN "gone" ELSE At(sv, u)
    BY <1>4 DEF l
<1>8. \A u \in Units : At(sv, u) = "gone" => At(new, u) = "gone"
    BY <1>7
<1>9. \A u \in Units : At(sv, u) # "none" => At(new, u) # "none"
    BY <1>7
<1>10. \A u \in Units : At(sv, u) = "none" => At(new, u) = "none"
    BY <1>6, <1>7
<1>11. \A u \in Units : At(new, u) = "gone" =>
          At(sv, u) = "gone" \/ \E m \in Loans : u = Borrowed(m) /\ Ended(ph, m)
    BY <1>1, <1>6, <1>7
<1>12. \A m \in Loans : /\ new.loans[m].way # "none" =>
                             new.loans[m].way = ph.loans[m].way /\ new.loans[m].unit = ph.loans[m].unit
                        /\ new.loans[m].way = "none" => ~new.loans[m].open
  <2>1. \A m \in Loans : LoanOK(ph, sv, m)
      BY DEF HouseInv
  <2> QED BY <1>1, <1>2, <1>4, <2>1 DEF LoanOK
<1>13. \A m \in Loans : Ended(new, m) => At(new, Borrowed(m)) = "gone"
  <2> SUFFICES ASSUME NEW m \in Loans, Ended(new, m) PROVE At(new, Borrowed(m)) = "gone"
      OBVIOUS
  <2>0. Borrowed(m) \in Units
      BY UnitsApart
  <2>1. CASE m = l
    <3>1. Serial(sv, l)
        BY <1>2, <2>1 DEF Ended, Serial
    <3> QED BY <1>6, <1>7, <2>0, <2>1, <3>1
  <2>2. CASE m # l
    <3>1. Ended(sv, m)
        BY <1>2, <2>2 DEF Ended, Serial
    <3> QED BY <1>5, <1>8, <2>0, <3>1
  <2> QED BY <2>1, <2>2
<1>14. \A m \in Loans : Serial(new, m) => At(new, Borrowed(m)) # "none"
  <2> SUFFICES ASSUME NEW m \in Loans, Serial(new, m) PROVE At(new, Borrowed(m)) # "none"
      OBVIOUS
  <2>1. Serial(sv, m)
      BY <1>2 DEF Serial
  <2> QED BY <1>5, <1>9, <2>1, UnitsApart
<1>15. \A u \in {t.unit} \cap Units : u \in Units /\ At(new, u) # "none"
  <2> SUFFICES ASSUME t.unit \in Units PROVE At(new, t.unit) # "none"
      OBVIOUS
  <2>1. t.unit # NoUnit
      BY UnitsApart
  <2>2. At(sv, t.unit) # "none"
      BY <1>4, <1>5, <1>6, <2>1 DEF Serial
  <2> QED BY <1>9, <2>2
<1>16. \A s \in (D \cup {t}) \ D : s \in W /\ (s.op = "retire" => At(new, s.unit) = "gone")
    OBVIOUS
<1> QED BY ONLY <1>8, <1>9, <1>10, <1>11, <1>12, <1>13, <1>14, <1>15, <1>16 DEF ServerStep

(* The rows a verb of no unit leaves.                                      *)
LEMMA TakenOthers ==
    ASSUME RowsOK(server), NEW o, o.op \in Others
    PROVE  RowsOK(Taken(o)) /\ SameDeals(Taken(o), server)
<1>1. CASE o.op = "addHouse"
  <2>1. Taken(o) = WithHouse(server, o.house, "live")
      BY <1>1 DEF Taken
  <2> QED BY <2>1, HouseRows
<1>2. CASE o.op = "removeHouse"
  <2>1. Taken(o) = WithHouse(server, o.house, "removed")
      BY <1>2 DEF Taken
  <2> QED BY <2>1, HouseRows
<1>3. CASE o.op = "editHouse"
  <2>1. Taken(o) = server
      BY <1>3 DEF Taken, Scanned
  <2> QED BY <2>1, SameDealsSelf
<1>4. CASE o.op \in {"createJob", "reopenJob"}
  <2>1. Taken(o) = SetStatus(server, o.job, "open")
      BY <1>4 DEF Taken
  <2> QED BY <2>1, StatusRows
<1>5. CASE o.op = "closeJob"
  <2>1. Taken(o) = SetStatus(server, o.job, "closed")
      BY <1>5 DEF Taken
  <2> QED BY <2>1, StatusRows
<1>6. CASE o.op = "setDue"
  <2>1. Taken(o) = [server EXCEPT !.jobs[o.job].due = o.due]
      BY <1>6 DEF Taken
  <2> QED BY <2>1, DueRows
<1>7. CASE o.op = "assign"
  <2>1. Taken(o) = [server EXCEPT !.jobs[o.job].names = @ \cup {o.who}]
      BY <1>7 DEF Taken
  <2>2. Taken(o) = [server EXCEPT !.jobs[o.job].names = server.jobs[o.job].names \cup {o.who}]
      BY <2>1
  <2> QED BY <2>2, CrewRows, SMTT(30)
<1>8. CASE o.op = "unassign"
  <2>1. Taken(o) = [server EXCEPT !.jobs[o.job].names = @ \ {o.who}]
      BY <1>8 DEF Taken
  <2> DEFINE rest == server.jobs[o.job].names \ {o.who}
  <2>2. Taken(o) = [server EXCEPT !.jobs[o.job].names = rest]
      BY <2>1
  <2> HIDE DEF rest
  <2> QED BY <2>2, CrewRows, SMTT(30)
<1> QED BY <1>1, <1>2, <1>3, <1>4, <1>5, <1>6, <1>7, <1>8 DEF Others

(* The server takes a waiting op.                                          *)
LEMMA TakenMoves ==
    ASSUME NetInv, NEW o, IsOp(o), Ticket(o) \in Waiting, Ticket(o) \notin Done, Admits(o)
    PROVE  /\ RowsOK(Taken(o))
           /\ ServerStep(Waiting, Done, phone, server, Done \cup {Ticket(o)}, Taken(o),
                         {o.unit} \cap Units)
<1> DEFINE t == Ticket(o)
<1>1. /\ HouseInv(Waiting, Refused, Done, phone, server, news.units, page) /\ RowsOK(server)
    BY DEF NetInv
<1>2. /\ t.op = o.op /\ t.loan = o.loan /\ t.unit = o.unit /\ t.flag = o.flag
      /\ t \in Waiting /\ t \notin Done
    BY DEF Ticket
<1>3. TicketOK(t, phone) /\ o.op \in Verbs
    BY <1>1 DEF HouseInv, IsOp, OpFields
<1> HIDE DEF t
<1>4. CASE o.op \in Others
  <2>1. RowsOK(Taken(o)) /\ SameDeals(Taken(o), server)
      BY <1>1, <1>4, TakenOthers
  <2>2. \A s \in (Done \cup {t}) \ Done : s \in Waiting /\ s.op # "retire"
      BY <1>2, <1>4 DEF Others
  <2>3. {} \in SUBSET Units /\ \A u \in {} : At(server, u) # "none"
      OBVIOUS
  <2>4. ServerStep(Waiting, Done, phone, server, Done \cup {t}, Taken(o), {})
      BY ONLY <1>1, <2>1, <2>2, <2>3, ServerKeeps
  <2>5. {o.unit} \cap Units = {}
      BY <1>2, <1>3, <1>4, UnitsApart DEF TicketOK
  <2> QED BY <2>1, <2>4, <2>5 DEF t
<1>5. CASE o.op = "borrow"
  <2>1. Taken(o) = Borrow(server, t.loan, o.house, t.flag)
      BY <1>2, <1>5 DEF Taken
  <2>2. LET new == Borrow(server, t.loan, o.house, t.flag)
        IN /\ RowsOK(new)
           /\ ServerStep(Waiting, Done, phone, server, Done \cup {t}, new, {t.unit} \cap Units)
    <3>1. t \in Waiting /\ t \notin Done /\ t.op = "borrow"
        BY <1>2, <1>5
    <3> QED BY ONLY <1>1, <3>1, ServerBorrows
  <2> QED BY <1>2, <2>1, <2>2 DEF t
<1>6. CASE o.op = "lend"
  <2>1. Taken(o) = Lend(server, t.loan, o.house, t.unit)
      BY <1>2, <1>6 DEF Taken
  <2>2. LET new == Lend(server, t.loan, o.house, t.unit)
        IN /\ RowsOK(new)
           /\ ServerStep(Waiting, Done, phone, server, Done \cup {t}, new, {t.unit} \cap Units)
    <3>1. t \in Waiting /\ t.op = "lend" /\ (t.unit # NoUnit => At(server, t.unit) # "none")
        BY <1>2, <1>6 DEF Admits, InFleet, At
    <3> QED BY ONLY <1>1, <3>1, ServerLends
  <2> QED BY <1>2, <2>1, <2>2 DEF t
<1>7. CASE o.op = "close"
  <2> DEFINE l == t.loan
             loan == server.loans[l]
             shut == [server EXCEPT !.loans[l].open = FALSE]
             new == Taken(o)
  <2>1. l \in Loans /\ loan.open
      BY <1>2, <1>3, <1>7 DEF Admits, TicketOK
  <2>2. /\ loan.way \in {"in", "out"}
        /\ loan.unit # NoUnit /\ loan.way = "in" => loan.unit \in Units
    <3>1. LoanOK(phone, server, l)
        BY <1>1, <2>1 DEF HouseInv
    <3> QED BY <2>1, <3>1, UnitsApart DEF LoanOK
  <2> HIDE DEF l
  <2>3. /\ RowsOK(shut) /\ shut.units = server.units
        /\ shut.loans[l].way = server.loans[l].way /\ shut.loans[l].unit = server.loans[l].unit
        /\ ~shut.loans[l].open
        /\ \A m \in Loans : m # l => shut.loans[m] = server.loans[m]
      BY <1>1, <2>1, ShutRows
  <2>4. new = IF loan.way = "out" THEN SetStatus(shut, LoanJob(l), "closed")
              ELSE IF loan.unit = NoUnit THEN shut
              ELSE [shut EXCEPT !.units[loan.unit].at = "gone"]
      BY <1>2, <1>7 DEF Taken, l
  <2> HIDE DEF shut, new
  <2>5. /\ RowsOK(new) /\ new.loans = shut.loans
        /\ \A u \in Units : At(new, u) = IF Serial(server, l) /\ u = loan.unit
                                         THEN "gone" ELSE At(server, u)
    <3>1. CASE loan.way = "out"
      <4>1. RowsOK(new) /\ SameDeals(new, shut)
          BY <2>3, <2>4, <3>1, StatusRows
      <4> QED BY <2>3, <3>1, <4>1 DEF SameDeals, At, Serial
    <3>2. CASE loan.way # "out" /\ loan.unit = NoUnit
      <4>1. new = shut
          BY <2>4, <3>2
      <4> QED BY <2>3, <3>2, <4>1 DEF At, Serial
    <3>3. CASE loan.way # "out" /\ loan.unit # NoUnit
      <4>1. loan.unit \in Units /\ "gone" \in Places
          BY <2>2, <3>3 DEF Places
      <4>2. new = [shut EXCEPT !.units[loan.unit].at = "gone"]
          BY <2>4, <3>3
      <4> DEFINE unit == loan.unit
      <4> HIDE DEF unit
      <4>3. unit \in Units /\ new = [shut EXCEPT !.units[unit].at = "gone"]
          BY <4>1, <4>2 DEF unit
      <4>4. /\ RowsOK(new) /\ new.loans = shut.loans /\ At(new, unit) = "gone"
            /\ \A v \in Units : v # unit => new.units[v] = shut.units[v]
          BY <2>3, <4>1, <4>3, UnitRows
      <4>5. Serial(server, l) /\ unit = loan.unit
          BY <2>2, <3>3 DEF Serial, unit
      <4> QED BY <2>3, <4>4, <4>5 DEF At
    <3> QED BY <3>1, <3>2, <3>3
  <2>6. ClosedLoan(server, new, l)
      BY <2>1, <2>3, <2>5 DEF ClosedLoan
  <2>7. ServerStep(Waiting, Done, phone, server, Done \cup {t}, new, {t.unit} \cap Units)
    <3>1. t \in Waiting /\ t.op = "close" /\ ClosedLoan(server, new, t.loan)
        BY <1>2, <1>7, <2>6 DEF l
    <3>2. \A u \in Units : At(new, u) = IF Serial(server, t.loan) /\ u = server.loans[t.loan].unit
                                        THEN "gone" ELSE At(server, u)
        BY <2>5 DEF l
    <3> QED BY ONLY <1>1, <3>1, <3>2, ServerCloses
  <2> QED BY <1>2, <2>5, <2>7 DEF t, new
<1>8. CASE o.op \in Scans
  <2>1. Taken(o) = Scanned(server, o)
      BY <1>8 DEF Taken, Scans
  <2>2. o.unit \in Units /\ (o.op = "retire" => \E l \in Loans : o.unit = Borrowed(l) /\ Ended(phone, l))
      BY <1>2, <1>3, <1>8 DEF TicketOK
  <2>3. At(server, o.unit) # "none" /\ (o.op # "retire" => At(server, o.unit) # "gone")
    <3>1. CASE o.op = "retire"
        BY <3>1 DEF Admits, At
    <3>2. CASE o.op = "checkOut"
        BY <3>2 DEF Admits, InFleet, At
    <3>3. CASE o.op = "checkIn"
        BY <3>3 DEF Admits, InFleet, At
    <3> QED BY <1>8, <3>1, <3>2, <3>3 DEF Scans
  <2>4. \A s \in (Done \cup {t}) \ Done : s \in Waiting /\ s.op = o.op /\ s.unit = o.unit
      BY <1>2
  <2>5. /\ RowsOK(Scanned(server, o))
        /\ ServerStep(Waiting, Done, phone, server, Done \cup {t}, Scanned(server, o), {o.unit} \cap Units)
      BY ONLY <1>1, <1>8, <2>2, <2>3, <2>4, ServerScans
  <2> QED BY <2>1, <2>5 DEF t
<1> QED BY <1>3, <1>4, <1>5, <1>6, <1>7, <1>8 DEF Verbs, Deals

(* A verb of another desk.                                                 *)
LEMMA RivalMoves ==
    ASSUME NetInv, NEW o \in RivalOps
    PROVE  /\ RowsOK(Taken(o))
           /\ ServerStep(Waiting, Done, phone, server, Done, Taken(o), {o.unit} \cap Units)
<1>1. /\ HouseInv(Waiting, Refused, Done, phone, server, news.units, page) /\ RowsOK(server)
    BY DEF NetInv
<1>2. ASSUME o.op \in Others, o.unit = NoUnit
      PROVE  /\ RowsOK(Taken(o))
             /\ ServerStep(Waiting, Done, phone, server, Done, Taken(o), {o.unit} \cap Units)
  <2>1. RowsOK(Taken(o)) /\ SameDeals(Taken(o), server)
      BY <1>1, <1>2, TakenOthers
  <2>2. /\ \A s \in Done \ Done : s \in Waiting /\ s.op # "retire"
        /\ {} \in SUBSET Units /\ \A u \in {} : At(server, u) # "none"
      OBVIOUS
  <2>3. ServerStep(Waiting, Done, phone, server, Done, Taken(o), {})
      BY ONLY <1>1, <2>1, <2>2, ServerKeeps
  <2>4. {o.unit} \cap Units = {}
      BY <1>2, UnitsApart
  <2> QED BY <2>1, <2>3, <2>4
<1>3. ASSUME o.op \in {"checkOut", "checkIn"}, o.unit \in Units, At(server, o.unit) \in {"here", "out"}
      PROVE  /\ RowsOK(Taken(o))
             /\ ServerStep(Waiting, Done, phone, server, Done, Taken(o), {o.unit} \cap Units)
  <2>1. Taken(o) = Scanned(server, o)
      BY <1>3 DEF Taken
  <2>2. /\ o.op \in Scans /\ o.unit \in Units /\ At(server, o.unit) # "none"
        /\ o.op # "retire" => At(server, o.unit) # "gone"
        /\ o.op = "retire" => \E l \in Loans : o.unit = Borrowed(l) /\ Ended(phone, l)
        /\ \A s \in Done \ Done : s \in Waiting /\ s.op = o.op /\ s.unit = o.unit
      BY <1>3 DEF Scans
  <2>3. /\ RowsOK(Scanned(server, o))
        /\ ServerStep(Waiting, Done, phone, server, Done, Scanned(server, o), {o.unit} \cap Units)
      BY ONLY <1>1, <2>2, ServerScans
  <2> QED BY <2>1, <2>3
<1>4. \/ o.op \in Others /\ o.unit = NoUnit
      \/ o.op \in {"checkOut", "checkIn"} /\ o.unit \in Units /\ At(server, o.unit) \in {"here", "out"}
  <2>1. CASE \E h \in Houses : o = HouseOp("removeHouse", h)
    <3>1. PICK h \in Houses : o = HouseOp("removeHouse", h)
        BY <2>1
    <3>2. "removeHouse" \in Others
        BY DEF Others
    <3> QED BY <3>1, <3>2, HouseOps DEF Shape
  <2>2. CASE \E u \in Units, j \in Jobs : o = ScanOp("checkOut", u, j) /\ server.units[u].at = "here"
    <3>1. PICK u \in Units, j \in Jobs : o = ScanOp("checkOut", u, j) /\ server.units[u].at = "here"
        BY <2>2
    <3>2. "checkOut" \in Scans
        BY DEF Scans
    <3>3. Shape(o, "checkOut", NoUnit, u, FALSE)
        BY <3>1, <3>2, ScanOps
    <3> QED BY <3>1, <3>3 DEF Shape, At
  <2>3. CASE \E u \in Units : o = ScanOp("checkIn", u, NoJob) /\ server.units[u].at = "out"
    <3>1. PICK u \in Units : o = ScanOp("checkIn", u, NoJob) /\ server.units[u].at = "out"
        BY <2>3
    <3>2. "checkIn" \in Scans
        BY DEF Scans
    <3>3. Shape(o, "checkIn", NoUnit, u, FALSE)
        BY <3>1, <3>2, ScanOps
    <3> QED BY <3>1, <3>3 DEF Shape, At
  <2>4. CASE \E j \in Jobs : o = JobOp("closeJob", j)
    <3>1. PICK j \in Jobs : o = JobOp("closeJob", j)
        BY <2>4
    <3>2. "closeJob" \in Others
        BY DEF Others
    <3> QED BY <3>1, <3>2, JobOps DEF Shape
  <2>5. CASE \E op \in {"assign", "unassign"}, who \in Crew, j \in Jobs :
                o = [JobOp(op, j) EXCEPT !.who = who]
    <3>1. PICK op \in {"assign", "unassign"}, who \in Crew, j \in Jobs :
             o = [JobOp(op, j) EXCEPT !.who = who]
        BY <2>5
    <3>2. op \in Others
        BY DEF Others
    <3>3. Shape([JobOp(op, j) EXCEPT !.who = who], op, NoUnit, NoUnit, FALSE)
        BY <3>2, CrewOps, Zenon
    <3> QED BY <3>1, <3>2, <3>3 DEF Shape
  <2> QED BY <2>1, <2>2, <2>3, <2>4, <2>5 DEF RivalOps
<1> QED BY <1>2, <1>3, <1>4

-----------------------------------------------------------------------------
(* The call, the cycle and the page.                                       *)
LEMMA KnownIsDone ==
    ASSUME NetInv, NEW o, IsOp(o), Ticket(o) \in Waiting
    PROVE  (\E r \in receipts : r.n = o.n) <=> Ticket(o) \in Done
<1>1. ASSUME NEW r \in receipts, r.n = o.n PROVE Ticket(o) \in Done
  <2>1. Ticket(r) \in Done /\ Ticket(r).n = Ticket(o).n
      BY <1>1 DEF Done, Ticket
  <2>2. \A s, t \in Waiting \cup Refused \cup Done : s.n = t.n => s = t
      BY DEF NetInv, HouseInv, TicketsOK
  <2>3. Ticket(r) = Ticket(o)
      BY <2>1, <2>2
  <2> QED BY <2>1, <2>3
<1>2. ASSUME Ticket(o) \in Done PROVE \E r \in receipts : r.n = o.n
  <2>1. PICK r \in receipts : Ticket(o) = Ticket(r)
      BY <1>2 DEF Done
  <2>2. r.n = o.n
      BY <2>1 DEF Ticket
  <2> QED BY <2>2
<1> QED BY <1>1, <1>2

LEMMA NewsTold ==
    ASSUME NEW o
    PROVE  Both(news, Touched(o)).units = news.units \cup ({o.unit} \cap Units)
BY DEF Both, Touched

(* What the server answers: taken now, taken before, or refused.           *)
LEMMA Answered ==
    ASSUME NetInv, NEW o, IsOp(o), Ticket(o) \in Waiting,
           IF ~(\E r \in receipts : r.n = o.n) /\ Admits(o) THEN Commit(o)
           ELSE UNCHANGED <<receipts, server, news, strain>>
    PROVE  /\ RowsOK(server') /\ (\A r \in receipts' : IsOp(r))
           /\ HouseInv(Waiting, Refused, Done', phone, server', news'.units, page)
           /\ (\E r \in receipts : r.n = o.n) \/ Admits(o) => Ticket(o) \in Done'
           /\ ~((\E r \in receipts : r.n = o.n) \/ Admits(o)) => server' = server /\ Done' = Done
<1>1. HouseInv(Waiting, Refused, Done, phone, server, news.units, page)
    BY DEF NetInv
<1>2. CASE ~(\E r \in receipts : r.n = o.n) /\ Admits(o)
  <2>1. /\ receipts' = receipts \cup {o} /\ server' = Taken(o)
        /\ news' = Both(news, Touched(o))
      BY <1>2 DEF Commit
  <2>2. Done' = Done \cup {Ticket(o)}
      BY <2>1 DEF Done
  <2>3. /\ RowsOK(Taken(o))
        /\ ServerStep(Waiting, Done, phone, server, Done \cup {Ticket(o)}, Taken(o),
                      {o.unit} \cap Units)
      BY <1>2, KnownIsDone, TakenMoves
  <2>4. HouseInv(Waiting, Refused, Done \cup {Ticket(o)}, phone, Taken(o),
                 news.units \cup ({o.unit} \cap Units), page)
    <3>1. Done \subseteq Done \cup {Ticket(o)}
        OBVIOUS
    <3> QED BY ONLY <1>1, <2>3, <3>1, ServerMoved
  <2>5. news'.units = news.units \cup ({o.unit} \cap Units)
      BY <2>1, NewsTold
  <2>6. \A r \in receipts' : IsOp(r)
      BY <2>1 DEF NetInv
  <2> QED BY <1>2, <2>1, <2>2, <2>3, <2>4, <2>5, <2>6
<1>3. CASE ~(~(\E r \in receipts : r.n = o.n) /\ Admits(o))
  <2>1. UNCHANGED <<receipts, server, news>>
      BY <1>3
  <2>2. Done' = Done
      BY <2>1 DEF Done
  <2>3. (\E r \in receipts : r.n = o.n) \/ Admits(o) => Ticket(o) \in Done
      BY <1>3, KnownIsDone
  <2> QED BY <1>1, <2>1, <2>2, <2>3 DEF NetInv
<1> QED BY <1>2, <1>3

LEMMA SendActs ==
    ASSUME NetInv, Send
    PROVE  NetInv'
<1> DEFINE o == First
           known == \E r \in receipts : r.n = o.n
<1>1. /\ phase = "flush" /\ Live # {} /\ page.units = {} /\ QueueOK(queue)
      /\ RowsOK(phone) /\ RowsOK(page.rows)
    BY DEF NetInv, Send
<1>2. IsOp(o) /\ Ticket(o) \in Waiting /\ \A t \in Waiting : o.n <= t.n
    BY <1>1, FirstIsOldest
<1>3. /\ IF ~known /\ Admits(o) THEN Commit(o) ELSE UNCHANGED <<receipts, server, news, strain>>
      /\ \/ /\ queue' = IF known \/ Admits(o) THEN Landed ELSE Parked(o.n)
            /\ phase' = phase
         \/ phase' = "pull" /\ queue' = queue
      /\ phone' = phone /\ page' = page
    BY DEF Send
<1> HIDE DEF o
<1>4. /\ RowsOK(server') /\ (\A r \in receipts' : IsOp(r))
      /\ HouseInv(Waiting, Refused, Done', phone, server', news'.units, page)
      /\ known \/ Admits(o) => Ticket(o) \in Done'
      /\ ~(known \/ Admits(o)) => server' = server /\ Done' = Done
    BY <1>2, <1>3, Answered
<1> HIDE DEF known
<1>5. Ticket(o).n = o.n /\ Ticket(o).op = o.op /\ Ticket(o).unit = o.unit
    BY DEF Ticket
<1>6. CASE queue' = queue
  <2>1. Waiting' = Waiting /\ Refused' = Refused
      BY <1>6 DEF Waiting, Refused
  <2> QED BY <1>1, <1>3, <1>4, <1>6, <2>1 DEF NetInv
<1>7. CASE queue' = Landed /\ (known \/ Admits(o))
  <2>1. /\ QueueOK(Landed) /\ WaitingIn(Landed) = Waiting \ {Ticket(o)}
        /\ RefusedIn(Landed) = Refused
      BY <1>1, HeadLeft DEF o
  <2>2. HouseInv(Waiting \ {Ticket(o)}, Refused, Done', phone, server', news'.units, page)
    <3>1. /\ HouseInv(Waiting, Refused, Done', phone, server', news'.units, page)
          /\ page.units = {} /\ Ticket(o) \in Waiting /\ Ticket(o) \in Done'
          /\ \A t \in Waiting : Ticket(o).n <= t.n
        BY <1>1, <1>2, <1>4, <1>5, <1>7
    <3> QED BY ONLY <3>1, TicketLanded
  <2>3. QueueOK(queue') /\ Waiting' = Waiting \ {Ticket(o)} /\ Refused' = Refused
      BY <1>7, <2>1 DEF Waiting, Refused
  <2> QED BY <1>1, <1>3, <1>4, <2>2, <2>3 DEF NetInv
<1>8. CASE queue' = Parked(o.n) /\ ~(known \/ Admits(o))
  <2> DEFINE fallen == Cascade(o.n)
  <2>1. /\ fallen \in SUBSET Unsent /\ o.n \in fallen
        /\ \A w \in Waiting : w.parent = 0 /\ w.n \in fallen => w.n = o.n
    <3>1. QueueOK(queue) /\ Ticket(o) \in Waiting
        BY <1>1, <1>2
    <3>2. /\ Cascade(Ticket(o).n) \in SUBSET Unsent /\ Ticket(o).n \in Cascade(Ticket(o).n)
          /\ \A w \in Waiting : w.parent = 0 /\ w.n \in Cascade(Ticket(o).n) => w.n = Ticket(o).n
        BY ONLY <3>1, CascadeFacts
    <3> QED BY <1>5, <3>2
  <2>2. Parked(o.n) = [i \in DOMAIN queue |-> IF queue[i].n \in fallen
                          THEN [queue[i] EXCEPT !.state = "failed"] ELSE queue[i]]
      BY DEF Parked
  <2> HIDE DEF fallen
  <2>3. /\ QueueOK(Parked(o.n))
        /\ WaitingIn(Parked(o.n)) = Standing(Waiting, fallen)
        /\ RefusedIn(Parked(o.n)) = Refused \cup Falling(Waiting, fallen)
    <3>1. QueueOK(queue)
        BY <1>1
    <3> QED BY ONLY <2>1, <2>2, <3>1, SubtreeParks DEF Standing, Falling
  <2>4. o.op = "retire" => At(server, o.unit) = "none"
      BY <1>8 DEF Admits, Gated, At
  <2>5. HouseInv(Standing(Waiting, fallen), Refused \cup Falling(Waiting, fallen),
                 Done', phone, server', news'.units, page)
    <3>1. /\ HouseInv(Waiting, Refused, Done', phone, server', news'.units, page)
          /\ page.units = {} /\ Ticket(o) \in Waiting
          /\ \A t \in Waiting : Ticket(o).n <= t.n
          /\ Ticket(o).op = "retire" => At(server', Ticket(o).unit) = "none"
          /\ Ticket(o).n \in fallen
          /\ \A t \in Waiting : t.parent = 0 /\ t.n \in fallen => t.n = Ticket(o).n
        BY <1>1, <1>2, <1>4, <1>5, <1>8, <2>1, <2>4
    <3> QED BY ONLY <3>1, TicketRefused
  <2>6. /\ QueueOK(queue') /\ Waiting' = Standing(Waiting, fallen)
        /\ Refused' = Refused \cup Falling(Waiting, fallen)
      BY <1>8, <2>3 DEF Waiting, Refused
  <2> QED BY <1>1, <1>3, <1>4, <2>5, <2>6 DEF NetInv
<1> QED BY <1>3, <1>6, <1>7, <1>8

LEMMA RivalStep ==
    ASSUME NetInv, RivalActs
    PROVE  NetInv'
<1>1. PICK o \in RivalOps :
         /\ server' = Taken(o) /\ news' = Both(news, Touched(o))
         /\ UNCHANGED <<phone, queue, receipts, page, phase>>
    BY DEF RivalActs
<1>2. /\ RowsOK(Taken(o))
      /\ ServerStep(Waiting, Done, phone, server, Done, Taken(o), {o.unit} \cap Units)
    BY RivalMoves
<1>3. HouseInv(Waiting, Refused, Done, phone, Taken(o), news.units \cup ({o.unit} \cap Units), page)
  <2>1. HouseInv(Waiting, Refused, Done, phone, server, news.units, page) /\ Done \subseteq Done
      BY DEF NetInv
  <2> QED BY ONLY <1>2, <2>1, ServerMoved
<1>4. news'.units = news.units \cup ({o.unit} \cap Units)
    BY <1>1, NewsTold
<1>5. Waiting' = Waiting /\ Refused' = Refused /\ Done' = Done
    BY <1>1 DEF Waiting, Refused, Done
<1> QED BY <1>1, <1>2, <1>3, <1>4, <1>5 DEF NetInv

LEMMA PageActs ==
    ASSUME NetInv, AskPage \/ PageLost
    PROVE  NetInv'
<1>1. HouseInv(Waiting, Refused, Done, phone, server, news.units, page)
    BY DEF NetInv
<1>2. CASE AskPage
  <2>1. /\ page'.units = news.units /\ page'.rows = server /\ phase' = "asked"
        /\ news'.units = {} /\ UNCHANGED <<phone, server, queue, receipts>>
      BY <1>2 DEF AskPage, Nothing
  <2>2. HouseInv(Waiting, Refused, Done, phone, server, {}, page')
      BY ONLY <1>1, <2>1, PageAsked
  <2>3. Waiting' = Waiting /\ Refused' = Refused /\ Done' = Done
      BY <2>1 DEF Waiting, Refused, Done
  <2> QED BY <2>1, <2>2, <2>3 DEF NetInv
<1>3. CASE PageLost
  <2>1. /\ page'.units = {} /\ page'.rows = EmptyRows
        /\ news'.units = news.units \cup page.units
        /\ UNCHANGED <<phone, server, queue, receipts>>
      BY <1>3 DEF PageLost, NoPage, Both
  <2>2. HouseInv(Waiting, Refused, Done, phone, server, news.units \cup page.units, page')
    <3>1. news.units \cup page.units \in SUBSET (news.units \cup page.units)
        OBVIOUS
    <3> QED BY ONLY <1>1, <2>1, <3>1, PageDropped
  <2>3. Waiting' = Waiting /\ Refused' = Refused /\ Done' = Done
      BY <2>1 DEF Waiting, Refused, Done
  <2> QED BY <2>1, <2>2, <2>3, EmptyRowsOK DEF NetInv
<1> QED BY <1>2, <1>3

LEMMA ApplyActs ==
    ASSUME NetInv, ApplyPage
    PROVE  NetInv'
<1> DEFINE base == [phone EXCEPT
             !.units = [u \in Units |-> IF u \in page.units THEN page.rows.units[u] ELSE @[u]],
             !.jobs = [j \in Jobs |-> IF j \in page.jobs THEN page.rows.jobs[j] ELSE @[j]]]
           new == Replayed(base)
<1>1. /\ HouseInv(Waiting, Refused, Done, phone, server, news.units, page)
      /\ RowsOK(phone) /\ RowsOK(server) /\ RowsOK(page.rows) /\ QueueOK(queue)
    BY DEF NetInv
<1>2. phone' = new
    BY Zenon DEF ApplyPage
<1>3. page'.units = {} /\ page'.rows = EmptyRows /\ UNCHANGED <<server, queue, receipts, news>>
    BY DEF ApplyPage, NoPage
<1>4. /\ DOMAIN base = DOMAIN phone /\ base.loans = phone.loans
      /\ base.units = [u \in Units |-> IF u \in page.units THEN page.rows.units[u] ELSE phone.units[u]]
      /\ base.jobs = [j \in Jobs |-> IF j \in page.jobs THEN page.rows.jobs[j] ELSE phone.jobs[j]]
    BY <1>1 DEF RowsOK
<1> HIDE DEF base
<1>5. RowsOK(base)
    BY <1>1, <1>4 DEF RowsOK
<1>6. \A u \in Units : At(base, u) = IF u \in page.units THEN At(page.rows, u) ELSE At(phone, u)
    BY <1>4 DEF At
<1>7. \A t \in Waiting : t.op \in Scans => t.unit \in Units
    BY <1>1 DEF HouseInv, TicketOK
<1>8. /\ RowsOK(new) /\ new.loans = base.loans
      /\ \A u \in Units : (\A t \in Waiting : t.op \in Scans => t.unit # u) => At(new, u) = At(base, u)
      /\ \A r \in Waiting :
            /\ r.op = "retire"
            /\ \A t \in Waiting : t.op \in Scans /\ t.unit = r.unit => t.n <= r.n
            => At(new, r.unit) = "gone"
      /\ \A u \in Units : At(new, u) = "gone" =>
            At(base, u) = "gone" \/ \E t \in Waiting : t.op = "retire" /\ t.unit = u
    BY <1>1, <1>5, <1>7, ReplayFacts
<1> HIDE DEF new
<1>9. HouseInv(Waiting, Refused, Done, new, server, news.units, page)
  <2>1. new.loans = phone.loans
      BY <1>4, <1>8
  <2> QED BY ONLY <1>1, <1>6, <1>8, <2>1, PageApplied
<1>10. HouseInv(Waiting, Refused, Done, new, server, news.units, page')
  <2>1. news.units \in SUBSET (news.units \cup page.units)
      OBVIOUS
  <2> QED BY ONLY <1>3, <1>9, <2>1, PageDropped
<1>11. Waiting' = Waiting /\ Refused' = Refused /\ Done' = Done
    BY <1>3 DEF Waiting, Refused, Done
<1> QED BY <1>1, <1>2, <1>3, <1>8, <1>10, <1>11, EmptyRowsOK DEF NetInv

-----------------------------------------------------------------------------
LEMMA NetInit ==
    ASSUME Init
    PROVE  NetInv
<1>1. /\ phone = EmptyRows /\ server = EmptyRows /\ queue = <<>> /\ receipts = {}
      /\ news.units = {} /\ page.units = {} /\ page.rows = EmptyRows
    BY DEF Init, Nothing, NoPage
<1>2. QueueOK(queue) /\ Waiting = {} /\ Refused = {} /\ Done = {}
  <2>1. queue \in Seq({}) /\ DOMAIN queue = {}
      BY <1>1
  <2> QED BY <1>1, <2>1 DEF QueueOK, Waiting, Refused, Done, WaitingIn, RefusedIn
<1>3. /\ RowsOK(EmptyRows) /\ \A l \in Loans : EmptyRows.loans[l] = NoLoan
      /\ \A u \in Units : At(EmptyRows, u) = IF u \in Fleet THEN "here" ELSE "none"
    BY EmptyRowsOK
<1>4. \A l \in Loans : /\ EmptyRows.loans[l].way = "none" /\ ~EmptyRows.loans[l].open
                       /\ ~Ended(EmptyRows, l) /\ ~Serial(EmptyRows, l)
    BY <1>3 DEF NoLoan, Ended, Serial
<1>5. TicketsOK(Waiting \cup Refused \cup Done)
  <2>1. Bounded({}) /\ {} \in SUBSET TicketSet
      BY DEF Bounded
  <2> QED BY <1>2, <2>1 DEF TicketsOK
<1>6. \A l \in Loans : LoanOK(phone, server, l)
    BY <1>1, <1>3, <1>4 DEF LoanOK
<1>7. GoneOK(phone, server, page)
    BY <1>1, <1>3 DEF GoneOK
<1>8. ServedOK(Waiting, Done, phone, server, news.units, page)
    BY <1>1, <1>2, <1>3, <1>4, UnitsApart DEF ServedOK, Units
<1>9. HomeOK(Waiting, phone, server, page)
    BY <1>1, <1>4 DEF HomeOK
<1>10. HouseInv(Waiting, Refused, Done, phone, server, news.units, page)
    BY <1>2, <1>5, <1>6, <1>7, <1>8, <1>9 DEF HouseInv
<1> QED BY <1>1, <1>2, <1>3, <1>10 DEF NetInv

LEMMA NetNext ==
    ASSUME NetInv, [Next]_vars
    PROVE  NetInv'
<1>1. CASE \E h \in Houses : UpsertPartner(h) \/ RemovePartner(h)
    BY <1>1, HouseActs
<1>2. CASE \E l \in Loans :
              \/ \E h \in Houses, serial \in BOOLEAN : RecordSubHireIn(l, h, serial)
              \/ \E h \in Houses, unit \in Fleet \cup {NoUnit} : RecordSubHireOut(l, h, unit)
    BY <1>2, RecordActs
<1>3. CASE \E l \in Loans : CloseSubHire(l)
    BY <1>3, CloseActs
<1>4. CASE \E j \in Jobs :
              \/ j \in Walkins /\ CreateJob(j)
              \/ \E date \in Dates : SetExpectedBack(j, date)
              \/ CloseJob(j) \/ ReopenJob(j)
              \/ \E who \in Crew : AssignAttendant(j, who) \/ UnassignAttendant(j, who)
    BY <1>4, JobActs
<1>5. CASE \E u \in Units : ScanIn(u) \/ \E j \in Jobs : ScanOut(u, j)
    BY <1>5, ScanActs
<1>6. CASE RivalActs
    BY <1>6, RivalStep
<1>7. CASE Send
    BY <1>7, SendActs
<1>8. CASE AskPage \/ PageLost
    BY <1>8, PageActs
<1>9. CASE ApplyPage
    BY <1>9, ApplyActs
<1>10. CASE CycleEnds \/ UNCHANGED vars
  <2>1. UNCHANGED <<phone, server, queue, receipts, news, page>>
      BY <1>10 DEF CycleEnds, vars
  <2>2. Waiting' = Waiting /\ Refused' = Refused /\ Done' = Done
      BY <2>1 DEF Waiting, Refused, Done
  <2>3. HouseInv(Waiting', Refused', Done', phone', server', news'.units, page')
      BY <2>1, <2>2 DEF NetInv
  <2>4. /\ QueueOK(queue') /\ (\A r \in receipts' : IsOp(r))
        /\ RowsOK(phone') /\ RowsOK(server') /\ RowsOK(page'.rows)
        /\ phase' # "asked" => page'.units = {}
    <3>1. phase' = phase \/ page.units = {}
        BY <1>10 DEF CycleEnds, vars, NetInv
    <3> QED BY <2>1, <3>1 DEF NetInv
  <2> QED BY <2>3, <2>4 DEF NetInv
<1>11. \A j \in Walkins : j \in Jobs
    BY DEF Jobs
<1>12. CASE PhoneActs
    BY <1>1, <1>2, <1>3, <1>4, <1>5, <1>11, <1>12, Zenon DEF PhoneActs
<1> QED BY <1>6, <1>7, <1>8, <1>9, <1>10, <1>12 DEF Next

(* Whatever the desk records, sends, has refused or pulls, and whatever    *)
(* the other desks do meanwhile, the waiting queue, the page on its way,   *)
(* the server's rows and the phone's tell one story of every sub-hire      *)
(* (Outbox, the network doors, applySyncPage with its replay).             *)
THEOREM NetInvariant == Spec => []NetInv
<1>1. Init => NetInv
    BY NetInit
<1>2. NetInv /\ [Next]_vars => NetInv'
    BY NetNext
<1> QED BY <1>1, <1>2, PTL DEF Spec

LEMMA NetShows ==
    ASSUME NetInv
    PROVE  SentHomeIsGone
<1>1. HouseInv(Waiting, Refused, Done, phone, server, news.units, page)
    BY DEF NetInv
<1>2. ASSUME NEW l \in Loans, Ended(phone, l) PROVE phone.units[phone.loans[l].unit].at = "gone"
  <2>1. LoanOK(phone, server, l) /\ At(phone, Borrowed(l)) = "gone"
      BY <1>1, <1>2 DEF HouseInv, HomeOK
  <2>2. phone.loans[l].unit = Borrowed(l)
      BY <1>2, <2>1 DEF LoanOK, Ended, Serial
  <2> QED BY <2>1, <2>2 DEF At
<1>3. ASSUME NEW l \in Loans, Ended(server, l) PROVE server.units[server.loans[l].unit].at = "gone"
  <2>1. LoanOK(phone, server, l) /\ At(server, Borrowed(l)) = "gone"
      BY <1>1, <1>3 DEF HouseInv, ServedOK
  <2>2. server.loans[l].unit = Borrowed(l)
      BY <1>3, <2>1 DEF LoanOK, Ended, Serial
  <2> QED BY <2>1, <2>2 DEF At
<1> QED BY <1>2, <1>3 DEF SentHomeIsGone, Ended, Serial

(* Borrowed gear whose sub-hire is closed has left the fleet, on the       *)
(* phone and on the server, in every state of every house: the scan that   *)
(* sends it home stays the last word on it, waiting over every page until  *)
(* the server has taken it (closeSubHire, replayPendingWrites).            *)
THEOREM SentHome == Spec => []SentHomeIsGone
<1>1. NetInv => SentHomeIsGone
    BY NetShows
<1> QED BY <1>1, NetInvariant, PTL
=============================================================================
