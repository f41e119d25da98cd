------------------------- MODULE DeskCalendarProofs -------------------------
(***************************************************************************)
(* What a refusal ends on a desk's phone, for every number of bookings,    *)
(* units, windows, writes and rivals.                                      *)
(*                                                                         *)
(* The queue is seen as three sets of tickets - an op without its          *)
(* arguments and its state: those that wait, those refused, those done.    *)
(* Every step of the calendar is one of a few moves of tickets (the first  *)
(* part), and each move keeps what ties a booking's ops to one another     *)
(* (the second part).                                                      *)
(***************************************************************************)
EXTENDS DeskCalendar, DataInduction

USE RulesAssumption, DeskAssumption

States == {"pending", "inflight", "failed"}
Verbs == {"create", "confirm", "cancel", "extend", "note", "reallocate", "convert"}
IsOp(o) ==
    /\ o = [n |-> o.n, op |-> o.op, b |-> o.b, serves |-> o.serves, args |-> o.args,
            parent |-> o.parent, state |-> o.state, knew |-> o.knew]
    /\ o.n \in Nat \ {0} /\ o.op \in Verbs /\ o.b \in Names /\ o.serves \in SUBSET Names
    /\ o.parent \in Nat /\ o.state \in States /\ o.knew \in SUBSET Nat
    /\ o.op = "create" => o.args.status # "none"

QueueOK ==
    /\ \E Z : queue \in Seq(Z)
    /\ \A i \in DOMAIN queue : IsOp(queue[i])
    /\ \A i, j \in DOMAIN queue : i < j => queue[i].n < queue[j].n

Ticket(o) == [n |-> o.n, op |-> o.op, b |-> o.b, serves |-> o.serves,
              parent |-> o.parent, knew |-> o.knew]
TicketSet == [n : Nat \ {0}, op : Verbs, b : Names, serves : SUBSET Names,
              parent : Nat, knew : SUBSET Nat]
Waiting == {Ticket(o) : o \in LiveOps}
Refused == {Ticket(o) : o \in FailedOps}
Done == {Ticket(o) : o \in landed}
Tickets == Waiting \cup Refused \cup Done

-----------------------------------------------------------------------------
(* The queue's moves.                                                      *)
LEMMA QueueFacts ==
    ASSUME QueueOK
    PROVE  /\ Len(queue) \in Nat /\ DOMAIN queue = 1..Len(queue)
           /\ \A i \in DOMAIN queue : Ticket(queue[i]) \in TicketSet
           /\ Waiting = {Ticket(queue[i]) : i \in {k \in DOMAIN queue : queue[k].state # "failed"}}
           /\ Refused = {Ticket(queue[i]) : i \in {k \in DOMAIN queue : queue[k].state = "failed"}}
           /\ Waiting \in SUBSET TicketSet /\ Refused \in SUBSET TicketSet
           /\ Unsent = {t.n : t \in Waiting}
           /\ \A i \in DOMAIN queue : \A t \in Waiting :
                 t.n = queue[i].n => t = Ticket(queue[i]) /\ i \in Live
           /\ Waiting \cap Refused = {}
<1>1. Len(queue) \in Nat /\ DOMAIN queue = 1..Len(queue)
    BY DEF QueueOK
<1>2. \A i \in DOMAIN queue : IsOp(queue[i])
    BY DEF QueueOK
<1>3. \A i \in DOMAIN queue : Ticket(queue[i]) \in TicketSet
    BY <1>2 DEF IsOp, Ticket, TicketSet
<1>4. Waiting = {Ticket(queue[i]) : i \in {k \in DOMAIN queue : queue[k].state # "failed"}}
    BY DEF Waiting, LiveOps, Live
<1>5. Refused = {Ticket(queue[i]) : i \in {k \in DOMAIN queue : queue[k].state = "failed"}}
    BY DEF Refused, FailedOps, Live
<1>6. Unsent = {t.n : t \in Waiting}
  <2>1. \A o : Ticket(o).n = o.n
      BY DEF Ticket
  <2>2. \A m : m \in Unsent => m \in {t.n : t \in Waiting}
    <3> SUFFICES ASSUME NEW o \in LiveOps PROVE o.n \in {t.n : t \in Waiting}
        BY DEF Unsent
    <3> QED BY <2>1 DEF Waiting
  <2>3. \A t \in Waiting : t.n \in Unsent
      BY <2>1 DEF Waiting, Unsent
  <2> QED BY <2>2, <2>3
<1>7. \A i, j \in DOMAIN queue : queue[i].n = queue[j].n => i = j
  <2> SUFFICES ASSUME NEW i \in DOMAIN queue, NEW j \in DOMAIN queue,
                      queue[i].n = queue[j].n, i # j
               PROVE  FALSE
      OBVIOUS
  <2>1. queue[i].n \in Nat /\ queue[j].n \in Nat
      BY <1>2 DEF IsOp
  <2>2. i < j \/ j < i
      BY <1>1
  <2> QED BY <2>1, <2>2 DEF QueueOK
<1>8. \A i \in DOMAIN queue : \A t \in Waiting :
         t.n = queue[i].n => t = Ticket(queue[i]) /\ i \in Live
    BY <1>4, <1>7 DEF Ticket, Live
<1>9. Waiting \cap Refused = {}
  <2> SUFFICES ASSUME NEW t \in Waiting, t \in Refused PROVE FALSE
      OBVIOUS
  <2>1. PICK i \in DOMAIN queue : queue[i].state # "failed" /\ t = Ticket(queue[i])
      BY <1>4
  <2>2. PICK j \in DOMAIN queue : queue[j].state = "failed" /\ t = Ticket(queue[j])
      BY <1>5
  <2>3. queue[i].n = queue[j].n
      BY <2>1, <2>2 DEF Ticket
  <2> QED BY <1>7, <2>1, <2>2, <2>3
<1> QED BY <1>1, <1>2, <1>3, <1>4, <1>5, <1>6, <1>8, <1>9

(* The first of the line is the oldest that waits.                         *)
LEMMA FirstIsOldest ==
    ASSUME QueueOK, Live # {}
    PROVE  /\ Min(Live) \in Live /\ First \in LiveOps /\ IsOp(First)
           /\ Ticket(First) \in Waiting
           /\ \A t \in Waiting : First.n <= t.n
           /\ \A i \in Live : Min(Live) <= i
<1>0. Live \in SUBSET Nat /\ Live \subseteq DOMAIN queue
    BY QueueFacts DEF Live
<1>1. \E m \in Live : \A k \in Live : m <= k
    BY <1>0, LeastNat
<1>2. Min(Live) \in Live /\ \A k \in Live : Min(Live) <= k
    BY <1>1 DEF Min
<1>3. First \in LiveOps /\ IsOp(First)
    BY <1>0, <1>2 DEF First, LiveOps, QueueOK
<1>4. \A i \in Live : First.n <= queue[i].n
  <2> SUFFICES ASSUME NEW i \in Live PROVE First.n <= queue[i].n
      OBVIOUS
  <2>0. IsOp(queue[i])
      BY <1>0 DEF QueueOK
  <2>1. CASE i = Min(Live)
      BY <2>0, <2>1 DEF First, IsOp
  <2>2. CASE i # Min(Live)
    <3>0. Min(Live) \in Nat /\ i \in Nat /\ Min(Live) <= i
        BY <1>0, <1>2
    <3> DEFINE m == Min(Live)
    <3> HIDE DEF m
    <3>1. Min(Live) < i
      <4>1. m \in Nat /\ m <= i /\ i # m
          BY <3>0, <2>2 DEF m
      <4>2. m < i
          BY <3>0, <4>1
      <4> QED BY <4>2 DEF m
    <3>2. queue[Min(Live)].n < queue[i].n
        BY <1>0, <1>2, <3>1 DEF QueueOK
    <3> QED BY <1>3, <2>0, <3>2 DEF First, IsOp
  <2> QED BY <2>1, <2>2
<1> QED BY <1>2, <1>3, <1>4 DEF Waiting, Ticket, LiveOps

LEMMA TicketsNext ==
    /\ Waiting' = {Ticket(queue'[i]) : i \in {k \in DOMAIN queue' : queue'[k].state # "failed"}}
    /\ Refused' = {Ticket(queue'[i]) : i \in {k \in DOMAIN queue' : queue'[k].state = "failed"}}
<1>1. Waiting' = {Ticket(queue'[i]) : i \in {k \in DOMAIN queue' : queue'[k].state # "failed"}}
    BY DEF Waiting, LiveOps, Live
<1>2. Refused' = {Ticket(queue'[i]) : i \in {k \in DOMAIN queue' : queue'[k].state = "failed"}}
    BY DEF Refused, FailedOps, Live
<1> QED BY <1>1, <1>2

LEMMA Appended ==
    ASSUME QueueOK, acts \in Nat, \A t \in Waiting \cup Refused : t.n <= acts,
           NEW o, IsOp(o), o.state = "pending", o.n = acts + 1,
           queue' = Append(queue, o)
    PROVE  QueueOK' /\ Waiting' = Waiting \cup {Ticket(o)} /\ Refused' = Refused
<1>0. PICK Z : queue \in Seq(Z)
    BY DEF QueueOK
<1>1. queue \in Seq(Z \cup {o}) /\ queue' \in Seq(Z \cup {o})
    BY <1>0
<1>2. /\ DOMAIN queue = 1..Len(queue) /\ Len(queue) \in Nat
      /\ DOMAIN queue' = 1..(Len(queue) + 1)
      /\ \A i \in DOMAIN queue : queue'[i] = queue[i]
      /\ queue'[Len(queue) + 1] = o
    BY <1>1
<1>3. \A i \in DOMAIN queue : queue[i].n < o.n
  <2> SUFFICES ASSUME NEW i \in DOMAIN queue PROVE queue[i].n <= acts /\ queue[i].n \in Nat
      OBVIOUS
  <2>1. Ticket(queue[i]) \in Waiting \cup Refused /\ Ticket(queue[i]) \in TicketSet
      BY QueueFacts
  <2>2. Ticket(queue[i]).n = queue[i].n
      BY DEF Ticket
  <2> QED BY <2>1, <2>2 DEF TicketSet
<1>4. \A i \in DOMAIN queue' : IsOp(queue'[i])
    BY <1>2 DEF QueueOK
<1>5. \A i, j \in DOMAIN queue' : i < j => queue'[i].n < queue'[j].n
    BY <1>2, <1>3 DEF QueueOK
<1>6. QueueOK'
    BY <1>1, <1>4, <1>5 DEF QueueOK
<1>7. Waiting' = {Ticket(queue'[i]) : i \in {k \in DOMAIN queue' : queue'[k].state # "failed"}}
    BY TicketsNext
<1>8. Refused' = {Ticket(queue'[i]) : i \in {k \in DOMAIN queue' : queue'[k].state = "failed"}}
    BY TicketsNext
<1>9. Waiting' = Waiting \cup {Ticket(o)}
    BY <1>2, <1>7, QueueFacts
<1>10. Refused' = Refused
    BY <1>2, <1>8, QueueFacts
<1> QED BY <1>6, <1>9, <1>10

(* An op that waits waits on, sent or not.                                 *)
LEMMA Restated ==
    ASSUME QueueOK, NEW n, \E t \in Waiting : t.n = n, NEW s \in {"pending", "inflight"},
           queue' = WithState(n, s)
    PROVE  QueueOK' /\ Waiting' = Waiting /\ Refused' = Refused
<1>0. PICK Z : queue \in Seq(Z)
    BY DEF QueueOK
<1>1. DOMAIN queue = 1..Len(queue) /\ Len(queue) \in Nat
    BY <1>0
<1>2. DOMAIN queue' = DOMAIN queue
    BY DEF WithState
<1>3. \A i \in DOMAIN queue :
         queue'[i] = IF queue[i].n = n THEN [queue[i] EXCEPT !.state = s] ELSE queue[i]
    BY DEF WithState
<1>4. \A i \in DOMAIN queue :
         /\ IsOp(queue'[i]) /\ Ticket(queue'[i]) = Ticket(queue[i])
         /\ queue'[i].n = queue[i].n
         /\ queue'[i].state = "failed" <=> queue[i].state = "failed"
  <2> SUFFICES ASSUME NEW i \in DOMAIN queue
               PROVE  /\ IsOp(queue'[i]) /\ Ticket(queue'[i]) = Ticket(queue[i])
                      /\ queue'[i].n = queue[i].n
                      /\ queue'[i].state = "failed" <=> queue[i].state = "failed"
      OBVIOUS
  <2>1. IsOp(queue[i])
      BY DEF QueueOK
  <2>2. CASE queue[i].n # n
      BY <1>3, <2>1, <2>2
  <2>3. CASE queue[i].n = n
    <3>1. queue[i].state # "failed"
        BY <2>3, QueueFacts DEF Live
    <3>2. queue'[i] = [n |-> queue[i].n, op |-> queue[i].op, b |-> queue[i].b,
                       serves |-> queue[i].serves, args |-> queue[i].args,
                       parent |-> queue[i].parent, state |-> s, knew |-> queue[i].knew]
        BY <1>3, <2>1, <2>3 DEF IsOp
    <3>3. s \in States
        BY DEF States
    <3> QED BY <2>1, <3>1, <3>2, <3>3 DEF IsOp, Ticket
  <2> QED BY <2>2, <2>3
<1>5. queue' \in Seq({queue'[i] : i \in DOMAIN queue'})
    BY <1>1, <1>2, <1>3 DEF WithState
<1>6. QueueOK'
    BY <1>2, <1>4, <1>5 DEF QueueOK
<1>7. Waiting' = {Ticket(queue'[i]) : i \in {k \in DOMAIN queue' : queue'[k].state # "failed"}}
    BY TicketsNext
<1>8. Refused' = {Ticket(queue'[i]) : i \in {k \in DOMAIN queue' : queue'[k].state = "failed"}}
    BY TicketsNext
<1>9. Waiting' = Waiting
    BY <1>2, <1>4, <1>7, QueueFacts
<1>10. Refused' = Refused
    BY <1>2, <1>4, <1>8, QueueFacts
<1> QED BY <1>6, <1>9, <1>10

(* The head leaves.                                                        *)
LEMMA HeadLeft ==
    ASSUME QueueOK, Live # {}, queue' = RemoveAt(queue, Min(Live))
    PROVE  QueueOK' /\ Waiting' = Waiting \ {Ticket(First)} /\ Refused' = Refused
<1> DEFINE m == Min(Live)
           L == Len(queue)
           Old(i) == IF i < m THEN i ELSE i + 1
<1>0. PICK Z : queue \in Seq(Z)
    BY DEF QueueOK
<1>1. L \in Nat /\ DOMAIN queue = 1..L /\ m \in 1..L /\ m \in Live
    BY <1>0, FirstIsOldest DEF Live
<1> HIDE DEF m
<1>5. /\ queue' \in Seq(Z) /\ DOMAIN queue' = 1..(L - 1)
      /\ \A i \in 1..(L - 1) : queue'[i] = queue[Old(i)] /\ Old(i) \in DOMAIN queue \ {m}
  <2>1. queue' = RemoveAt(queue, m)
      BY DEF m
  <2>2. m \in 1..Len(queue)
      BY <1>1
  <2> HIDE DEF Old, L
  <2>3. /\ queue' \in Seq(Z) /\ DOMAIN queue' = 1..(Len(queue) - 1)
        /\ \A i \in 1..(Len(queue) - 1) :
              queue'[i] = queue[IF i < m THEN i ELSE i + 1]
              /\ (IF i < m THEN i ELSE i + 1) \in (1..Len(queue)) \ {m}
      BY ONLY <1>0, <2>1, <2>2, RemovedAt
  <2> QED BY <1>1, <2>3 DEF Old, L
<1>6. QueueOK'
  <2>1. \A i \in DOMAIN queue' : IsOp(queue'[i])
      BY <1>5 DEF QueueOK
  <2>2. \A i, j \in DOMAIN queue' : i < j => Old(i) < Old(j)
      BY <1>1, <1>5
  <2>3. \A i, j \in DOMAIN queue' : i < j => queue'[i].n < queue'[j].n
      BY <1>5, <2>2 DEF QueueOK
  <2> QED BY <1>5, <2>1, <2>3 DEF QueueOK
<1>7. \A k \in DOMAIN queue \ {m} : \E i \in DOMAIN queue' : Old(i) = k
  <2> SUFFICES ASSUME NEW k \in DOMAIN queue \ {m}
               PROVE  \E i \in DOMAIN queue' : Old(i) = k
      OBVIOUS
  <2>1. CASE k < m
      BY <1>1, <1>5, <2>1
  <2>2. CASE m < k
    <3>1. k - 1 \in DOMAIN queue' /\ Old(k - 1) = k
        BY <1>1, <1>5, <2>2
    <3> QED BY <3>1
  <2> QED BY <1>1, <2>1, <2>2
<1> HIDE DEF Old
<1>8. Waiting' = {Ticket(queue'[i]) : i \in {k \in DOMAIN queue' : queue'[k].state # "failed"}}
    BY TicketsNext
<1>9. Refused' = {Ticket(queue'[i]) : i \in {k \in DOMAIN queue' : queue'[k].state = "failed"}}
    BY TicketsNext
<1>10. Refused' = Refused
  <2>1. queue[m].state # "failed"
      BY <1>1 DEF Live
  <2>2. \A x \in Refused' : x \in Refused
      BY <1>5, <1>9, QueueFacts
  <2>3. \A x \in Refused : x \in Refused'
    <3> SUFFICES ASSUME NEW k \in DOMAIN queue, queue[k].state = "failed"
                 PROVE  Ticket(queue[k]) \in Refused'
        BY QueueFacts
    <3>1. PICK i \in DOMAIN queue' : Old(i) = k
        BY <1>7, <2>1
    <3> QED BY <1>5, <1>9, <3>1
  <2> QED BY <2>2, <2>3
<1>11. Waiting' = {Ticket(queue[i]) : i \in {k \in DOMAIN queue \ {m} : queue[k].state # "failed"}}
  <2> DEFINE Rest == {Ticket(queue[i]) : i \in {k \in DOMAIN queue \ {m} : queue[k].state # "failed"}}
  <2>1. \A x \in Waiting' : x \in Rest
    <3> SUFFICES ASSUME NEW i \in DOMAIN queue', queue'[i].state # "failed"
                 PROVE  Ticket(queue'[i]) \in Rest
        BY <1>8
    <3>1. queue'[i] = queue[Old(i)] /\ Old(i) \in DOMAIN queue \ {m}
        BY <1>5
    <3> QED BY <3>1
  <2>2. \A x \in Rest : x \in Waiting'
    <3> SUFFICES ASSUME NEW k \in DOMAIN queue \ {m}, queue[k].state # "failed"
                 PROVE  Ticket(queue[k]) \in Waiting'
        OBVIOUS
    <3>1. PICK i \in DOMAIN queue' : Old(i) = k
        BY <1>7
    <3>2. queue'[i] = queue[k]
        BY <1>5, <3>1
    <3> QED BY <1>8, <3>2
  <2> HIDE DEF Rest
  <2>3. Waiting' = Rest
      BY <2>1, <2>2
  <2> QED BY <2>3 DEF Rest
<1>12. \A i \in DOMAIN queue \ {m} : Ticket(queue[i]) # Ticket(First)
  <2> SUFFICES ASSUME NEW i \in DOMAIN queue \ {m}, Ticket(queue[i]) = Ticket(First)
               PROVE  FALSE
      OBVIOUS
  <2>1. queue[i].n = queue[m].n
      BY DEF Ticket, First, m
  <2>2. IsOp(queue[i]) /\ (i < m \/ m < i)
      BY <1>1 DEF QueueOK
  <2> QED BY <1>1, <2>1, <2>2 DEF QueueOK, IsOp
<1>13. Ticket(First) = Ticket(queue[m])
    BY DEF First, m
<1>14. Waiting' = Waiting \ {Ticket(First)}
    BY <1>1, <1>11, <1>12, <1>13, QueueFacts
<1> QED BY <1>6, <1>10, <1>14

(* The head parks, and what hangs on it.                                   *)
LEMMA SubtreeParks ==
    ASSUME QueueOK, NEW fallen \in SUBSET Unsent,
           queue' = [i \in DOMAIN queue |-> IF queue[i].n \in fallen
                        THEN [queue[i] EXCEPT !.state = "failed"] ELSE queue[i]]
    PROVE  /\ QueueOK'
           /\ Waiting' = {t \in Waiting : t.n \notin fallen}
           /\ Refused' = Refused \cup {t \in Waiting : t.n \in fallen}
<1>0. PICK Z : queue \in Seq(Z)
    BY DEF QueueOK
<1>1. DOMAIN queue = 1..Len(queue) /\ Len(queue) \in Nat
    BY <1>0
<1>2. DOMAIN queue' = DOMAIN queue
    OBVIOUS
<1>4. \A i \in DOMAIN queue :
         /\ IsOp(queue'[i]) /\ Ticket(queue'[i]) = Ticket(queue[i])
         /\ queue'[i].n = queue[i].n
         /\ queue'[i].state = "failed" <=> queue[i].state = "failed" \/ queue[i].n \in fallen
  <2> SUFFICES ASSUME NEW i \in DOMAIN queue
               PROVE  /\ IsOp(queue'[i]) /\ Ticket(queue'[i]) = Ticket(queue[i])
                      /\ queue'[i].n = queue[i].n
                      /\ queue'[i].state = "failed" <=> queue[i].state = "failed" \/ queue[i].n \in fallen
      OBVIOUS
  <2>1. IsOp(queue[i])
      BY DEF QueueOK
  <2>2. CASE queue[i].n \notin fallen
      BY <2>1, <2>2
  <2>3. CASE queue[i].n \in fallen
    <3>2. queue'[i] = [n |-> queue[i].n, op |-> queue[i].op, b |-> queue[i].b,
                       serves |-> queue[i].serves, args |-> queue[i].args,
                       parent |-> queue[i].parent, state |-> "failed", knew |-> queue[i].knew]
        BY <2>1, <2>3 DEF IsOp
    <3> QED BY <2>1, <2>3, <3>2 DEF IsOp, Ticket, States
  <2> QED BY <2>2, <2>3
<1>5. queue' \in Seq({queue'[i] : i \in DOMAIN queue'})
    BY <1>1, <1>2
<1>6. QueueOK'
  <2>1. \A i \in DOMAIN queue' : IsOp(queue'[i])
      BY <1>2, <1>4
  <2>2. \A i, j \in DOMAIN queue : i < j => queue[i].n < queue[j].n
      BY DEF QueueOK
  <2>3. \A i, j \in DOMAIN queue' : i < j => queue'[i].n < queue'[j].n
    <3> SUFFICES ASSUME NEW i \in DOMAIN queue, NEW j \in DOMAIN queue, i < j
                 PROVE  queue'[i].n < queue'[j].n
        BY <1>2
    <3>1. queue'[i].n = queue[i].n /\ queue'[j].n = queue[j].n
        BY <1>4
    <3>2. queue[i].n < queue[j].n
        BY <2>2
    <3> QED BY <3>1, <3>2
  <2> QED BY <1>5, <2>1, <2>3 DEF QueueOK
<1>7. Waiting' = {Ticket(queue'[i]) : i \in {k \in DOMAIN queue' : queue'[k].state # "failed"}}
    BY TicketsNext
<1>8. Refused' = {Ticket(queue'[i]) : i \in {k \in DOMAIN queue' : queue'[k].state = "failed"}}
    BY TicketsNext
<1>9. \A i \in DOMAIN queue : Ticket(queue[i]).n = queue[i].n
    BY DEF Ticket
<1>10. Waiting' = {t \in Waiting : t.n \notin fallen}
  <2>1. \A x \in Waiting' : x \in Waiting /\ x.n \notin fallen
    <3> SUFFICES ASSUME NEW i \in DOMAIN queue', queue'[i].state # "failed"
                 PROVE  Ticket(queue'[i]) \in Waiting /\ Ticket(queue'[i]).n \notin fallen
        BY <1>7
    <3> QED BY <1>2, <1>4, <1>9, QueueFacts
  <2>2. \A x \in Waiting : x.n \notin fallen => x \in Waiting'
    <3> SUFFICES ASSUME NEW i \in DOMAIN queue, queue[i].state # "failed", queue[i].n \notin fallen
                 PROVE  Ticket(queue[i]) \in Waiting'
        BY <1>9, QueueFacts
    <3> QED BY <1>2, <1>4, <1>7
  <2> QED BY <2>1, <2>2
<1>11. \A i \in DOMAIN queue : queue[i].n \in fallen => Ticket(queue[i]) \in Waiting
    BY QueueFacts
<1>12. Refused' = Refused \cup {t \in Waiting : t.n \in fallen}
  <2>1. \A x \in Refused' : x \in Refused \/ (x \in Waiting /\ x.n \in fallen)
    <3> SUFFICES ASSUME NEW i \in DOMAIN queue', queue'[i].state = "failed"
                 PROVE  \/ Ticket(queue'[i]) \in Refused
                        \/ Ticket(queue'[i]) \in Waiting /\ Ticket(queue'[i]).n \in fallen
        BY <1>8
    <3> QED BY <1>2, <1>4, <1>9, <1>11, QueueFacts
  <2>2. \A x \in Refused : x \in Refused'
    <3> SUFFICES ASSUME NEW i \in DOMAIN queue, queue[i].state = "failed"
                 PROVE  Ticket(queue[i]) \in Refused'
        BY QueueFacts
    <3> QED BY <1>2, <1>4, <1>8
  <2>3. \A x \in Waiting : x.n \in fallen => x \in Refused'
    <3> SUFFICES ASSUME NEW i \in DOMAIN queue, queue[i].n \in fallen
                 PROVE  Ticket(queue[i]) \in Refused'
        BY <1>9, QueueFacts
    <3> QED BY <1>2, <1>4, <1>8
  <2> QED BY <2>1, <2>2, <2>3
<1> QED BY <1>6, <1>10, <1>12

-----------------------------------------------------------------------------
(* The calendar's moves: which bookings a book names.                      *)
BookParts == {"rows", "claims", "jobs"}
RowParts == {"status", "from", "until", "hfrom", "huntil", "expires", "lines"}
ClaimParts == {"booking", "line", "thing", "qty", "from", "until", "state", "guess"}
IsClaim(c) == DOMAIN c = ClaimParts /\ c.booking \in Names
BookOK(book) ==
    /\ DOMAIN book = BookParts /\ DOMAIN book.rows = Names
    /\ \A b \in Names : /\ DOMAIN book.rows[b] = RowParts
                        /\ book.rows[b].status = "none" => book.rows[b] = NoRow
    /\ \A c \in book.claims : IsClaim(c)
Named(book) == {b \in Names : book.rows[b].status # "none"}

LEMMA EmptyNamed == BookOK(EmptyBook) /\ Named(EmptyBook) = {}
BY DEF BookOK, EmptyBook, Named, NoRow, IsClaim, BookParts, RowParts

LEMMA CreatedBook ==
    ASSUME NEW book, BookOK(book), NEW b \in Names, NEW w, NEW lines, NEW status, NEW t, NEW guess,
           status # "none"
    PROVE  /\ BookOK(Created(book, b, w, lines, status, t, guess))
           /\ Named(Created(book, b, w, lines, status, t, guess)) = Named(book) \cup {b}
<1> DEFINE hold == BlockedPeriod(w)
           row == [status |-> status, from |-> w.from, until |-> w.until,
                   hfrom |-> hold.from, huntil |-> hold.until,
                   expires |-> IF status = "pencil" THEN t + Ttl ELSE 0, lines |-> lines]
           named == {i \in DOMAIN lines : status = "pencil" /\ lines[i].kind # "any"}
           new == {[booking |-> b, line |-> i,
                    thing |-> IF lines[i].kind = "unit" THEN lines[i].unit ELSE Stock,
                    qty |-> lines[i].qty, from |-> hold.from, until |-> hold.until,
                    state |-> "pencil", guess |-> guess] : i \in named}
           after == [book EXCEPT !.rows[b] = row, !.claims = @ \cup new]
<1>1. DOMAIN row = RowParts /\ row.status = status
    BY DEF RowParts
<1>2. \A c \in new : IsClaim(c)
    BY DEF IsClaim, ClaimParts
<1>3. Created(book, b, w, lines, status, t, guess) = after
    BY DEF Created
<1> HIDE DEF row, new
<1>4. /\ DOMAIN after = BookParts /\ DOMAIN after.rows = Names
      /\ \A x \in Names : after.rows[x] = IF x = b THEN row ELSE book.rows[x]
      /\ after.claims = book.claims \cup new
    BY DEF BookOK, BookParts
<1> HIDE DEF after
<1> QED BY <1>1, <1>2, <1>3, <1>4 DEF BookOK, Named

LEMMA CancelledBook ==
    ASSUME NEW book, BookOK(book), NEW bs \in SUBSET Names
    PROVE  BookOK(Cancelled(book, bs)) /\ Named(Cancelled(book, bs)) = Named(book) \cup bs
<1> DEFINE after == Cancelled(book, bs)
<1>0. /\ DOMAIN book = BookParts /\ DOMAIN book.rows = Names
      /\ \A x \in Names : DOMAIN book.rows[x] = RowParts
    BY DEF BookOK
<1>1. /\ DOMAIN after = BookParts
      /\ after.rows = [b \in Names |-> IF b \in bs
                          THEN [book.rows[b] EXCEPT !.status = "cancelled", !.expires = 0]
                          ELSE book.rows[b]]
      /\ after.claims = {c \in book.claims : c.booking \notin bs}
    BY DEF Cancelled, BookOK, BookParts
<1> HIDE DEF after
<1>2. \A b \in Names : /\ DOMAIN after.rows[b] = RowParts
                       /\ after.rows[b].status = IF b \in bs THEN "cancelled" ELSE book.rows[b].status
    BY <1>0, <1>1 DEF RowParts
<1>3. DOMAIN after.rows = Names
    BY <1>1
<1>4. BookOK(after) /\ Named(after) = Named(book) \cup bs
    BY <1>1, <1>2, <1>3, ZenonT(40) DEF BookOK, Named
<1> QED BY <1>4 DEF after

LEMMA PrunedBook ==
    ASSUME NEW book, BookOK(book), NEW t
    PROVE  BookOK(Pruned(book, t)) /\ Named(Pruned(book, t)) = Named(book)
<1> DEFINE bs == {b \in Names : /\ book.rows[b].status = "pencil"
                                /\ ~IsLivePencil(book.rows[b], t)}
<1>1. bs \in SUBSET Names /\ bs \subseteq Named(book)
    BY DEF Named
<1>2. Pruned(book, t) = Cancelled(book, bs)
    BY DEF Pruned
<1> HIDE DEF bs
<1> QED BY <1>1, <1>2, CancelledBook

LEMMA ConfirmedBook ==
    ASSUME NEW book, BookOK(book), NEW b \in Names, NEW hold, NEW plan, NEW guess,
           b \in Named(book)
    PROVE  /\ BookOK(Confirmed(book, b, hold, plan, guess))
           /\ Named(Confirmed(book, b, hold, plan, guess)) = Named(book)
<1> DEFINE lines == book.rows[b].lines
           Upgraded(c) == IF lines[c.line].kind = "any" THEN c
                          ELSE [c EXCEPT !.state = "confirmed", !.from = hold.from, !.until = hold.until]
           own == OfBooking(book, b)
           open == {i \in DOMAIN lines : lines[i].kind = "any" \/ \A c \in own : c.line # i}
           fresh == {[booking |-> b, line |-> i, thing |-> plan[i], qty |-> lines[i].qty,
                      from |-> hold.from, until |-> hold.until,
                      state |-> "confirmed", guess |-> guess] : i \in open}
           claims == (book.claims \ own) \cup {Upgraded(c) : c \in own} \cup fresh
           after == [book EXCEPT
              !.rows[b].status = "confirmed", !.rows[b].expires = 0,
              !.rows[b].hfrom = hold.from, !.rows[b].huntil = hold.until,
              !.claims = claims]
<1>0. /\ DOMAIN book = BookParts /\ DOMAIN book.rows = Names
      /\ \A x \in Names : DOMAIN book.rows[x] = RowParts
    BY DEF BookOK
<1>1. Confirmed(book, b, hold, plan, guess) = after
    BY DEF Confirmed
<1>2. \A c \in own : IsClaim(Upgraded(c))
    BY DEF BookOK, OfBooking, IsClaim, ClaimParts
<1>3. \A c \in fresh : IsClaim(c)
    BY DEF IsClaim, ClaimParts
<1>4. \A c \in claims : IsClaim(c)
    BY <1>2, <1>3 DEF BookOK
<1> HIDE DEF claims
<1>5. /\ DOMAIN after = BookParts /\ after.claims = claims
      /\ DOMAIN after.rows = Names /\ \A x \in Names : x # b => after.rows[x] = book.rows[x]
      /\ DOMAIN after.rows[b] = RowParts /\ after.rows[b].status = "confirmed"
    BY <1>0 DEF BookParts, RowParts
<1> HIDE DEF after
<1> QED BY <1>1, <1>4, <1>5 DEF BookOK, Named

LEMMA ExtendedBook ==
    ASSUME NEW book, BookOK(book), NEW b \in Names, NEW until, b \in Named(book)
    PROVE  BookOK(Extended(book, b, until)) /\ Named(Extended(book, b, until)) = Named(book)
<1> DEFINE hold == ExtendedHold(book.rows[b], until)
           own == OfBooking(book, b)
           claims == (book.claims \ own) \cup {[c EXCEPT !.until = hold.until] : c \in own}
           after == [book EXCEPT !.rows[b].until = until, !.rows[b].huntil = hold.until,
                                 !.claims = claims]
<1>0. /\ DOMAIN book = BookParts /\ DOMAIN book.rows = Names
      /\ \A x \in Names : DOMAIN book.rows[x] = RowParts
    BY DEF BookOK
<1>1. Extended(book, b, until) = after
    BY DEF Extended
<1> HIDE DEF hold
<1>2. \A c \in own : IsClaim([c EXCEPT !.until = hold.until])
    BY DEF BookOK, OfBooking, IsClaim, ClaimParts
<1>3. \A c \in claims : IsClaim(c)
    BY <1>2 DEF BookOK
<1> HIDE DEF claims
<1>4. /\ DOMAIN after = BookParts /\ after.claims = claims
      /\ DOMAIN after.rows = Names /\ \A x \in Names : x # b => after.rows[x] = book.rows[x]
      /\ DOMAIN after.rows[b] = RowParts /\ after.rows[b].status = book.rows[b].status
    BY <1>0 DEF BookParts, RowParts
<1> HIDE DEF after
<1> QED BY <1>1, <1>3, <1>4 DEF BookOK, Named

LEMMA MovedBook ==
    ASSUME NEW book, BookOK(book), NEW c \in book.claims, NEW unit
    PROVE  BookOK(Moved(book, c, unit)) /\ Named(Moved(book, c, unit)) = Named(book)
<1> DEFINE d == [c EXCEPT !.thing = unit]
           after == Moved(book, c, unit)
<1>1. IsClaim(d)
    BY DEF BookOK, IsClaim, ClaimParts
<1> HIDE DEF d
<1>2. /\ DOMAIN after = BookParts /\ after.rows = book.rows
      /\ after.claims = (book.claims \ {c}) \cup {d}
    BY DEF Moved, BookOK, BookParts, d
<1> HIDE DEF after
<1>3. BookOK(after) /\ Named(after) = Named(book)
    BY <1>1, <1>2 DEF BookOK, Named
<1> QED BY <1>3 DEF after

LEMMA JobBook ==
    ASSUME NEW book, BookOK(book), NEW js
    PROVE  /\ BookOK([book EXCEPT !.jobs = @ \cup js])
           /\ Named([book EXCEPT !.jobs = @ \cup js]) = Named(book)
BY DEF BookOK, Named, BookParts

(* A collision is with a booking that is confirmed.                        *)
LEMMA CollisionNamed ==
    ASSUME NEW book, BookOK(book), NEW b, NEW until, NEW c \in ExtensionCollisions(book, b, until)
    PROVE  c \in book.claims /\ c.booking \in Named(book)
<1>1. PICK thing, w : c \in Promises(book, thing, w, b)
    BY DEF ExtensionCollisions
<1> QED BY <1>1 DEF Promises, BookOK, IsClaim, Named

-----------------------------------------------------------------------------
(* What ties a booking's ops to one another.                               *)
Answered == {r.n : r \in receipts}
Oldest(t) == t \in Waiting /\ \A w \in Waiting : t.n <= w.n

(* A booking whose server's row came before the answer to its create: the  *)
(* answer can never be taken in, and nothing behind it is sent.            *)
HeldUp(x) == x \in Mine /\ x \notin renamed /\ <<x, "server">> \in Named(phone)

HelpedBetween(x, lo, hi) ==
    \E s \in Tickets : lo < s.n /\ s.n < hi /\ s.b[1] # x /\ \E y \in s.serves : y[1] = x

BooksOK ==
    /\ BookOK(phone) /\ BookOK(server) /\ BookOK(page.book)
    /\ QueueOK /\ acts \in Nat /\ renamed \in SUBSET Mine
    /\ \A o \in landed : Ticket(o) \in TicketSet

TicketsOK ==
    /\ \A t \in Tickets : t.n <= acts
    /\ \A s, t \in Tickets : s.n = t.n => s = t
    /\ \A d \in Done, w \in Waiting : d.n <= w.n
    /\ \A w \in Waiting : w.parent < w.n /\ \A r \in Refused : r.n # w.parent

AnswersOK ==
    /\ \A r \in receipts : r.says \in {"ok", "declined"}
    /\ Answered = {d.n : d \in Done}
    /\ answer # NoAnswer => \E w : Oldest(w) /\ w.n = answer.n
    /\ answer.says \in {"ok", "declined"} => answer.n \in Answered
    /\ answer.says = "refused" =>
          answer.n \notin Answered /\ \A w \in Waiting : w.n = answer.n => w.op # "create"

NamesOK ==
    /\ \A y \in Named(server) : y[2] = "server"
    /\ Named(page.book) \subseteq Named(server)
    /\ page.rows \subseteq Named(page.book) /\ news.rows \subseteq Named(server)
    /\ \A y \in Named(phone) : y[2] = "server" => y \in Named(server)
    /\ \A x \in renamed : <<x, "server">> \in Named(phone)
    /\ \A t \in Tickets : \A y \in {t.b} \cup t.serves :
          y \in Named(phone) \/ (y[2] = "phone" /\ y[1] \in renamed)
    /\ \A y \in Named(phone) : y[2] = "phone" =>
          /\ y[1] \in Mine /\ y[1] \notin renamed
          /\ \E c \in Waiting : /\ c.op = "create" /\ c.b = y
                                /\ \A t \in Tickets : t.b[1] = y[1] => c.n <= t.n

CreatesOK ==
    /\ \A c \in Waiting : c.op = "create" =>
          c.b[2] = "phone" /\ c.parent = 0 /\ c.b \in Named(phone)
    /\ \A c, d \in Tickets : c.op = "create" /\ d.op = "create" /\ c.b = d.b => c.n = d.n
    /\ \A d \in Done : d.op = "create" => <<d.b[1], "server">> \in Named(server)
    /\ \A x \in Mine : <<x, "server">> \in Named(server) /\ x \notin renamed =>
          \E c \in Waiting : /\ c.op = "create" /\ c.b = <<x, "phone">>
                             /\ c.n \in Answered /\ Oldest(c)

(* An op is chained to the ops of its booking that wait before it.         *)
ChainOK ==
    \A p, q \in Waiting :
        p.b[1] = q.b[1] /\ p.n < q.n =>
            \/ HeldUp(q.b[1])
            \/ HelpedBetween(q.b[1], p.n, q.n)
            \/ \E k \in Waiting : k.n = q.parent /\ k.b[1] = q.b[1] /\ p.n <= k.n

(* What waits behind a refusal was written in its knowledge.               *)
KnewOK ==
    \A f \in Refused, q \in Waiting :
        f.b[1] = q.b[1] /\ f.n < q.n =>
            f.n \in q.knew \/ HelpedBetween(q.b[1], f.n, q.n) \/ HeldUp(q.b[1])

StoryOK ==
    \A f \in Refused, o \in Done :
        f.b[1] = o.b[1] /\ f.n < o.n => f.n \in o.knew \/ HelpedBetween(f.b[1], f.n, o.n)

StoryInv == /\ BooksOK /\ TicketsOK /\ AnswersOK /\ NamesOK /\ CreatesOK
            /\ ChainOK /\ KnewOK /\ StoryOK

-----------------------------------------------------------------------------
LEMMA NameShape ==
    ASSUME NEW y \in Names
    PROVE  y[1] \in Bookings /\ y[2] \in {"phone", "server"} /\ y = <<y[1], y[2]>>
BY DEF Names

LEMMA TicketsTyped ==
    ASSUME BooksOK
    PROVE  /\ Waiting \in SUBSET TicketSet /\ Refused \in SUBSET TicketSet
           /\ Done \in SUBSET TicketSet /\ Tickets \in SUBSET TicketSet
           /\ \A t \in Tickets : /\ t.n \in Nat \ {0} /\ t.b \in Names /\ t.parent \in Nat
                                 /\ t.serves \in SUBSET Names
<1>1. Waiting \in SUBSET TicketSet /\ Refused \in SUBSET TicketSet
    BY QueueFacts DEF BooksOK
<1>2. Done \in SUBSET TicketSet
    BY DEF BooksOK, Done
<1>3. Tickets \in SUBSET TicketSet
    BY <1>1, <1>2 DEF Tickets
<1> QED BY <1>1, <1>2, <1>3 DEF TicketSet

(* lastBookingOp finds the newest that waits and names the booking.        *)
Concerns(t, b) == ({t.b} \cup t.serves) \cap AlsoCalled(b) # {}

LEMMA LastOpIs ==
    ASSUME BooksOK, TicketsOK, NEW b
    PROVE  /\ LastBookingOp(b) \in Nat /\ LastBookingOp(b) <= acts
           /\ \A t \in Waiting : Concerns(t, b) => t.n <= LastBookingOp(b)
           /\ LastBookingOp(b) = 0 \/ \E t \in Waiting : t.n = LastBookingOp(b) /\ Concerns(t, b)
<1> DEFINE S == {o.n : o \in {p \in LiveOps : ({p.b} \cup p.serves) \cap AlsoCalled(b) # {}}}
           W == {t.n : t \in {w \in Waiting : Concerns(w, b)}}
<1>1. \A o \in LiveOps : /\ Ticket(o) \in Waiting /\ Ticket(o).n = o.n
                         /\ Concerns(Ticket(o), b) <=> ({o.b} \cup o.serves) \cap AlsoCalled(b) # {}
    BY DEF Waiting, Ticket, Concerns
<1>2. S = W
  <2>1. \A m \in S : m \in W
      BY <1>1
  <2>2. \A m \in W : m \in S
    <3> SUFFICES ASSUME NEW t \in Waiting, Concerns(t, b) PROVE t.n \in S
        OBVIOUS
    <3>1. PICK o \in LiveOps : t = Ticket(o)
        BY DEF Waiting
    <3> QED BY <1>1, <3>1
  <2> QED BY <2>1, <2>2
<1>3. LastBookingOp(b) = Max({0} \cup W)
    BY <1>2 DEF LastBookingOp
<1>4. {0} \cup W \in SUBSET (0..acts) /\ acts \in Nat
    BY TicketsTyped DEF TicketsOK, Tickets, BooksOK
<1>5. Max({0} \cup W) \in {0} \cup W /\ \A k \in {0} \cup W : k <= Max({0} \cup W)
    BY <1>4, GreatestNat
<1> DEFINE m == LastBookingOp(b)
<1>6. m \in {0} \cup W /\ \A k \in {0} \cup W : k <= m
    BY <1>3, <1>5
<1>7. m \in Nat /\ m <= acts
  <2>1. m \in 0..acts
      BY <1>4, <1>6
  <2> QED BY <1>4, <2>1
<1>8. ASSUME NEW t \in Waiting, Concerns(t, b) PROVE t.n <= m
  <2>1. t.n \in W
      BY <1>8
  <2> HIDE DEF W, m
  <2> QED BY <1>6, <2>1
<1>9. m # 0 => \E t \in Waiting : t.n = m /\ Concerns(t, b)
  <2> HIDE DEF m
  <2> QED BY <1>6
<1> QED BY <1>7, <1>8, <1>9

-----------------------------------------------------------------------------
(* A write of the phone: a new ticket.                                     *)
LEMMA EnqueuedTickets ==
    ASSUME BooksOK, TicketsOK, NEW t \in TicketSet,
           t.n = acts + 1, acts' = acts + 1, t.parent <= acts,
           Waiting' = Waiting \cup {t}, Refused' = Refused, Done' = Done,
           \A r \in Refused : r.n # t.parent
    PROVE  TicketsOK' /\ Tickets' = Tickets \cup {t}
<1>1. Tickets' = Tickets \cup {t}
    BY DEF Tickets
<1>2. \A s \in Tickets : s.n <= acts /\ s.n \in Nat
    BY TicketsTyped DEF TicketsOK
<1>3. acts \in Nat /\ t.parent \in Nat
    BY DEF BooksOK, TicketSet
<1>4. \A s \in Tickets' : s.n <= acts'
    BY <1>1, <1>2, <1>3
<1>5. \A s, u \in Tickets' : s.n = u.n => s = u
  <2> SUFFICES ASSUME NEW s \in Tickets', NEW u \in Tickets', s.n = u.n PROVE s = u
      OBVIOUS
  <2>1. CASE s \in Tickets /\ u \in Tickets
      BY <2>1 DEF TicketsOK
  <2>2. CASE s = t /\ u = t
      BY <2>2
  <2>3. CASE s \in Tickets /\ u = t
      BY <1>2, <1>3, <2>3
  <2>4. CASE s = t /\ u \in Tickets
      BY <1>2, <1>3, <2>4
  <2> QED BY <1>1, <2>1, <2>2, <2>3, <2>4
<1>6. \A d \in Done', w \in Waiting' : d.n <= w.n
  <2> SUFFICES ASSUME NEW d \in Done, NEW w \in Waiting' PROVE d.n <= w.n
      OBVIOUS
  <2>1. CASE w \in Waiting
      BY <2>1 DEF TicketsOK
  <2>2. CASE w = t
      BY <1>2, <1>3, <2>2 DEF Tickets
  <2> QED BY <2>1, <2>2
<1>7. \A w \in Waiting' : w.parent < w.n /\ \A r \in Refused' : r.n # w.parent
    BY <1>3 DEF TicketsOK
<1> QED BY <1>1, <1>4, <1>5, <1>6, <1>7 DEF TicketsOK

(* The ops of its booking that wait before a write, and it, are in one     *)
(* chain.                                                                  *)
LEMMA EnqueuedChain ==
    ASSUME BooksOK, TicketsOK, NamesOK, ChainOK, NEW t \in TicketSet,
           t.n = acts + 1, t.parent = LastBookingOp(t.b),
           t.b[2] = "server" => t.b \in Named(phone),
           t.b[2] = "phone" => t.b[1] \in Mine /\ t.b[1] \notin renamed,
           \A y \in Names : y[2] = "server" => (y \in Named(phone') <=> y \in Named(phone)),
           renamed' = renamed,
           Waiting' = Waiting \cup {t}, Tickets' = Tickets \cup {t}
    PROVE  ChainOK'
<1> DEFINE x == t.b[1]
<1>1. \A y : HeldUp(y)' <=> HeldUp(y)
  <2> SUFFICES ASSUME NEW y PROVE HeldUp(y)' <=> HeldUp(y)
      OBVIOUS
  <2>1. y \in Mine => <<y, "server">> \in Names
      BY DEF Names
  <2>2. y \in Mine => (<<y, "server">> \in Named(phone') <=> <<y, "server">> \in Named(phone))
      BY <2>1
  <2> QED BY <2>2 DEF HeldUp
<1>2. \A y, lo, hi : HelpedBetween(y, lo, hi) => HelpedBetween(y, lo, hi)'
    BY DEF HelpedBetween
<1>3. \A s \in Waiting : s.n < t.n /\ s.n \in Nat \ {0}
    BY TicketsTyped DEF TicketsOK, Tickets, BooksOK
<1>4. ASSUME NEW p \in Waiting, p.b[1] = x, ~HeldUp(x)
      PROVE  p.b \in AlsoCalled(t.b)
  <2>0. /\ p.b \in Names /\ t.b \in Names /\ p \in Tickets
        /\ p.b = <<x, p.b[2]>> /\ t.b = <<x, t.b[2]>>
        /\ p.b[2] \in {"phone", "server"} /\ t.b[2] \in {"phone", "server"}
    <3>1. p \in Tickets /\ p.b \in Names
        BY TicketsTyped DEF Tickets
    <3>2. t.b \in Names
        BY DEF TicketSet
    <3> QED BY <1>4, <3>1, <3>2, NameShape
  <2>1. p.b \in Named(phone) \/ (p.b[2] = "phone" /\ x \in renamed)
      BY <1>4, <2>0 DEF NamesOK
  <2>2. p.b[2] = "phone" => x \in Mine
      BY <1>4, <2>0, <2>1 DEF NamesOK, BooksOK
  <2>3. CASE t.b[2] = p.b[2]
      BY <2>0, <2>3 DEF AlsoCalled
  <2>4. CASE t.b[2] = "server" /\ p.b[2] = "phone"
    <3>1. x \in renamed
      <4>1. x \in Mine /\ <<x, "server">> \in Named(phone)
          BY <2>0, <2>2, <2>4
      <4> QED BY <1>4, <4>1 DEF HeldUp
    <3>2. <<t.b[1], "phone">> \in AlsoCalled(t.b)
        BY <2>0, <2>4, <3>1 DEF AlsoCalled
    <3> QED BY <2>0, <2>4, <3>2
  <2>5. CASE t.b[2] = "phone" /\ p.b[2] = "server"
    <3>1. <<x, "server">> \in Named(phone)
        BY <2>0, <2>1, <2>5
    <3> QED BY <1>4, <2>5, <3>1 DEF HeldUp
  <2> QED BY <2>0, <2>3, <2>4, <2>5
<1>5. ASSUME NEW p \in Waiting, p.b[1] = x, ~HeldUp(x), ~HelpedBetween(x, p.n, t.n)'
      PROVE  \E k \in Waiting : k.n = t.parent /\ k.b[1] = x /\ p.n <= k.n
  <2>1. Concerns(p, t.b)
      BY <1>4, <1>5 DEF Concerns
  <2>2. p.n <= t.parent
      BY <2>1, LastOpIs
  <2>3. t.parent # 0
      BY <1>3, <2>2, LastOpIs
  <2>4. PICK k \in Waiting : k.n = t.parent /\ Concerns(k, t.b)
      BY <2>3, LastOpIs
  <2>5. CASE k.b[1] = x
      BY <2>2, <2>4, <2>5
  <2>6. CASE k.b[1] # x
    <3>1. PICK y \in {k.b} \cup k.serves : y \in AlsoCalled(t.b)
        BY <2>4 DEF Concerns
    <3>2. y[1] = x
        BY <3>1 DEF AlsoCalled
    <3>3. y \in k.serves
        BY <2>6, <3>1, <3>2
    <3>4. p.n # k.n
        BY <1>5, <2>6 DEF TicketsOK, Tickets
    <3>5. p.n < k.n /\ k.n < t.n
        BY <1>3, <2>2, <2>4, <3>4
    <3>6. k \in Tickets'
        BY DEF Tickets
    <3>7. HelpedBetween(x, p.n, t.n)'
        BY <2>6, <3>2, <3>3, <3>5, <3>6 DEF HelpedBetween
    <3> QED BY <1>5, <3>7
  <2> QED BY <2>5, <2>6
<1>6. \A p, q \in Waiting' :
         p.b[1] = q.b[1] /\ p.n < q.n =>
            \/ HeldUp(q.b[1])'
            \/ HelpedBetween(q.b[1], p.n, q.n)'
            \/ \E k \in Waiting' : k.n = q.parent /\ k.b[1] = q.b[1] /\ p.n <= k.n
  <2> SUFFICES ASSUME NEW p \in Waiting', NEW q \in Waiting', p.b[1] = q.b[1], p.n < q.n
               PROVE  \/ HeldUp(q.b[1])'
                      \/ HelpedBetween(q.b[1], p.n, q.n)'
                      \/ \E k \in Waiting' : k.n = q.parent /\ k.b[1] = q.b[1] /\ p.n <= k.n
      OBVIOUS
  <2>1. CASE p \in Waiting /\ q \in Waiting
      BY <1>1, <1>2, <2>1 DEF ChainOK
  <2>2. CASE p \in Waiting /\ q = t
      BY <1>1, <1>5, <2>2
  <2>3. p # t
    <3> SUFFICES ASSUME p = t PROVE FALSE
        OBVIOUS
    <3>1. q = t \/ q.n < t.n
        BY <1>3
    <3>2. t.n \in Nat /\ (q \in Waiting => q.n \in Nat)
        BY <1>3 DEF TicketSet
    <3> QED BY <3>1, <3>2
  <2> QED BY <2>1, <2>2, <2>3
<1> QED BY <1>6 DEF ChainOK

LEMMA OldestIsOne ==
    ASSUME BooksOK, TicketsOK, NEW s, Oldest(s), NEW t, Oldest(t)
    PROVE  s = t
<1>1. s.n <= t.n /\ t.n <= s.n /\ s \in Tickets /\ t \in Tickets
    BY DEF Oldest, Tickets
<1>2. s.n \in Nat /\ t.n \in Nat
    BY <1>1, TicketsTyped
<1> QED BY <1>1, <1>2 DEF TicketsOK

(* A write: the new ticket stands behind all others and knows the refused. *)
LEMMA Enqueued ==
    ASSUME StoryInv, BooksOK', NEW t \in TicketSet,
           t.n = acts + 1, acts' = acts + 1, t.parent = LastBookingOp(t.b),
           t.knew = {r.n : r \in Refused}, t.serves \subseteq Named(phone),
           Named(phone') = Named(phone) \cup {t.b},
           \/ t.op # "create" /\ t.b \in Named(phone)
           \/ /\ t.op = "create" /\ t.b[2] = "phone" /\ t.b[1] \in Mine \ renamed
              /\ t.b \notin Named(phone) /\ <<t.b[1], "server">> \notin Named(phone),
           Waiting' = Waiting \cup {t}, Refused' = Refused, Done' = Done,
           UNCHANGED <<server, renamed, receipts, answer, news, page>>
    PROVE  StoryInv'
<1> USE DEF StoryInv
<1>a. t.b \in Names /\ t.b = <<t.b[1], t.b[2]>> /\ t.n \in Nat /\ acts \in Nat
    BY NameShape DEF TicketSet, BooksOK
<1>b. \A s \in Tickets : s.n < t.n /\ s.n \in Nat \ {0}
    BY <1>a, TicketsTyped DEF TicketsOK
<1>c. \A s \in Waiting : Oldest(s) => Oldest(s)'
    BY <1>b DEF Oldest, Tickets
<1>1. /\ t.parent <= acts /\ \A r \in Refused : r.n # t.parent
      /\ t.parent = 0 \/ \E w \in Waiting : w.n = t.parent
  <2>1. t.parent <= acts /\ (t.parent = 0 \/ \E w \in Waiting : w.n = t.parent)
      BY LastOpIs
  <2>2. ASSUME NEW r \in Refused, r.n = t.parent PROVE FALSE
    <3>1. r \in Tickets /\ t.parent # 0
        BY <1>b, <2>2 DEF Tickets
    <3>2. PICK w \in Waiting : w.n = t.parent
        BY <2>1, <3>1
    <3>3. w = r
        BY <2>2, <3>1, <3>2 DEF TicketsOK, Tickets
    <3> QED BY <3>3, QueueFacts DEF BooksOK
  <2> QED BY <2>1, <2>2
<1>2. TicketsOK' /\ Tickets' = Tickets \cup {t}
    BY <1>1, EnqueuedTickets
<1>3. \A y \in Names : y[2] = "server" => (y \in Named(phone') <=> y \in Named(phone))
    BY <1>a
<1>4. ChainOK'
  <2>1. t.b[2] = "server" => t.b \in Named(phone)
      OBVIOUS
  <2>2. t.b[2] = "phone" => t.b[1] \in Mine /\ t.b[1] \notin renamed
      BY DEF NamesOK
  <2> QED BY <1>2, <1>3, <2>1, <2>2, EnqueuedChain
<1>5. \A y : HeldUp(y) => HeldUp(y)'
    BY DEF HeldUp
<1>6. \A y, lo, hi : HelpedBetween(y, lo, hi) => HelpedBetween(y, lo, hi)'
    BY <1>2 DEF HelpedBetween
<1>7. KnewOK'
  <2> SUFFICES ASSUME NEW f \in Refused, NEW q \in Waiting', f.b[1] = q.b[1], f.n < q.n
               PROVE  f.n \in q.knew \/ HelpedBetween(q.b[1], f.n, q.n)' \/ HeldUp(q.b[1])'
      BY DEF KnewOK
  <2>1. CASE q = t
      BY <2>1
  <2>2. CASE q \in Waiting
      BY <1>5, <1>6, <2>2 DEF KnewOK
  <2> QED BY <2>1, <2>2
<1>8. StoryOK'
    BY <1>6 DEF StoryOK
<1>9. AnswersOK'
  <2>1. Answered' = Answered
      BY DEF Answered
  <2>2. \A w \in Waiting' : answer.says = "refused" /\ w.n = answer.n => w.op # "create"
    <3> SUFFICES ASSUME answer.says = "refused", t.n = answer.n PROVE FALSE
        BY DEF AnswersOK
    <3>1. PICK w \in Waiting : w.n = answer.n
        BY DEF AnswersOK, NoAnswer, Oldest
    <3> QED BY <1>b, <3>1 DEF Tickets
  <2> QED BY <1>c, <2>1, <2>2 DEF AnswersOK, Oldest
<1>10. ASSUME t.op = "create", NEW s \in Tickets PROVE s.b[1] # t.b[1]
  <2> SUFFICES ASSUME s.b[1] = t.b[1] PROVE FALSE
      OBVIOUS
  <2>1. s.b \in Names
      BY <1>10, TicketsTyped
  <2>2. s.b = <<t.b[1], s.b[2]>> /\ s.b[2] \in {"phone", "server"}
      BY <2>1, NameShape
  <2>3. s.b \in Named(phone)
      BY <1>10 DEF NamesOK
  <2> QED BY <1>a, <1>10, <2>2, <2>3
<1>11. NamesOK'
  <2>1. \A s \in Tickets' : \A y \in {s.b} \cup s.serves :
            y \in Named(phone') \/ (y[2] = "phone" /\ y[1] \in renamed)
      BY <1>2 DEF NamesOK
  <2>2. \A y \in Named(phone') : y[2] = "phone" =>
            /\ y[1] \in Mine /\ y[1] \notin renamed
            /\ \E c \in Waiting' : /\ c.op = "create" /\ c.b = y
                                   /\ \A s \in Tickets' : s.b[1] = y[1] => c.n <= s.n
    <3> SUFFICES ASSUME NEW y \in Named(phone'), y[2] = "phone"
                 PROVE  /\ y[1] \in Mine /\ y[1] \notin renamed
                        /\ \E c \in Waiting' : /\ c.op = "create" /\ c.b = y
                                   /\ \A s \in Tickets' : s.b[1] = y[1] => c.n <= s.n
        OBVIOUS
    <3>1. CASE y \in Named(phone)
      <4>1. PICK c \in Waiting : /\ c.op = "create" /\ c.b = y
                                 /\ \A s \in Tickets : s.b[1] = y[1] => c.n <= s.n
          BY <3>1 DEF NamesOK
      <4>2. c.n <= t.n
          BY <1>b DEF Tickets
      <4> QED BY <1>2, <3>1, <4>1, <4>2 DEF NamesOK
    <3>2. CASE y \notin Named(phone)
        BY <1>2, <1>a, <1>10, <3>2
    <3> QED BY <3>1, <3>2
  <2> QED BY <1>a, <2>1, <2>2 DEF NamesOK
<1>12. CreatesOK'
  <2>1. t.op = "create" => t.parent = 0
    <3> SUFFICES ASSUME t.op = "create", NEW w \in Waiting, Concerns(w, t.b) PROVE FALSE
        BY LastOpIs
    <3>1. AlsoCalled(t.b) = {t.b}
        BY <1>a DEF AlsoCalled
    <3>2. t.b \in {w.b} \cup w.serves
        BY <3>1 DEF Concerns
    <3> QED BY <3>2 DEF NamesOK, Tickets
  <2>2. Answered' = Answered
      BY DEF Answered
  <2>3. \A c \in Waiting' : c.op = "create" => c.b[2] = "phone" /\ c.parent = 0 /\ c.b \in Named(phone')
      BY <2>1 DEF CreatesOK
  <2>4. \A c, d \in Tickets' : c.op = "create" /\ d.op = "create" /\ c.b = d.b => c.n = d.n
      BY <1>2, <1>10 DEF CreatesOK
  <2>5. \A d \in Done' : d.op = "create" => <<d.b[1], "server">> \in Named(server')
      BY DEF CreatesOK
  <2>6. \A x \in Mine : <<x, "server">> \in Named(server') /\ x \notin renamed' =>
          \E c \in Waiting' : /\ c.op = "create" /\ c.b = <<x, "phone">>
                             /\ c.n \in Answered' /\ Oldest(c)'
      BY <1>c, <2>2 DEF CreatesOK
  <2> QED BY <2>3, <2>4, <2>5, <2>6 DEF CreatesOK
<1> QED BY <1>2, <1>4, <1>7, <1>8, <1>9, <1>11, <1>12

(* Steps that move no ticket: what the phone hears the server has.         *)
LEMMA Quiet ==
    ASSUME StoryInv, BooksOK', AnswersOK',
           Waiting' = Waiting, Refused' = Refused, Done' = Done,
           UNCHANGED <<acts, renamed, receipts>>,
           Named(phone) \subseteq Named(phone'), Named(server) \subseteq Named(server'),
           \A y \in Named(phone') \ Named(phone) : y[2] = "server" /\ y \in Named(server'),
           \A y \in Named(server') \ Named(server) : y[2] = "server" /\ y[1] \notin Mine,
           Named(page'.book) \subseteq Named(server'), page'.rows \subseteq Named(page'.book),
           news'.rows \subseteq Named(server')
    PROVE  StoryInv'
<1> USE DEF StoryInv
<1>1. Tickets' = Tickets
    BY DEF Tickets
<1>2. TicketsOK'
    BY <1>1 DEF TicketsOK
<1>3. \A y : HeldUp(y) => HeldUp(y)'
    BY DEF HeldUp
<1>4. \A y, lo, hi : HelpedBetween(y, lo, hi) <=> HelpedBetween(y, lo, hi)'
    BY <1>1 DEF HelpedBetween
<1>5. ChainOK' /\ KnewOK' /\ StoryOK'
  <2>1. ChainOK'
      BY <1>3, <1>4 DEF ChainOK
  <2>2. KnewOK'
      BY <1>3, <1>4 DEF KnewOK
  <2>3. StoryOK'
      BY <1>4 DEF StoryOK
  <2> QED BY <2>1, <2>2, <2>3
<1>6. NamesOK'
  <2>1. /\ \A y \in Named(server') : y[2] = "server"
        /\ \A x \in renamed' : <<x, "server">> \in Named(phone')
      BY DEF NamesOK
  <2>2. \A y \in Named(phone') : y[2] = "server" => y \in Named(server')
      BY DEF NamesOK
  <2>3. \A t \in Tickets' : \A y \in {t.b} \cup t.serves :
          y \in Named(phone') \/ (y[2] = "phone" /\ y[1] \in renamed')
      BY <1>1 DEF NamesOK
  <2>4. \A y \in Named(phone') : y[2] = "phone" =>
          /\ y[1] \in Mine /\ y[1] \notin renamed'
          /\ \E c \in Waiting' : /\ c.op = "create" /\ c.b = y
                                /\ \A t \in Tickets' : t.b[1] = y[1] => c.n <= t.n
      BY <1>1 DEF NamesOK
  <2> QED BY <2>1, <2>2, <2>3, <2>4 DEF NamesOK
<1>7. CreatesOK'
  <2>1. \A t : Oldest(t)' <=> Oldest(t)
      BY DEF Oldest
  <2>2. Answered' = Answered
      BY DEF Answered
  <2>3. \A c \in Waiting' : c.op = "create" => c.b[2] = "phone" /\ c.parent = 0 /\ c.b \in Named(phone')
      BY DEF CreatesOK
  <2>4. \A c, d \in Tickets' : c.op = "create" /\ d.op = "create" /\ c.b = d.b => c.n = d.n
      BY <1>1 DEF CreatesOK
  <2>5. \A d \in Done' : d.op = "create" => <<d.b[1], "server">> \in Named(server')
      BY DEF CreatesOK
  <2>6. \A x \in Mine : <<x, "server">> \in Named(server') /\ x \notin renamed' =>
          \E c \in Waiting' : /\ c.op = "create" /\ c.b = <<x, "phone">>
                             /\ c.n \in Answered' /\ Oldest(c)'
    <3>1. \A x \in Mine : <<x, "server">> \in Named(server') => <<x, "server">> \in Named(server)
        OBVIOUS
    <3> QED BY <2>1, <2>2, <3>1 DEF CreatesOK
  <2> QED BY <2>3, <2>4, <2>5, <2>6 DEF CreatesOK
<1> QED BY <1>2, <1>5, <1>6, <1>7

(* Nothing is held up while its create's answer has not come.              *)
LEMMA HeldUpNeedsAnswer ==
    ASSUME StoryInv, NEW h, Oldest(h), NEW x, HeldUp(x)
    PROVE  h.op = "create" /\ h.b = <<x, "phone">> /\ h.n \in Answered
<1>1. x \in Mine /\ x \notin renamed /\ <<x, "server">> \in Named(server)
    BY DEF HeldUp, StoryInv, NamesOK
<1>2. PICK c \in Waiting : c.op = "create" /\ c.b = <<x, "phone">> /\ c.n \in Answered /\ Oldest(c)
    BY <1>1 DEF StoryInv, CreatesOK
<1>3. c = h
    BY <1>2, OldestIsOne DEF StoryInv
<1> QED BY <1>2, <1>3

(* The server does a new op.                                               *)
LEMMA Landed ==
    ASSUME StoryInv, BooksOK', NEW h, Oldest(h), h.n \notin Answered,
           Waiting' = Waiting, Refused' = Refused, Done' = Done \cup {h},
           Answered' = Answered \cup {h.n}, \A r \in receipts' : r.says \in {"ok", "declined"},
           answer' # NoAnswer, answer'.n = h.n, answer'.says \in {"ok", "declined"},
           Named(server') = Named(server) \cup (IF h.op = "create" THEN {<<h.b[1], "server">>} ELSE {}),
           news'.rows \subseteq Named(server'),
           UNCHANGED <<acts, renamed, phone, page>>
    PROVE  StoryInv'
<1> USE DEF StoryInv
<1>1. Tickets' = Tickets /\ h \in Waiting
    BY DEF Tickets, Oldest
<1>2. TicketsOK'
    BY <1>1 DEF TicketsOK, Oldest
<1>3. \A y : HeldUp(y) <=> HeldUp(y)'
    BY DEF HeldUp
<1>4. \A y, lo, hi : HelpedBetween(y, lo, hi) <=> HelpedBetween(y, lo, hi)'
    BY <1>1 DEF HelpedBetween
<1>5. \A t : Oldest(t)' <=> Oldest(t)
    BY DEF Oldest
<1>6. ChainOK' /\ KnewOK'
  <2>1. ChainOK'
      BY <1>3, <1>4 DEF ChainOK
  <2>2. KnewOK'
      BY <1>3, <1>4 DEF KnewOK
  <2> QED BY <2>1, <2>2
<1>7. StoryOK'
  <2> SUFFICES ASSUME NEW f \in Refused', NEW o \in Done', f.b[1] = o.b[1], f.n < o.n
               PROVE  f.n \in o.knew \/ HelpedBetween(f.b[1], f.n, o.n)'
      BY DEF StoryOK
  <2>1. CASE o \in Done
      BY <1>4, <2>1 DEF StoryOK
  <2>2. CASE o = h
    <3>1. ~HeldUp(h.b[1])
        BY HeldUpNeedsAnswer
    <3> QED BY <1>1, <1>4, <2>2, <3>1 DEF KnewOK
  <2> QED BY <2>1, <2>2
<1>8. AnswersOK'
  <2>1. Answered' = {d.n : d \in Done'}
      BY DEF AnswersOK
  <2>2. \E w : Oldest(w)' /\ w.n = answer'.n
      BY <1>5
  <2> QED BY <2>1, <2>2 DEF AnswersOK
<1>9. NamesOK'
    BY <1>1 DEF NamesOK
<1>10. CreatesOK'
  <2>1. \A d \in Done' : d.op = "create" => <<d.b[1], "server">> \in Named(server')
      BY DEF CreatesOK
  <2>2. \A x \in Mine : <<x, "server">> \in Named(server') /\ x \notin renamed' =>
          \E c \in Waiting' : /\ c.op = "create" /\ c.b = <<x, "phone">>
                             /\ c.n \in Answered' /\ Oldest(c)'
    <3> SUFFICES ASSUME NEW x \in Mine, <<x, "server">> \in Named(server'), x \notin renamed
                 PROVE  \E c \in Waiting : /\ c.op = "create" /\ c.b = <<x, "phone">>
                                           /\ c.n \in Answered' /\ Oldest(c)
        BY <1>5
    <3>1. CASE <<x, "server">> \in Named(server)
        BY <3>1 DEF CreatesOK
    <3>2. CASE <<x, "server">> \notin Named(server)
      <4>1. h.op = "create" /\ h.b[1] = x
          BY <3>2
      <4>2. h.b[2] = "phone" /\ h \in Tickets
          BY <1>1, <4>1 DEF CreatesOK, Tickets
      <4>4. h.b \in Names
          BY <4>2, TicketsTyped
      <4>3. h.b = <<x, "phone">>
          BY <4>1, <4>2, <4>4, NameShape
      <4> QED BY <1>1, <4>1, <4>3
    <3> QED BY <3>1, <3>2
  <2>3. \A c \in Waiting' : c.op = "create" => c.b[2] = "phone" /\ c.parent = 0 /\ c.b \in Named(phone')
      BY DEF CreatesOK
  <2>4. \A c, d \in Tickets' : c.op = "create" /\ d.op = "create" /\ c.b = d.b => c.n = d.n
      BY <1>1 DEF CreatesOK
  <2> QED BY <2>1, <2>2, <2>3, <2>4 DEF CreatesOK
<1> QED BY <1>2, <1>6, <1>7, <1>8, <1>9, <1>10

(* The phone takes the answer in.                                          *)
LEMMA Heard ==
    ASSUME StoryInv, BooksOK', NEW h, Oldest(h), h.n \in Answered,
           h.op = "create" => <<h.b[1], "server">> \notin Named(phone),
           Waiting' = Waiting \ {h}, Refused' = Refused, Done' = Done, answer' = NoAnswer,
           IF h.op = "create"
           THEN /\ renamed' = renamed \cup {h.b[1]}
                /\ Named(phone') = (Named(phone) \ {h.b}) \cup {<<h.b[1], "server">>}
           ELSE renamed' = renamed /\ Named(phone') = Named(phone),
           UNCHANGED <<acts, receipts, server, news, page>>
    PROVE  StoryInv'
<1> USE DEF StoryInv
<1>0. h \in Waiting /\ h \in Tickets /\ h.b \in Names
    BY TicketsTyped DEF Oldest, Tickets
<1>1. h \in Done
  <2>1. PICK d \in Done : d.n = h.n
      BY DEF AnswersOK
  <2> QED BY <1>0, <2>1 DEF TicketsOK, Tickets
<1>2. Tickets' = Tickets
    BY <1>1 DEF Tickets
<1>3. TicketsOK'
    BY <1>2 DEF TicketsOK
<1>4. h.op = "create" => h.b = <<h.b[1], "phone">>
  <2>1. h.op = "create" => h.b[2] = "phone"
      BY <1>0 DEF CreatesOK
  <2> QED BY <1>0, <2>1, NameShape
<1>5. \A y : ~HeldUp(y)
  <2> SUFFICES ASSUME NEW y, HeldUp(y) PROVE FALSE
      OBVIOUS
  <2>1. h.op = "create" /\ h.b = <<y, "phone">>
      BY HeldUpNeedsAnswer
  <2> QED BY <2>1 DEF HeldUp
<1>6. \A y, lo, hi : HelpedBetween(y, lo, hi) <=> HelpedBetween(y, lo, hi)'
    BY <1>2 DEF HelpedBetween
<1>7. ChainOK'
  <2> SUFFICES ASSUME NEW p \in Waiting', NEW q \in Waiting', p.b[1] = q.b[1], p.n < q.n
               PROVE  \/ HelpedBetween(q.b[1], p.n, q.n)'
                      \/ \E k \in Waiting' : k.n = q.parent /\ k.b[1] = q.b[1] /\ p.n <= k.n
      BY DEF ChainOK
  <2>1. CASE HelpedBetween(q.b[1], p.n, q.n)
      BY <1>6, <2>1
  <2>2. CASE \E k \in Waiting : k.n = q.parent /\ k.b[1] = q.b[1] /\ p.n <= k.n
    <3>1. PICK k \in Waiting : k.n = q.parent /\ k.b[1] = q.b[1] /\ p.n <= k.n
        BY <2>2
    <3>2. k # h
      <4> SUFFICES ASSUME k = h PROVE FALSE
          OBVIOUS
      <4>1. h.n <= p.n /\ p.n <= h.n /\ p \in Tickets
          BY <3>1 DEF Oldest, Tickets
      <4>2. h.n \in Nat /\ p.n \in Nat
          BY <1>0, <4>1, TicketsTyped
      <4>3. p = h
          BY <1>0, <4>1, <4>2 DEF TicketsOK
      <4> QED BY <4>3
    <3> QED BY <3>1, <3>2
  <2> QED BY <1>5, <2>1, <2>2 DEF ChainOK
<1>8. KnewOK' /\ StoryOK'
  <2>1. KnewOK'
      BY <1>5, <1>6 DEF KnewOK
  <2>2. StoryOK'
      BY <1>6 DEF StoryOK
  <2> QED BY <2>1, <2>2
<1>9. AnswersOK'
  <2>1. Answered' = {d.n : d \in Done'} /\ \A r \in receipts' : r.says \in {"ok", "declined"}
      BY DEF AnswersOK, Answered
  <2> QED BY <2>1 DEF AnswersOK, NoAnswer
<1>10. ASSUME NEW c \in Waiting', c.op = "create"
       PROVE  /\ c.b # h.b \/ h.op # "create"
              /\ c.b \in Named(phone) => c.b \in Named(phone')
  <2>1. c.b # h.b \/ h.op # "create"
    <3> SUFFICES ASSUME c.b = h.b, h.op = "create" PROVE FALSE
        OBVIOUS
    <3>1. c.n = h.n /\ c \in Tickets
        BY <1>0, <1>10 DEF CreatesOK, Tickets
    <3> QED BY <1>0, <3>1 DEF TicketsOK
  <2> QED BY <2>1
<1>11. NamesOK'
  <2>1. \A y \in Named(phone') : y[2] = "server" => y \in Named(server)
      BY <1>1 DEF NamesOK, CreatesOK
  <2>2. \A x \in renamed' : <<x, "server">> \in Named(phone')
    <3> SUFFICES ASSUME NEW x \in renamed PROVE <<x, "server">> \in Named(phone')
        OBVIOUS
    <3>1. <<x, "server">> \in Named(phone)
        BY DEF NamesOK
    <3>2. h.op = "create" => <<x, "server">> # h.b
        BY <1>4
    <3> QED BY <3>1, <3>2
  <2>3. \A t \in Tickets' : \A y \in {t.b} \cup t.serves :
          y \in Named(phone') \/ (y[2] = "phone" /\ y[1] \in renamed')
    <3> SUFFICES ASSUME NEW t \in Tickets, NEW y \in {t.b} \cup t.serves
                 PROVE  y \in Named(phone') \/ (y[2] = "phone" /\ y[1] \in renamed')
        BY <1>2
    <3>1. y \in Named(phone) \/ (y[2] = "phone" /\ y[1] \in renamed)
        BY DEF NamesOK
    <3> QED BY <1>4, <3>1
  <2>4. \A y \in Named(phone') : y[2] = "phone" =>
          /\ y[1] \in Mine /\ y[1] \notin renamed'
          /\ \E c \in Waiting' : /\ c.op = "create" /\ c.b = y
                                /\ \A t \in Tickets' : t.b[1] = y[1] => c.n <= t.n
    <3> SUFFICES ASSUME NEW y \in Named(phone'), y[2] = "phone"
                 PROVE  /\ y[1] \in Mine /\ y[1] \notin renamed'
                        /\ \E c \in Waiting' : /\ c.op = "create" /\ c.b = y
                                   /\ \A t \in Tickets' : t.b[1] = y[1] => c.n <= t.n
        OBVIOUS
    <3>1. y \in Named(phone) /\ (h.op = "create" => y # h.b)
        BY <1>4
    <3>2. PICK c \in Waiting : /\ c.op = "create" /\ c.b = y
                               /\ \A t \in Tickets : t.b[1] = y[1] => c.n <= t.n
        BY <3>1 DEF NamesOK
    <3>3. c # h
        BY <3>1, <3>2
    <3>4. y \in Names
        BY <3>1 DEF Named
    <3>5. y = <<y[1], "phone">>
        BY <3>4, NameShape
    <3>6. h.op = "create" => y[1] # h.b[1]
        BY <1>4, <3>1, <3>5
    <3> QED BY <1>2, <3>1, <3>2, <3>3, <3>6 DEF NamesOK
  <2> QED BY <2>1, <2>2, <2>3, <2>4 DEF NamesOK
<1>12. CreatesOK'
  <2>1. \A x \in Mine : <<x, "server">> \in Named(server') /\ x \notin renamed' => FALSE
    <3> SUFFICES ASSUME NEW x \in Mine, <<x, "server">> \in Named(server), x \notin renamed'
                 PROVE  FALSE
        OBVIOUS
    <3>1. PICK c \in Waiting : c.op = "create" /\ c.b = <<x, "phone">> /\ Oldest(c)
        BY DEF CreatesOK
    <3>2. c = h
        BY <3>1, OldestIsOne
    <3> QED BY <3>1, <3>2
  <2>2. \A c \in Waiting' : c.op = "create" => c.b[2] = "phone" /\ c.parent = 0 /\ c.b \in Named(phone')
      BY <1>10 DEF CreatesOK
  <2>3. \A c, d \in Tickets' : c.op = "create" /\ d.op = "create" /\ c.b = d.b => c.n = d.n
      BY <1>2 DEF CreatesOK
  <2>4. \A d \in Done' : d.op = "create" => <<d.b[1], "server">> \in Named(server')
      BY DEF CreatesOK
  <2> QED BY <2>1, <2>2, <2>3, <2>4 DEF CreatesOK
<1> QED BY <1>3, <1>7, <1>8, <1>9, <1>11, <1>12

(* What falls with an op: the op, and whatever hangs on what falls.        *)
LEMMA CascadeFacts ==
    ASSUME BooksOK, TicketsOK, NEW h \in Waiting
    PROVE  LET fallen == Cascade(h.n)
           IN /\ fallen \in SUBSET Unsent /\ h.n \in fallen
              /\ \A w \in Waiting : w.parent \in fallen => w.n \in fallen
              /\ \A w \in Waiting : w.n \in fallen => w = h \/ w.parent \in fallen
<1> DEFINE fallen == Cascade(h.n)
           Closed(S) == \A w \in Waiting : w.parent \in S => w.n \in S
<1>1. Unsent = {t.n : t \in Waiting}
    BY QueueFacts DEF BooksOK
<1>2. \A S : HoldsItsChildren(S) <=> Closed(S)
  <2>1. \A o : Ticket(o).n = o.n /\ Ticket(o).parent = o.parent
      BY DEF Ticket
  <2> SUFFICES ASSUME NEW S PROVE HoldsItsChildren(S) <=> Closed(S)
      OBVIOUS
  <2>2. HoldsItsChildren(S) => Closed(S)
      BY <2>1 DEF HoldsItsChildren, Waiting
  <2>3. Closed(S) => HoldsItsChildren(S)
      BY <2>1 DEF HoldsItsChildren, Waiting
  <2> QED BY <2>2, <2>3
<1> HIDE DEF Closed
<1>3. fallen = {m \in Unsent : \A S \in SUBSET Unsent : h.n \in S /\ Closed(S) => m \in S}
    BY <1>2 DEF Cascade
<1> HIDE DEF fallen
<1>4. fallen \in SUBSET Unsent /\ h.n \in fallen
    BY <1>1, <1>3
<1>5. Closed(fallen)
  <2> SUFFICES ASSUME NEW w \in Waiting, w.parent \in fallen PROVE w.n \in fallen
      BY DEF Closed
  <2>1. ASSUME NEW S \in SUBSET Unsent, h.n \in S, Closed(S) PROVE w.n \in S
    <3>1. w.parent \in S
        BY <1>3, <2>1
    <3> QED BY <2>1, <3>1 DEF Closed
  <2> QED BY <1>1, <1>3, <2>1
<1>6. ASSUME NEW w \in Waiting, w.n \in fallen, w # h PROVE w.parent \in fallen
  <2> SUFFICES ASSUME w.parent \notin fallen PROVE FALSE
      OBVIOUS
  <2> DEFINE S == fallen \ {w.n}
  <2>1. w.n # h.n
      BY <1>6 DEF TicketsOK, Tickets
  <2>2. ASSUME NEW v \in Waiting, v.parent \in S PROVE v.n \in S
    <3>1. v.n \in fallen
        BY <1>5, <2>2 DEF Closed
    <3>2. v.n # w.n
      <4> SUFFICES ASSUME v.n = w.n PROVE FALSE
          OBVIOUS
      <4>1. v = w
          BY DEF TicketsOK, Tickets
      <4> QED BY <2>2, <4>1
    <3> QED BY <3>1, <3>2
  <2>3. Closed(S) /\ S \in SUBSET Unsent /\ h.n \in S
      BY <1>4, <2>1, <2>2 DEF Closed
  <2> HIDE DEF S
  <2>4. w.n \in S
      BY <1>3, <1>6, <2>3
  <2> QED BY <2>4 DEF S
<1> QED BY <1>4, <1>5, <1>6 DEF Closed, fallen

(* A verdict: what hangs on the refused op parks with it.                  *)
LEMMA Parked ==
    ASSUME StoryInv, BooksOK', NEW h, Oldest(h), h.op # "create", h.n \notin Answered,
           Waiting' = {t \in Waiting : t.n \notin Cascade(h.n)},
           Refused' = Refused \cup {t \in Waiting : t.n \in Cascade(h.n)},
           Done' = Done, answer' = NoAnswer,
           UNCHANGED <<acts, receipts, server, phone, renamed, news, page>>
    PROVE  StoryInv'
<1> USE DEF StoryInv
<1> DEFINE fallen == Cascade(h.n)
<1>0. h \in Waiting
    BY DEF Oldest
<1>1. /\ fallen \in SUBSET Unsent /\ h.n \in fallen
      /\ \A w \in Waiting : w.parent \in fallen => w.n \in fallen
      /\ \A w \in Waiting : w.n \in fallen => w = h \/ w.parent \in fallen
    BY <1>0, CascadeFacts
<1>2. Waiting' = {t \in Waiting : t.n \notin fallen}
      /\ Refused' = Refused \cup {t \in Waiting : t.n \in fallen}
    OBVIOUS
<1> HIDE DEF fallen
<1>3. Tickets' = Tickets
    BY <1>2 DEF Tickets
<1>4. \A t \in Waiting : t.n \in Nat \ {0} /\ t.parent \in Nat /\ t \in Tickets
    BY TicketsTyped DEF Tickets
<1>5. 0 \notin fallen
    BY <1>1, <1>4, QueueFacts DEF BooksOK
<1>6. \A c \in Waiting : c.op = "create" => c.n \notin fallen
    BY <1>1, <1>5 DEF CreatesOK
<1>7. TicketsOK'
    BY <1>1, <1>2, <1>3 DEF TicketsOK
<1>8. \A y : HeldUp(y) <=> HeldUp(y)'
    BY DEF HeldUp
<1>9. \A y, lo, hi : HelpedBetween(y, lo, hi) <=> HelpedBetween(y, lo, hi)'
    BY <1>3 DEF HelpedBetween
<1>10. ChainOK'
  <2> SUFFICES ASSUME NEW p \in Waiting', NEW q \in Waiting', p.b[1] = q.b[1], p.n < q.n
               PROVE  \/ HeldUp(q.b[1])
                      \/ HelpedBetween(q.b[1], p.n, q.n)
                      \/ \E k \in Waiting' : k.n = q.parent /\ k.b[1] = q.b[1] /\ p.n <= k.n
      BY <1>8, <1>9 DEF ChainOK
  <2> QED BY <1>1, <1>2 DEF ChainOK
<1>11. KnewOK'
  <2> SUFFICES ASSUME NEW f \in Refused', NEW q \in Waiting', f.b[1] = q.b[1], f.n < q.n
               PROVE  f.n \in q.knew \/ HelpedBetween(q.b[1], f.n, q.n) \/ HeldUp(q.b[1])
      BY <1>8, <1>9 DEF KnewOK
  <2>1. CASE f \in Refused
      BY <1>2, <2>1 DEF KnewOK
  <2>2. CASE f \in Waiting /\ f.n \in fallen
    <3> DEFINE x == f.b[1]
               B == {w.n : w \in {v \in Waiting : /\ v.n \notin fallen /\ v.b[1] = x /\ f.n < v.n
                                                  /\ ~HelpedBetween(x, f.n, v.n)}}
    <3> SUFFICES ASSUME ~HeldUp(x), ~HelpedBetween(x, f.n, q.n) PROVE FALSE
        OBVIOUS
    <3>1. B \in SUBSET Nat /\ B # {}
        BY <1>2, <1>4
    <3>2. PICK m \in B : \A i \in B : m <= i
      <4> HIDE DEF B
      <4> QED BY <3>1, LeastNat
    <3>3. PICK w \in Waiting : /\ w.n = m /\ w.n \notin fallen /\ w.b[1] = x /\ f.n < w.n
                               /\ ~HelpedBetween(x, f.n, w.n)
        BY <3>2
    <3>4. PICK k \in Waiting : k.n = w.parent /\ k.b[1] = x /\ f.n <= k.n
        BY <2>2, <3>3 DEF ChainOK
    <3>5. k.n \notin fallen /\ k.n < w.n
        BY <1>1, <3>3, <3>4 DEF TicketsOK
    <3>6. f.n # k.n
        BY <2>2, <3>5
    <3>7. f.n < k.n
        BY <1>4, <2>2, <3>4, <3>6
    <3>8. ~HelpedBetween(x, f.n, k.n)
      <4>1. \A s \in Tickets : s.n \in Nat
          BY TicketsTyped
      <4>2. \A s \in Tickets : s.n < k.n => s.n < w.n
          BY <1>4, <3>5, <4>1
      <4> QED BY <3>3, <4>2 DEF HelpedBetween
    <3>9. k.n \in B
        BY <3>4, <3>5, <3>7, <3>8
    <3>10. m <= k.n /\ k.n \in Nat /\ m \in Nat
        BY <1>4, <3>2, <3>3, <3>9
    <3> QED BY <3>3, <3>5, <3>10
  <2> QED BY <1>2, <2>1, <2>2
<1>12. StoryOK'
  <2> SUFFICES ASSUME NEW f \in Refused', NEW o \in Done, f.b[1] = o.b[1], f.n < o.n
               PROVE  f.n \in o.knew \/ HelpedBetween(f.b[1], f.n, o.n)
      BY <1>9 DEF StoryOK
  <2>1. CASE f \in Refused
      BY <2>1 DEF StoryOK
  <2>2. CASE f \in Waiting
    <3>1. o.n <= f.n /\ o.n \in Nat /\ f.n \in Nat
        BY <1>4, <2>2, TicketsTyped DEF TicketsOK, Tickets
    <3> QED BY <3>1
  <2> QED BY <1>2, <2>1, <2>2
<1>13. AnswersOK'
  <2>1. Answered' = {d.n : d \in Done'} /\ \A r \in receipts' : r.says \in {"ok", "declined"}
      BY DEF AnswersOK, Answered
  <2> QED BY <2>1 DEF AnswersOK, NoAnswer
<1>14. NamesOK'
  <2>1. \A y \in Named(phone') : y[2] = "phone" =>
          /\ y[1] \in Mine /\ y[1] \notin renamed'
          /\ \E c \in Waiting' : /\ c.op = "create" /\ c.b = y
                                /\ \A t \in Tickets' : t.b[1] = y[1] => c.n <= t.n
      BY <1>2, <1>3, <1>6 DEF NamesOK
  <2>2. \A t \in Tickets' : \A y \in {t.b} \cup t.serves :
          y \in Named(phone') \/ (y[2] = "phone" /\ y[1] \in renamed')
      BY <1>3 DEF NamesOK
  <2> QED BY <2>1, <2>2 DEF NamesOK
<1>15. CreatesOK'
  <2>1. \A x \in Mine : <<x, "server">> \in Named(server) /\ x \notin renamed => FALSE
    <3> SUFFICES ASSUME NEW x \in Mine, <<x, "server">> \in Named(server), x \notin renamed
                 PROVE  FALSE
        OBVIOUS
    <3>1. PICK c \in Waiting : c.op = "create" /\ Oldest(c)
        BY DEF CreatesOK
    <3> QED BY <3>1, OldestIsOne
  <2>2. \A c \in Waiting' : c.op = "create" => c.b[2] = "phone" /\ c.parent = 0 /\ c.b \in Named(phone')
      BY <1>2 DEF CreatesOK
  <2>3. \A c, d \in Tickets' : c.op = "create" /\ d.op = "create" /\ c.b = d.b => c.n = d.n
      BY <1>3 DEF CreatesOK
  <2>4. \A d \in Done' : d.op = "create" => <<d.b[1], "server">> \in Named(server')
      BY DEF CreatesOK
  <2> QED BY <2>1, <2>2, <2>3, <2>4 DEF CreatesOK
<1> QED BY <1>7, <1>10, <1>11, <1>12, <1>13, <1>14, <1>15

-----------------------------------------------------------------------------
(* The steps of the calendar, each by the move of tickets it is.           *)
LEMMA Enqueuing ==
    ASSUME StoryInv, NEW op \in Verbs, NEW b \in Names, NEW serves \in SUBSET Named(phone), NEW args,
           op = "create" => args.status # "none",
           queue' = Enqueue(op, b, serves, args), acts' = acts + 1, phoneOnly,
           BookOK(phone'), Named(phone') = Named(phone) \cup {b},
           \/ op # "create" /\ b \in Named(phone)
           \/ /\ op = "create" /\ b[2] = "phone" /\ b[1] \in Mine \ renamed
              /\ b \notin Named(phone) /\ <<b[1], "server">> \notin Named(phone)
    PROVE  StoryInv'
<1> DEFINE o == Op(op, b, serves, args)
           t == Ticket(o)
<1>1. BooksOK /\ TicketsOK
    BY DEF StoryInv
<1>2. acts \in Nat /\ LastBookingOp(b) \in Nat
    BY <1>1, LastOpIs DEF BooksOK
<1>3. {f.n : f \in FailedOps} = {r.n : r \in Refused}
  <2>1. \A f \in FailedOps : Ticket(f) \in Refused /\ Ticket(f).n = f.n
      BY DEF Refused, Ticket
  <2>2. \A r \in Refused : \E f \in FailedOps : r.n = f.n
      BY DEF Refused, Ticket
  <2> QED BY <2>1, <2>2
<1>4. {r.n : r \in Refused} \in SUBSET Nat
    BY <1>1, TicketsTyped DEF Tickets
<1>5. o = [n |-> acts + 1, op |-> op, b |-> b, serves |-> serves, args |-> args,
           parent |-> LastBookingOp(b), state |-> "pending", knew |-> {r.n : r \in Refused}]
    BY <1>3 DEF Op
<1>6. serves \in SUBSET Names
    BY DEF Named
<1> HIDE DEF o
<1>7. IsOp(o) /\ o.state = "pending" /\ o.n = acts + 1
    BY <1>2, <1>4, <1>5, <1>6 DEF IsOp, States
<1>8. queue' = Append(queue, o)
    BY DEF Enqueue, o
<1>9. QueueOK' /\ Waiting' = Waiting \cup {t} /\ Refused' = Refused
  <2>1. \A s \in Waiting \cup Refused : s.n <= acts
      BY <1>1 DEF TicketsOK, Tickets
  <2> QED BY <1>1, <1>2, <1>7, <1>8, <2>1, Appended DEF BooksOK
<1>10. t \in TicketSet /\ t.n = acts + 1 /\ t.op = op /\ t.b = b /\ t.serves = serves
       /\ t.parent = LastBookingOp(b) /\ t.knew = {r.n : r \in Refused}
    BY <1>2, <1>4, <1>5, <1>6 DEF Ticket, TicketSet
<1>11. Done' = Done
    BY DEF Done, phoneOnly
<1>12. BooksOK'
    BY <1>1, <1>2, <1>9 DEF BooksOK, phoneOnly
<1> HIDE DEF t
<1>13. UNCHANGED <<server, renamed, receipts, answer, news, page>>
    BY DEF phoneOnly
<1> QED BY <1>9, <1>10, <1>11, <1>12, <1>13, Enqueued

LEMMA KnownName ==
    ASSUME BookOK(phone), NEW b \in Names
    PROVE  LET book == Pruned(phone, now)
           IN /\ BookOK(book) /\ Named(book) = Named(phone)
              /\ book.rows[b].status # "none" => b \in Named(phone)
              /\ Known(b) <=> b \in Named(phone)
<1>1. BookOK(Pruned(phone, now)) /\ Named(Pruned(phone, now)) = Named(phone)
    BY PrunedBook
<1>2. Pruned(phone, now).rows[b].status # "none" <=> b \in Named(Pruned(phone, now))
    BY DEF Named
<1>3. Known(b) <=> b \in Named(phone)
    BY DEF Named, Known
<1> QED BY <1>1, <1>2, <1>3

LEMMA StepCreate ==
    ASSUME StoryInv, NEW x \in Mine, NEW w, NEW lines, NEW status \in Statuses,
           CreateBooking(x, w, lines, status)
    PROVE  StoryInv'
<1> DEFINE b == <<x, "phone">>
           book == Pruned(phone, now)
           args == [w |-> w, lines |-> lines, status |-> status]
           guess == TRUE
<1>1. b \in Names /\ <<x, "server">> \in Names /\ b[1] = x /\ b[2] = "phone"
    BY DEF Names
<1>2. BookOK(phone)
    BY DEF StoryInv, BooksOK
<1>3. BookOK(book) /\ Named(book) = Named(phone)
    BY <1>2, PrunedBook
<1>4. /\ b \notin Named(phone) /\ <<x, "server">> \notin Named(phone) /\ x \notin renamed
      /\ phone' = Created(book, b, w, lines, status, now, guess)
      /\ queue' = Enqueue("create", b, {}, args) /\ acts' = acts + 1 /\ phoneOnly
    BY DEF CreateBooking, Act, Known, Named
<1>5. args.status = status /\ status # "none"
    OBVIOUS
<1> HIDE DEF b, book, args, guess
<1>6. BookOK(phone') /\ Named(phone') = Named(phone) \cup {b}
    BY <1>1, <1>3, <1>4, <1>5, CreatedBook
<1>7. "create" \in Verbs /\ {} \in SUBSET Named(phone)
    BY DEF Verbs
<1> QED BY <1>1, <1>4, <1>5, <1>6, <1>7, Enqueuing

LEMMA StepConfirm ==
    ASSUME StoryInv, NEW b \in Names, NEW hold, ConfirmBooking(b, hold)
    PROVE  StoryInv'
<1> DEFINE book == Pruned(phone, now)
           guess == TRUE
<1>1. BookOK(phone)
    BY DEF StoryInv, BooksOK
<1>2. PICK plan : /\ phone' = Confirmed(book, b, hold, plan, guess)
                  /\ queue' = Enqueue("confirm", b, {}, [hold |-> hold, plan |-> plan])
    BY DEF ConfirmBooking
<1>3. book.rows[b].status # "none" /\ acts' = acts + 1 /\ phoneOnly
    BY DEF ConfirmBooking, Confirmable, Act
<1>4. BookOK(book) /\ Named(book) = Named(phone) /\ b \in Named(phone)
    BY <1>1, <1>3, KnownName
<1> HIDE DEF book, guess
<1>5. BookOK(phone') /\ Named(phone') = Named(phone) \cup {b}
    BY <1>2, <1>4, ConfirmedBook
<1>6. "confirm" \in Verbs /\ "confirm" # "create" /\ {} \in SUBSET Named(phone)
    BY DEF Verbs
<1> QED BY <1>2, <1>3, <1>4, <1>5, <1>6, Enqueuing

LEMMA StepCancel ==
    ASSUME StoryInv, NEW b \in Names, CancelBooking(b)
    PROVE  StoryInv'
<1> DEFINE book == Pruned(phone, now)
<1>1. BookOK(phone)
    BY DEF StoryInv, BooksOK
<1>2. /\ phone' = Cancelled(book, {b}) /\ queue' = Enqueue("cancel", b, {}, <<>>)
      /\ book.rows[b].status # "none" /\ acts' = acts + 1 /\ phoneOnly
    BY DEF CancelBooking, Act
<1>3. BookOK(book) /\ Named(book) = Named(phone) /\ b \in Named(phone)
    BY <1>1, <1>2, KnownName
<1> HIDE DEF book
<1>4. BookOK(phone') /\ Named(phone') = Named(phone) \cup {b}
    BY <1>2, <1>3, CancelledBook
<1>5. "cancel" \in Verbs /\ "cancel" # "create" /\ {} \in SUBSET Named(phone)
    BY DEF Verbs
<1> QED BY <1>2, <1>3, <1>4, <1>5, Enqueuing

LEMMA StepExtend ==
    ASSUME StoryInv, NEW b \in Names, NEW until, ExtendBooking(b, until)
    PROVE  StoryInv'
<1> DEFINE book == Pruned(phone, now)
<1>1. BookOK(phone)
    BY DEF StoryInv, BooksOK
<1>2. /\ phone' = Extended(book, b, until) /\ queue' = Enqueue("extend", b, {}, [until |-> until])
      /\ book.rows[b].status # "none" /\ acts' = acts + 1 /\ phoneOnly
    BY DEF ExtendBooking, Act
<1>3. BookOK(book) /\ Named(book) = Named(phone) /\ b \in Named(phone)
    BY <1>1, <1>2, KnownName
<1> HIDE DEF book
<1>4. BookOK(phone') /\ Named(phone') = Named(phone) \cup {b}
    BY <1>2, <1>3, ExtendedBook
<1>5. "extend" \in Verbs /\ "extend" # "create" /\ {} \in SUBSET Named(phone)
    BY DEF Verbs
<1> QED BY <1>2, <1>3, <1>4, <1>5, Enqueuing

LEMMA StepConvert ==
    ASSUME StoryInv, NEW b \in Names, ConvertBookingToJob(b)
    PROVE  StoryInv'
<1> DEFINE book == Pruned(phone, now)
           js == {b[1]}
<1>1. BookOK(phone)
    BY DEF StoryInv, BooksOK
<1>2. /\ phone' = [book EXCEPT !.jobs = @ \cup js] /\ queue' = Enqueue("convert", b, {}, <<>>)
      /\ book.rows[b].status # "none" /\ acts' = acts + 1 /\ phoneOnly
    BY DEF ConvertBookingToJob, Act
<1>3. BookOK(book) /\ Named(book) = Named(phone) /\ b \in Named(phone)
    BY <1>1, <1>2, KnownName
<1> HIDE DEF book, js
<1>4. BookOK(phone') /\ Named(phone') = Named(phone) \cup {b}
    BY <1>2, <1>3, JobBook
<1>5. "convert" \in Verbs /\ "convert" # "create" /\ {} \in SUBSET Named(phone)
    BY DEF Verbs
<1> QED BY <1>2, <1>3, <1>4, <1>5, Enqueuing

(* The sub-rent and the substitute name the booking they serve.            *)
LEMMA StepServing ==
    ASSUME StoryInv, NEW b \in Names, NEW until, NEW c \in ExtensionCollisions(phone, b, until),
           \/ NoteSubRent(b, c.booking)
           \/ \E unit : ReallocateReservation(c, unit, {b})
    PROVE  StoryInv'
<1>1. BookOK(phone)
    BY DEF StoryInv, BooksOK
<1>2. c \in phone.claims /\ c.booking \in Named(phone)
    BY <1>1, CollisionNamed
<1>3. b \in Named(phone)
    BY DEF ExtensionCollisions, Named
<1>4. {c.booking} \in SUBSET Named(phone) /\ {b} \in SUBSET Named(phone) /\ c.booking \in Names
    BY <1>2, <1>3 DEF Named
<1>5. CASE NoteSubRent(b, c.booking)
  <2>1. queue' = Enqueue("note", b, {c.booking}, <<>>) /\ acts' = acts + 1 /\ phoneOnly /\ phone' = phone
      BY <1>5 DEF NoteSubRent, Act
  <2>2. BookOK(phone') /\ Named(phone') = Named(phone) \cup {b}
      BY <1>1, <1>3, <2>1
  <2>3. "note" \in Verbs /\ "note" # "create"
      BY DEF Verbs
  <2> QED BY <1>3, <1>4, <2>1, <2>2, <2>3, Enqueuing
<1>6. CASE \E unit : ReallocateReservation(c, unit, {b})
  <2>0. PICK unit : ReallocateReservation(c, unit, {b})
      BY <1>6
  <2> DEFINE args == [line |-> c.line, unit |-> unit, guess |-> c.guess]
  <2>1. /\ queue' = Enqueue("reallocate", c.booking, {b}, args)
        /\ acts' = acts + 1 /\ phoneOnly /\ phone' = Moved(phone, c, unit)
      BY <2>0 DEF ReallocateReservation, Act
  <2> HIDE DEF args
  <2>2. BookOK(phone') /\ Named(phone') = Named(phone) \cup {c.booking}
      BY <1>1, <1>2, <2>1, MovedBook
  <2>3. "reallocate" \in Verbs /\ "reallocate" # "create"
      BY DEF Verbs
  <2> QED BY <1>2, <1>4, <2>1, <2>2, <2>3, Enqueuing
<1> QED BY <1>5, <1>6

LEMMA StepPhoneActs ==
    ASSUME StoryInv, PhoneActs
    PROVE  StoryInv'
<1>1. CASE \E b \in Mine : \E w \in Windows, lines \in Asks[b], status \in Statuses :
              CreateBooking(b, w, lines, status)
    BY <1>1, StepCreate
<1>2. CASE \E b \in Names : \E hold \in Holds(phone, b) : ConfirmBooking(b, hold)
    BY <1>2, StepConfirm
<1>3. CASE \E b \in Names : CancelBooking(b)
    BY <1>3, StepCancel
<1>4. CASE \E b \in Names : \E until \in Ends : ExtendBooking(b, until)
    BY <1>4, StepExtend
<1>5. CASE \E b \in Names : ConvertBookingToJob(b)
    BY <1>5, StepConvert
<1>6. CASE \E b \in Names : \E until \in Ends : \E c \in ExtensionCollisions(phone, b, until) :
                \/ NoteSubRent(b, c.booking)
                \/ \E unit \in Units : ReallocateReservation(c, unit, {b})
    BY <1>6, StepServing
<1> QED BY <1>1, <1>2, <1>3, <1>4, <1>5, <1>6 DEF PhoneActs

-----------------------------------------------------------------------------
LEMMA ToldNamed ==
    ASSUME NEW old, NEW new, BookOK(old), BookOK(new), Named(old) \subseteq Named(new)
    PROVE  Told(old, new).rows \subseteq Named(new)
<1> SUFFICES ASSUME NEW b \in Names, old.rows[b] # new.rows[b], b \notin Named(new) PROVE FALSE
    BY DEF Told
<1>1. b \notin Named(old)
    OBVIOUS
<1>2. old.rows[b] = NoRow /\ new.rows[b] = NoRow
    BY <1>1 DEF Named, BookOK
<1> QED BY <1>2

(* What a call leaves behind: its booking is named, and only a create's is *)
(* new; a create is never refused.                                         *)
Leaves(x, b) == /\ BookOK(x.book) /\ Named(x.book) = Named(server) \cup {b}
                /\ x.says \in {"ok", "declined"}

LEMMA OutcomesNamed ==
    ASSUME BookOK(server), NEW o, IsOp(o), o.op # "create" => OnServer(o.b) \in Named(server)
    PROVE  /\ \A x \in Outcomes(o) : Leaves(x, OnServer(o.b))
           /\ o.op = "create" => Outcomes(o) # {}
<1> DEFINE book == Pruned(server, now)
           b == OnServer(o.b)
           row == book.rows[b]
           Ok(books) == {[book |-> x, says |-> "ok"] : x \in books}
           guess == FALSE
<1>0. b \in Names /\ BookOK(book) /\ Named(book) = Named(server)
  <2>1. o.b \in Names
      BY DEF IsOp
  <2>2. b \in Names
      BY <2>1 DEF OnServer, Names
  <2> QED BY <2>2, PrunedBook
<1>1. ASSUME NEW books, \A y \in books : BookOK(y) /\ Named(y) = Named(server) \cup {b},
             NEW x \in Ok(books)
      PROVE  Leaves(x, b)
  <2>1. PICK y \in books : x = [book |-> y, says |-> "ok"]
      BY <1>1
  <2>2. x.book = y /\ x.says = "ok"
      BY <2>1
  <2> HIDE DEF b
  <2> QED BY <1>1, <2>2 DEF Leaves
<1> HIDE DEF guess, row
<1>2. CASE o.op = "create"
  <2>1. Outcomes(o) = Ok({Created(book, b, o.args.w, o.args.lines, o.args.status, now, guess)})
      BY <1>2 DEF Outcomes, guess
  <2>2. o.args.status # "none"
      BY <1>2 DEF IsOp
  <2> HIDE DEF book, b
  <2>3. \A y \in {Created(book, b, o.args.w, o.args.lines, o.args.status, now, guess)} :
            BookOK(y) /\ Named(y) = Named(server) \cup {b}
      BY <1>0, <2>2, CreatedBook
  <2>4. Outcomes(o) # {}
      BY <2>1
  <2> HIDE DEF Ok
  <2>5. \A x \in Outcomes(o) : Leaves(x, b)
      BY <1>1, <2>1, <2>3
  <2> QED BY <2>4, <2>5 DEF b
<1>3. CASE o.op # "create"
  <2>0. b \in Named(server) /\ Named(server) \cup {b} = Named(server)
      BY <1>3
  <2>1. CASE o.op = "confirm"
    <3> DEFINE books == IF Confirmable(book, b, o.args.hold)
                        THEN {Confirmed(book, b, o.args.hold, plan, guess) :
                                 plan \in ServerPlans(book, b, o.args.hold)}
                        ELSE {}
    <3>1. Outcomes(o) = Ok(books)
        BY <2>1 DEF Outcomes, guess
    <3> HIDE DEF book, b
    <3>2. \A y \in books : BookOK(y) /\ Named(y) = Named(server) \cup {b}
        BY <1>0, <2>0, ConfirmedBook
    <3> HIDE DEF Ok, books
    <3>3. \A x \in Outcomes(o) : Leaves(x, b)
        BY <1>1, <3>1, <3>2
    <3> QED BY <1>3, <3>3 DEF b
  <2>2. CASE o.op = "cancel"
    <3> DEFINE books == IF row.status # "cancelled" /\ b[1] \notin book.jobs
                        THEN {Cancelled(book, {b})} ELSE {}
    <3>1. Outcomes(o) = Ok(books)
        BY <2>2 DEF Outcomes, row
    <3> HIDE DEF book, b
    <3>2. \A y \in books : BookOK(y) /\ Named(y) = Named(server) \cup {b}
        BY <1>0, CancelledBook
    <3> HIDE DEF Ok, books
    <3>3. \A x \in Outcomes(o) : Leaves(x, b)
        BY <1>1, <3>1, <3>2
    <3> QED BY <1>3, <3>3 DEF b
  <2>3. CASE o.op = "extend"
    <3> DEFINE books == {y \in {Extended(book, b, o.args.until)} : ClashFree(y)}
               still == [book |-> book, says |-> "declined"]
    <3>1. Outcomes(o) = {} \/ Outcomes(o) = {still} \/ Outcomes(o) = Ok(books)
        BY <2>3 DEF Outcomes, row
    <3>2. still.book = book /\ still.says = "declined"
        OBVIOUS
    <3> HIDE DEF book, b, still
    <3>3. \A y \in books : BookOK(y) /\ Named(y) = Named(server) \cup {b}
        BY <1>0, <2>0, ExtendedBook
    <3>4. Leaves(still, b)
        BY <1>0, <2>0, <3>2 DEF Leaves
    <3> HIDE DEF Ok, books
    <3>5. \A x \in Outcomes(o) : Leaves(x, b)
        BY <1>1, <3>1, <3>3, <3>4
    <3> QED BY <1>3, <3>5 DEF b
  <2>4. CASE o.op = "note"
    <3> DEFINE books == IF row.status = "none" THEN {} ELSE {server}
    <3>1. Outcomes(o) = Ok(books)
        BY <2>4 DEF Outcomes, row
    <3> HIDE DEF book, b
    <3>2. \A y \in books : BookOK(y) /\ Named(y) = Named(server) \cup {b}
        BY <2>0
    <3> HIDE DEF Ok, books
    <3>3. \A x \in Outcomes(o) : Leaves(x, b)
        BY <1>1, <3>1, <3>2
    <3> QED BY <1>3, <3>3 DEF b
  <2>5. CASE o.op = "reallocate"
    <3> DEFINE books == {Moved(server, c, o.args.unit) :
                            c \in {d \in OfBooking(server, b) :
                                      /\ d.line = o.args.line /\ ~o.args.guess
                                      /\ ClashFree(Moved(server, d, o.args.unit))}}
    <3>1. Outcomes(o) = Ok(books)
        BY <2>5 DEF Outcomes
    <3> HIDE DEF book, b
    <3>2. \A y \in books : BookOK(y) /\ Named(y) = Named(server) \cup {b}
        BY <2>0, MovedBook DEF OfBooking
    <3> HIDE DEF Ok, books
    <3>3. \A x \in Outcomes(o) : Leaves(x, b)
        BY <1>1, <3>1, <3>2
    <3> QED BY <1>3, <3>3 DEF b
  <2>6. CASE o.op = "convert"
    <3> DEFINE books == IF row.status = "confirmed" /\ b[1] \notin book.jobs
                        THEN {[book EXCEPT !.jobs = @ \cup {b[1]}]} ELSE {}
    <3>1. Outcomes(o) = Ok(books)
        BY <2>6 DEF Outcomes, row
    <3>2. BookOK([book EXCEPT !.jobs = @ \cup {b[1]}])
          /\ Named([book EXCEPT !.jobs = @ \cup {b[1]}]) = Named(book)
      <4> DEFINE js == {b[1]}
      <4> HIDE DEF js, book
      <4> QED BY <1>0, JobBook DEF js
    <3> HIDE DEF book, b
    <3>3. \A y \in books : BookOK(y) /\ Named(y) = Named(server) \cup {b}
        BY <1>0, <2>0, <3>2
    <3> HIDE DEF Ok, books
    <3>4. \A x \in Outcomes(o) : Leaves(x, b)
        BY <1>1, <3>1, <3>3
    <3> QED BY <1>3, <3>4 DEF b
  <2>7. o.op \in Verbs
      BY DEF IsOp
  <2> QED BY <1>3, <2>1, <2>2, <2>3, <2>4, <2>5, <2>6, <2>7 DEF Verbs
<1> QED BY <1>2, <1>3

LEMMA HeadIsOldest ==
    ASSUME StoryInv, Live # {}
    PROVE  /\ Oldest(Ticket(First)) /\ IsOp(First) /\ Ticket(First) \in TicketSet
           /\ Ticket(First).n = First.n /\ Ticket(First).op = First.op /\ Ticket(First).b = First.b
<1>1. QueueOK
    BY DEF StoryInv, BooksOK
<1>2. /\ IsOp(First) /\ Ticket(First) \in Waiting
      /\ \A t \in Waiting : First.n <= t.n
    BY <1>1, FirstIsOldest
<1>3. Ticket(First).n = First.n /\ Ticket(First).op = First.op /\ Ticket(First).b = First.b
    BY DEF Ticket
<1>4. Ticket(First) \in TicketSet
    BY <1>1, <1>2, QueueFacts
<1> QED BY <1>2, <1>3, <1>4 DEF Oldest

(* An answer on its way is the head's.                                     *)
LEMMA AnswerIsHeads ==
    ASSUME StoryInv, answer # NoAnswer
    PROVE  Live # {} /\ First.n = answer.n
<1>1. PICK w : Oldest(w) /\ w.n = answer.n
    BY DEF StoryInv, AnswersOK
<1>2. Live # {}
    BY <1>1 DEF Oldest, Waiting, LiveOps
<1>3. w = Ticket(First)
    BY <1>1, <1>2, HeadIsOldest, OldestIsOne DEF StoryInv
<1> QED BY <1>1, <1>2, <1>3, HeadIsOldest

LEMMA HeadsBookingNamed ==
    ASSUME StoryInv, NEW h, Oldest(h), h.op # "create"
    PROVE  <<h.b[1], "server">> \in Named(server)
<1> USE DEF StoryInv
<1>1. h \in Waiting /\ h \in Tickets
    BY DEF Oldest, Tickets
<1>2. h.b \in Names
    BY <1>1, TicketsTyped
<1>3. h.b = <<h.b[1], h.b[2]>> /\ h.b[2] \in {"phone", "server"}
    BY <1>2, NameShape
<1>4. h.b \in Named(phone) \/ h.b[1] \in renamed
    BY <1>1 DEF NamesOK
<1>5. CASE h.b[1] \in renamed
  <2>1. <<h.b[1], "server">> \in Named(phone)
      BY <1>5 DEF NamesOK
  <2> QED BY <2>1 DEF NamesOK
<1>6. CASE h.b \in Named(phone) /\ h.b[2] = "server"
    BY <1>3, <1>6 DEF NamesOK
<1>7. CASE h.b \in Named(phone) /\ h.b[2] = "phone"
  <2>1. PICK c \in Waiting : c.op = "create" /\ \A t \in Tickets : t.b[1] = h.b[1] => c.n <= t.n
      BY <1>7 DEF NamesOK
  <2>2. c.n <= h.n /\ h.n <= c.n /\ c \in Tickets
      BY <1>1, <2>1 DEF Oldest, Tickets
  <2>3. c.n \in Nat /\ h.n \in Nat
      BY <1>1, <2>2, TicketsTyped
  <2>4. c = h
      BY <1>1, <2>2, <2>3 DEF TicketsOK
  <2> QED BY <2>1, <2>4
<1> QED BY <1>3, <1>4, <1>5, <1>6, <1>7

-----------------------------------------------------------------------------
LEMMA StepSend ==
    ASSUME StoryInv, Send
    PROVE  StoryInv'
<1> DEFINE h == Ticket(First)
<1>1. /\ Live # {} /\ answer = NoAnswer /\ Serve(First) /\ queue' = WithState(First.n, "inflight")
      /\ UNCHANGED <<phone, renamed, page, acts>>
    BY DEF Send
<1>2. /\ Oldest(h) /\ IsOp(First) /\ h \in TicketSet
      /\ h.n = First.n /\ h.op = First.op /\ h.b = First.b
    BY <1>1, HeadIsOldest
<1>3. BooksOK /\ AnswersOK /\ BookOK(server)
    BY DEF StoryInv, BooksOK
<1>4. QueueOK' /\ Waiting' = Waiting /\ Refused' = Refused
  <2>1. \E t \in Waiting : t.n = First.n
      BY <1>2 DEF Oldest
  <2>2. "inflight" \in {"pending", "inflight"}
      OBVIOUS
  <2> QED BY <1>1, <1>3, <2>1, <2>2, Restated DEF BooksOK
<1>5. h.op # "create" => OnServer(First.b) \in Named(server)
    BY <1>2, HeadsBookingNamed DEF OnServer
<1> DEFINE same == UNCHANGED <<server, receipts, news, landed>>
<1>6. \/ /\ \E r \in receipts : r.n = First.n
         /\ answer' = CHOOSE r \in receipts : r.n = First.n
         /\ same
      \/ /\ \A r \in receipts : r.n # First.n
         /\ Outcomes(First) = {} /\ answer' = [n |-> First.n, says |-> "refused"] /\ same
      \/ /\ \A r \in receipts : r.n # First.n
         /\ \E x \in Outcomes(First) :
               /\ server' = x.book /\ answer' = [n |-> First.n, says |-> x.says]
               /\ receipts' = receipts \cup {answer'}
               /\ news' = Both(news, Told(server, x.book))
               /\ landed' = landed \cup {First}
    BY <1>1 DEF Serve
<1>7. ASSUME same, answer' # NoAnswer, answer'.n = First.n,
             answer'.says \in {"ok", "declined"} => First.n \in Answered,
             answer'.says = "refused" => First.n \notin Answered /\ First.op # "create"
      PROVE  StoryInv'
  <2>1. Done' = Done
      BY <1>7 DEF Done
  <2>2. Answered' = Answered
      BY <1>7 DEF Answered
  <2>3. \A w \in Waiting : w.n = First.n => w = h
      BY <1>2 DEF StoryInv, TicketsOK, Tickets, Oldest
  <2>4. AnswersOK'
    <3>1. \A t : Oldest(t) => Oldest(t)'
        BY <1>4 DEF Oldest
    <3>2. \A r \in receipts' : r.says \in {"ok", "declined"}
        BY <1>3, <1>7 DEF AnswersOK
    <3>3. Answered' = {d.n : d \in Done'}
        BY <1>3, <2>1, <2>2 DEF AnswersOK
    <3>4. answer' # NoAnswer => \E w : Oldest(w)' /\ w.n = answer'.n
      <4>1. \E t : Oldest(t) /\ t.n = answer'.n
          BY <1>2, <1>7
      <4> QED BY <3>1, <4>1
    <3>5. answer'.says \in {"ok", "declined"} => answer'.n \in Answered'
        BY <1>7, <2>2
    <3>6. answer'.says = "refused" =>
            answer'.n \notin Answered' /\ \A w \in Waiting' : w.n = answer'.n => w.op # "create"
        BY <1>2, <1>4, <1>7, <2>2, <2>3
    <3> QED BY <3>2, <3>3, <3>4, <3>5, <3>6 DEF AnswersOK, NoAnswer
  <2>5. BooksOK'
      BY <1>1, <1>3, <1>4, <1>7 DEF BooksOK
  <2>6. UNCHANGED <<acts, renamed, receipts, phone, server, page, news>>
      BY <1>1, <1>7
  <2> HIDE DEF same
  <2>7. /\ Named(page.book) \subseteq Named(server) /\ page.rows \subseteq Named(page.book)
        /\ news.rows \subseteq Named(server)
      BY DEF StoryInv, NamesOK
  <2> QED BY <1>4, <2>1, <2>4, <2>5, <2>6, <2>7, Quiet
<1>8. CASE (\E r \in receipts : r.n = First.n)
           /\ answer' = (CHOOSE r \in receipts : r.n = First.n) /\ same
  <2>1. answer' \in receipts /\ answer'.n = First.n
      BY <1>8
  <2>2. answer'.says \in {"ok", "declined"} /\ First.n \in Answered
      BY <1>3, <2>1 DEF AnswersOK, Answered
  <2>3. answer' # NoAnswer /\ answer'.says # "refused"
      BY <2>2 DEF NoAnswer
  <2>4. same
      BY <1>8
  <2> HIDE DEF same
  <2> QED BY <1>7, <2>1, <2>2, <2>3, <2>4
<1>9. CASE /\ \A r \in receipts : r.n # First.n
           /\ Outcomes(First) = {} /\ answer' = [n |-> First.n, says |-> "refused"] /\ same
  <2>1. First.op # "create"
      BY <1>2, <1>3, <1>5, <1>9, OutcomesNamed
  <2>2. First.n \notin Answered
      BY <1>9 DEF Answered
  <2>3. answer'.n = First.n /\ answer'.says = "refused" /\ same
      BY <1>9
  <2>4. answer' # NoAnswer
      BY <2>3 DEF NoAnswer
  <2> HIDE DEF same
  <2> QED BY <1>7, <2>1, <2>2, <2>3, <2>4
<1>10. ASSUME \A r \in receipts : r.n # First.n,
              NEW x \in Outcomes(First), server' = x.book,
              answer' = [n |-> First.n, says |-> x.says], receipts' = receipts \cup {answer'},
              news' = Both(news, Told(server, x.book)), landed' = landed \cup {First}
       PROVE  StoryInv'
  <2>1. Leaves(x, OnServer(First.b))
      BY <1>2, <1>3, <1>5, OutcomesNamed
  <2>2. BookOK(server') /\ Named(server') = Named(server) \cup {OnServer(First.b)}
        /\ x.says \in {"ok", "declined"}
      BY <1>10, <2>1 DEF Leaves
  <2>3. answer'.n = h.n /\ answer'.says \in {"ok", "declined"}
      BY <1>2, <1>10, <2>2
  <2>4. answer' # NoAnswer
      BY <2>3 DEF NoAnswer
  <2>5. h.n \notin Answered
      BY <1>2, <1>10 DEF Answered
  <2>6. Answered' = Answered \cup {h.n}
      BY <1>10, <2>3 DEF Answered
  <2>7. \A r \in receipts' : r.says \in {"ok", "declined"}
      BY <1>3, <1>10, <2>3 DEF AnswersOK
  <2>8. Done' = Done \cup {h}
      BY <1>10 DEF Done
  <2>9. Named(server') = Named(server)
                         \cup (IF h.op = "create" THEN {<<h.b[1], "server">>} ELSE {})
      BY <1>2, <1>5, <2>2 DEF OnServer
  <2>10. news'.rows \subseteq Named(server')
    <3>1. Told(server, server').rows \subseteq Named(server')
        BY <1>3, <2>2, ToldNamed
    <3>2. news'.rows = news.rows \cup Told(server, server').rows
        BY <1>10 DEF Both
    <3>3. news.rows \subseteq Named(server)
        BY DEF StoryInv, NamesOK
    <3> QED BY <2>2, <3>1, <3>2, <3>3
  <2>11. BooksOK'
      BY <1>1, <1>2, <1>3, <1>4, <1>10, <2>2 DEF BooksOK
  <2>12. UNCHANGED <<acts, renamed, phone, page>>
      BY <1>1
  <2> HIDE DEF h
  <2> QED BY <1>2, <1>4, <2>3, <2>4, <2>5, <2>6, <2>7, <2>8, <2>9, <2>10, <2>11, <2>12, Landed
<1> HIDE DEF same
<1> QED BY <1>6, <1>8, <1>9, <1>10

LEMMA RenamedBook ==
    ASSUME BookOK(phone), NEW x \in Bookings, <<x, "phone">> \in Named(phone)
    PROVE  /\ BookOK(Renamed(x))
           /\ Named(Renamed(x)) = (Named(phone) \ {<<x, "phone">>}) \cup {<<x, "server">>}
<1> DEFINE old == <<x, "phone">>
           new == <<x, "server">>
           Call(c) == IF c.booking = old THEN [c EXCEPT !.booking = new] ELSE c
           claims == {Call(c) : c \in phone.claims}
           rows == [phone.rows EXCEPT ![new] = phone.rows[old], ![old] = NoRow]
           after == [phone EXCEPT !.rows = rows, !.claims = claims]
<1>1. Renamed(x) = after
    BY DEF Renamed
<1>2. old \in Names /\ new \in Names /\ old # new
    BY DEF Names
<1>3. \A c \in claims : IsClaim(c)
  <2> SUFFICES ASSUME NEW c \in phone.claims PROVE IsClaim(Call(c))
      OBVIOUS
  <2>1. IsClaim(c)
      BY DEF BookOK
  <2>2. CASE c.booking # old
      BY <2>1, <2>2
  <2>3. CASE c.booking = old
    <3>1. DOMAIN c = ClaimParts
        BY <2>1 DEF IsClaim
    <3> DEFINE d == [c EXCEPT !.booking = new]
    <3>2. DOMAIN d = ClaimParts /\ d.booking = new
        BY <3>1 DEF ClaimParts
    <3> HIDE DEF d
    <3>3. IsClaim(d)
        BY <1>2, <3>2 DEF IsClaim
    <3> QED BY <2>3, <3>3 DEF d
  <2> QED BY <2>2, <2>3
<1>4. /\ DOMAIN phone = BookParts /\ DOMAIN phone.rows = Names
      /\ \A b \in Names : /\ DOMAIN phone.rows[b] = RowParts
                          /\ phone.rows[b].status = "none" => phone.rows[b] = NoRow
    BY DEF BookOK
<1>5. /\ DOMAIN rows = Names /\ rows[new] = phone.rows[old] /\ rows[old] = NoRow
      /\ \A b \in Names : b # old /\ b # new => rows[b] = phone.rows[b]
  <2> HIDE DEF old, new
  <2> QED BY <1>2, <1>4
<1> HIDE DEF claims, rows, old, new
<1>6. DOMAIN after = BookParts /\ after.rows = rows /\ after.claims = claims
    BY <1>4 DEF BookParts
<1> HIDE DEF after
<1>7. NoRow.status = "none" /\ DOMAIN NoRow = RowParts
    BY DEF NoRow, RowParts
<1>8. BookOK(after)
  <2>1. \A b \in Names : /\ DOMAIN rows[b] = RowParts
                         /\ rows[b].status = "none" => rows[b] = NoRow
    <3> SUFFICES ASSUME NEW b \in Names
                 PROVE  DOMAIN rows[b] = RowParts /\ (rows[b].status = "none" => rows[b] = NoRow)
        OBVIOUS
    <3>1. CASE b = old
        BY <1>5, <1>7, <3>1
    <3>2. CASE b = new
        BY <1>2, <1>4, <1>5, <3>2
    <3>3. CASE b # old /\ b # new
        BY <1>4, <1>5, <3>3
    <3> QED BY <3>1, <3>2, <3>3
  <2> QED BY <1>3, <1>5, <1>6, <2>1 DEF BookOK
<1>9. Named(after) = (Named(phone) \ {old}) \cup {new}
  <2>1. phone.rows[old].status # "none"
      BY DEF Named, old
  <2>2. \A b \in Names : rows[b].status # "none" <=>
            b = new \/ (b # old /\ phone.rows[b].status # "none")
    <3> SUFFICES ASSUME NEW b \in Names
                 PROVE  rows[b].status # "none" <=>
                            b = new \/ (b # old /\ phone.rows[b].status # "none")
        OBVIOUS
    <3>1. CASE b = old
        BY <1>2, <1>5, <1>7, <3>1
    <3>2. CASE b = new
        BY <1>5, <2>1, <3>2
    <3>3. CASE b # old /\ b # new
        BY <1>5, <3>3
    <3> QED BY <3>1, <3>2, <3>3
  <2> QED BY <1>2, <1>6, <2>2 DEF Named
<1> QED BY <1>1, <1>8, <1>9 DEF old, new

LEMMA StepAnswerArrives ==
    ASSUME StoryInv, AnswerArrives
    PROVE  StoryInv'
<1> DEFINE h == Ticket(First)
           x == First.b[1]
<1>1. /\ answer.says \in {"ok", "declined"} /\ ~Collides
      /\ queue' = RemoveAt(queue, Min(Live)) /\ answer' = NoAnswer
      /\ IF First.op = "create"
         THEN phone' = Renamed(x) /\ renamed' = renamed \cup {x}
         ELSE UNCHANGED <<phone, renamed>>
      /\ UNCHANGED <<server, receipts, news, page, acts, landed>>
    BY DEF AnswerArrives
<1>2. answer # NoAnswer
    BY <1>1 DEF NoAnswer
<1>3. Live # {} /\ First.n = answer.n
    BY <1>2, AnswerIsHeads
<1>4. /\ Oldest(h) /\ IsOp(First) /\ h \in TicketSet
      /\ h.n = First.n /\ h.op = First.op /\ h.b = First.b
    BY <1>3, HeadIsOldest
<1>5. BooksOK /\ BookOK(phone)
    BY DEF StoryInv, BooksOK
<1>6. h.n \in Answered
    BY <1>1, <1>3, <1>4 DEF StoryInv, AnswersOK
<1>7. QueueOK' /\ Waiting' = Waiting \ {h} /\ Refused' = Refused
    BY <1>1, <1>3, <1>5, HeadLeft DEF BooksOK
<1>8. Done' = Done
    BY <1>1 DEF Done
<1>9. h.op = "create" => /\ h.b = <<x, "phone">> /\ h.b \in Named(phone)
                         /\ x \in Mine /\ x \in Bookings
                         /\ <<x, "server">> \notin Named(phone)
  <2> SUFFICES ASSUME h.op = "create"
               PROVE  /\ h.b = <<x, "phone">> /\ h.b \in Named(phone)
                      /\ x \in Mine /\ x \in Bookings
                      /\ <<x, "server">> \notin Named(phone)
      OBVIOUS
  <2>1. h \in Waiting /\ h.b \in Names
      BY <1>4 DEF Oldest, TicketSet
  <2>2. h.b[2] = "phone" /\ h.b \in Named(phone)
      BY <2>1 DEF StoryInv, CreatesOK
  <2>3. h.b = <<x, "phone">>
      BY <1>4, <2>1, <2>2, NameShape
  <2>4. x \in Mine
      BY <1>4, <2>2 DEF StoryInv, NamesOK
  <2>5. <<x, "server">> \notin Named(phone)
      BY <1>1, <1>4 DEF Collides, Known, Named
  <2> QED BY <2>2, <2>3, <2>4, <2>5
<1>10. /\ BookOK(phone')
       /\ IF h.op = "create"
          THEN /\ renamed' = renamed \cup {h.b[1]}
               /\ Named(phone') = (Named(phone) \ {h.b}) \cup {<<h.b[1], "server">>}
          ELSE renamed' = renamed /\ Named(phone') = Named(phone)
  <2>1. CASE h.op = "create"
    <3>1. phone' = Renamed(x) /\ renamed' = renamed \cup {x} /\ h.b[1] = x
        BY <1>1, <1>4, <2>1
    <3>2. BookOK(Renamed(x))
          /\ Named(Renamed(x)) = (Named(phone) \ {<<x, "phone">>}) \cup {<<x, "server">>}
        BY <1>5, <1>9, <2>1, RenamedBook
    <3> HIDE DEF x, h
    <3> QED BY <1>9, <2>1, <3>1, <3>2
  <2>2. CASE h.op # "create"
      BY <1>1, <1>4, <1>5, <2>2
  <2> QED BY <2>1, <2>2
<1>11. BooksOK'
  <2>1. renamed' \in SUBSET Mine
      BY <1>4, <1>5, <1>9, <1>10 DEF BooksOK
  <2> QED BY <1>1, <1>5, <1>7, <1>10, <2>1 DEF BooksOK
<1>12. h.op = "create" => <<h.b[1], "server">> \notin Named(phone)
    BY <1>4, <1>9
<1> HIDE DEF h
<1> QED BY <1>1, <1>4, <1>6, <1>7, <1>8, <1>10, <1>11, <1>12, Heard

LEMMA StepAnswerRefuses ==
    ASSUME StoryInv, AnswerRefuses
    PROVE  StoryInv'
<1> DEFINE h == Ticket(First)
           fallen == Cascade(answer.n)
<1>1. /\ answer.says = "refused" /\ answer' = NoAnswer
      /\ queue' = [i \in DOMAIN queue |-> IF queue[i].n \in fallen
                      THEN [queue[i] EXCEPT !.state = "failed"] ELSE queue[i]]
      /\ UNCHANGED <<phone, server, renamed, receipts, news, page, acts, landed>>
    BY DEF AnswerRefuses
<1>2. answer # NoAnswer
    BY <1>1 DEF NoAnswer
<1>3. Live # {} /\ First.n = answer.n
    BY <1>2, AnswerIsHeads
<1>4. Oldest(h) /\ h.n = answer.n
    BY <1>3, HeadIsOldest
<1>5. h.op # "create" /\ h.n \notin Answered
    BY <1>1, <1>4 DEF StoryInv, AnswersOK, Oldest
<1>6. BooksOK
    BY DEF StoryInv
<1>7. fallen \in SUBSET Unsent
    BY DEF Cascade
<1> HIDE DEF fallen
<1>8. QueueOK' /\ Waiting' = {t \in Waiting : t.n \notin fallen}
      /\ Refused' = Refused \cup {t \in Waiting : t.n \in fallen}
    BY <1>1, <1>6, <1>7, SubtreeParks DEF BooksOK
<1>9. Done' = Done
    BY <1>1 DEF Done
<1>10. BooksOK'
    BY <1>1, <1>6, <1>8 DEF BooksOK
<1>11. fallen = Cascade(h.n)
    BY <1>4 DEF fallen
<1> HIDE DEF h
<1> QED BY <1>1, <1>4, <1>5, <1>8, <1>9, <1>10, <1>11, Parked

LEMMA StepAnswerLost ==
    ASSUME StoryInv, AnswerLost
    PROVE  StoryInv'
<1>1. /\ answer # NoAnswer /\ answer' = NoAnswer /\ queue' = WithState(answer.n, "pending")
      /\ UNCHANGED <<phone, server, renamed, receipts, news, page, acts, landed>>
    BY DEF AnswerLost
<1>2. BooksOK /\ AnswersOK
    BY DEF StoryInv
<1>3. \E t \in Waiting : t.n = answer.n
    BY <1>1, <1>2 DEF AnswersOK, Oldest
<1>4. QueueOK' /\ Waiting' = Waiting /\ Refused' = Refused
  <2>1. "pending" \in {"pending", "inflight"}
      OBVIOUS
  <2> QED BY <1>1, <1>2, <1>3, <2>1, Restated DEF BooksOK
<1>5. Done' = Done /\ BooksOK'
  <2>1. Done' = Done
      BY <1>1 DEF Done
  <2> QED BY <1>1, <1>2, <1>4, <2>1 DEF BooksOK
<1>6. AnswersOK'
    BY <1>1, <1>2, <1>5 DEF AnswersOK, NoAnswer, Answered
<1>7. /\ Named(page.book) \subseteq Named(server) /\ page.rows \subseteq Named(page.book)
      /\ news.rows \subseteq Named(server)
    BY DEF StoryInv, NamesOK
<1> QED BY <1>1, <1>4, <1>5, <1>6, <1>7, Quiet

(* Steps that leave the queue, the answer and the names renamed alone.     *)
LEMMA Idle ==
    ASSUME StoryInv, UNCHANGED <<queue, landed, answer, acts, renamed, receipts>>,
           BookOK(phone'), BookOK(server'), BookOK(page'.book),
           Named(phone) \subseteq Named(phone'), Named(server) \subseteq Named(server'),
           \A y \in Named(phone') \ Named(phone) : y[2] = "server" /\ y \in Named(server'),
           \A y \in Named(server') \ Named(server) : y[2] = "server" /\ y[1] \notin Mine,
           Named(page'.book) \subseteq Named(server'), page'.rows \subseteq Named(page'.book),
           news'.rows \subseteq Named(server')
    PROVE  StoryInv'
<1>1. Waiting' = Waiting /\ Refused' = Refused /\ Done' = Done /\ Answered' = Answered
    BY DEF Waiting, Refused, Done, LiveOps, FailedOps, Live, Answered
<1>2. BooksOK'
    BY DEF StoryInv, BooksOK, QueueOK
<1>3. AnswersOK'
    BY <1>1 DEF StoryInv, AnswersOK, Oldest
<1> QED BY <1>1, <1>2, <1>3, Quiet

LEMMA StepCycleEnds ==
    ASSUME StoryInv, CycleEnds \/ Tick \/ UNCHANGED vars
    PROVE  StoryInv'
<1>1. UNCHANGED <<queue, landed, answer, acts, renamed, receipts, phone, server, page, news>>
    BY DEF CycleEnds, Tick, vars
<1>2. BookOK(phone) /\ BookOK(server) /\ BookOK(page.book)
    BY DEF StoryInv, BooksOK
<1>3. /\ Named(page.book) \subseteq Named(server) /\ page.rows \subseteq Named(page.book)
      /\ news.rows \subseteq Named(server)
    BY DEF StoryInv, NamesOK
<1> QED BY <1>1, <1>2, <1>3, Idle

LEMMA StepAskPage ==
    ASSUME StoryInv, AskPage
    PROVE  StoryInv'
<1>1. /\ UNCHANGED <<queue, landed, answer, acts, renamed, receipts, phone, server>>
      /\ page' = [rows |-> news.rows, lines |-> news.lines, jobs |-> news.jobs, book |-> server]
      /\ news' = NoNews
    BY DEF AskPage
<1>2. page'.rows = news.rows /\ page'.book = server /\ news'.rows = {}
    BY <1>1 DEF NoNews
<1>3. BookOK(phone) /\ BookOK(server)
    BY DEF StoryInv, BooksOK
<1>4. news.rows \subseteq Named(server)
    BY DEF StoryInv, NamesOK
<1> QED BY <1>1, <1>2, <1>3, <1>4, Idle

LEMMA StepPageLost ==
    ASSUME StoryInv, PageLost
    PROVE  StoryInv'
<1>1. /\ UNCHANGED <<queue, landed, answer, acts, renamed, receipts, phone, server>>
      /\ page' = NoPage
      /\ news' = Both(news, [rows |-> page.rows, lines |-> page.lines, jobs |-> page.jobs])
    BY DEF PageLost
<1>2. page'.rows = {} /\ page'.book = EmptyBook /\ news'.rows = news.rows \cup page.rows
    BY <1>1 DEF NoPage, Both
<1>3. BookOK(phone) /\ BookOK(server)
    BY DEF StoryInv, BooksOK
<1>4. news.rows \subseteq Named(server) /\ page.rows \subseteq Named(server)
    BY DEF StoryInv, NamesOK
<1> QED BY <1>1, <1>2, <1>3, <1>4, EmptyNamed, Idle

LEMMA StepApplyPage ==
    ASSUME StoryInv, ApplyPage
    PROVE  StoryInv'
<1> DEFINE rows == [b \in Names |-> IF b \in page.rows THEN page.book.rows[b] ELSE phone.rows[b]]
           after == [rows |-> rows, claims |-> WithClaims(page), jobs |-> phone.jobs \cup page.jobs]
<1>1. /\ UNCHANGED <<queue, landed, answer, acts, renamed, receipts, server, news>>
      /\ page' = NoPage /\ phone' = after
    BY DEF ApplyPage
<1>2. page'.rows = {} /\ page'.book = EmptyBook
    BY <1>1 DEF NoPage
<1>3. BookOK(phone) /\ BookOK(server) /\ BookOK(page.book)
    BY DEF StoryInv, BooksOK
<1>4. /\ page.rows \subseteq Named(page.book) /\ Named(page.book) \subseteq Named(server)
      /\ news.rows \subseteq Named(server)
      /\ \A y \in Named(server) : y[2] = "server"
    BY DEF StoryInv, NamesOK
<1>5. DOMAIN after = BookParts /\ after.rows = rows /\ after.claims = WithClaims(page)
    BY DEF BookParts
<1>6. /\ DOMAIN rows = Names
      /\ \A b \in Names : rows[b] = IF b \in page.rows THEN page.book.rows[b] ELSE phone.rows[b]
    OBVIOUS
<1>7. \A c \in WithClaims(page) : c \in phone.claims \/ c \in page.book.claims
    BY DEF WithClaims
<1> HIDE DEF after, rows
<1>8. BookOK(after)
    BY <1>3, <1>5, <1>6, <1>7 DEF BookOK
<1>9. Named(after) = Named(phone) \cup page.rows
    BY <1>4, <1>5, <1>6 DEF Named
<1> QED BY <1>1, <1>2, <1>3, <1>4, <1>8, <1>9, EmptyNamed, Idle

LEMMA RivalStep ==
    ASSUME StoryInv, NEW r \in Rivals, NEW book, NEW why, Rival(book, why), BookOK(book),
           Named(server) \subseteq Named(book), Named(book) \subseteq Named(server) \cup {<<r, "server">>}
    PROVE  StoryInv'
<1>1. /\ UNCHANGED <<queue, landed, answer, acts, renamed, receipts, phone, page>>
      /\ server' = book /\ news' = Both(news, Told(server, book))
    BY DEF Rival
<1>2. BookOK(phone) /\ BookOK(server) /\ BookOK(page.book)
    BY DEF StoryInv, BooksOK
<1>3. /\ Named(page.book) \subseteq Named(server) /\ page.rows \subseteq Named(page.book)
      /\ news.rows \subseteq Named(server)
    BY DEF StoryInv, NamesOK
<1>4. news'.rows \subseteq Named(server')
  <2>1. Told(server, book).rows \subseteq Named(book)
      BY <1>2, ToldNamed
  <2>2. news'.rows = news.rows \cup Told(server, book).rows
      BY <1>1 DEF Both
  <2> QED BY <1>1, <1>3, <2>1, <2>2
<1>5. \A y \in Named(server') \ Named(server) : y[2] = "server" /\ y[1] \notin Mine
    BY <1>1 DEF Rivals
<1> QED BY <1>1, <1>2, <1>3, <1>4, <1>5, Idle

LEMMA StepRivalActs ==
    ASSUME StoryInv, RivalActs
    PROVE  StoryInv'
<1> DEFINE book == Pruned(server, now)
           guess == FALSE
<1>1. PICK r \in Rivals :
         LET b == <<r, "server">>
         IN \/ /\ book.rows[b].status = "none"
               /\ \E w \in Windows, lines \in Asks[r] :
                     Rival(Created(book, b, w, lines, "pencil", now, guess), {})
            \/ /\ Confirmable(book, b, HeldWindow(book.rows[b]))
               /\ \E plan \in ServerPlans(book, b, HeldWindow(book.rows[b])) :
                     Rival(Confirmed(book, b, HeldWindow(book.rows[b]), plan, guess), {"rival"})
            \/ /\ book.rows[b].status \notin {"none", "cancelled"}
               /\ Rival(Cancelled(book, {b}), {"rival"})
    BY DEF RivalActs
<1> DEFINE b == <<r, "server">>
           hold == HeldWindow(book.rows[b])
<1>2. b \in Names
    BY DEF Rivals, Names
<1>3. BookOK(server)
    BY DEF StoryInv, BooksOK
<1>4. BookOK(book) /\ Named(book) = Named(server)
    BY <1>3, PrunedBook
<1>5. book.rows[b].status # "none" => b \in Named(book)
    BY <1>2 DEF Named
<1>6. \/ \E w, lines : Rival(Created(book, b, w, lines, "pencil", now, guess), {})
      \/ /\ book.rows[b].status # "none"
         /\ \E plan : Rival(Confirmed(book, b, hold, plan, guess), {"rival"})
      \/ Rival(Cancelled(book, {b}), {"rival"})
    BY <1>1 DEF Confirmable
<1>7. b = <<r, "server">>
    OBVIOUS
<1> HIDE DEF book, guess, b, hold
<1>8. CASE \E w, lines : Rival(Created(book, b, w, lines, "pencil", now, guess), {})
  <2>1. PICK w, lines : Rival(Created(book, b, w, lines, "pencil", now, guess), {})
      BY <1>8
  <2> DEFINE after == Created(book, b, w, lines, "pencil", now, guess)
  <2>2. BookOK(after) /\ Named(after) = Named(server) \cup {b}
      BY <1>2, <1>4, CreatedBook
  <2>3. Rival(after, {})
      BY <2>1
  <2> HIDE DEF after
  <2> QED BY <1>7, <2>2, <2>3, RivalStep
<1>9. CASE /\ book.rows[b].status # "none"
           /\ \E plan : Rival(Confirmed(book, b, hold, plan, guess), {"rival"})
  <2>1. PICK plan : Rival(Confirmed(book, b, hold, plan, guess), {"rival"})
      BY <1>9
  <2> DEFINE after == Confirmed(book, b, hold, plan, guess)
  <2>2. BookOK(after) /\ Named(after) = Named(server)
      BY <1>2, <1>4, <1>5, <1>9, ConfirmedBook
  <2>3. Rival(after, {"rival"})
      BY <2>1
  <2> HIDE DEF after
  <2> QED BY <1>7, <2>2, <2>3, RivalStep
<1>10. CASE Rival(Cancelled(book, {b}), {"rival"})
  <2> DEFINE after == Cancelled(book, {b})
  <2>2. BookOK(after) /\ Named(after) = Named(server) \cup {b}
      BY <1>2, <1>4, CancelledBook
  <2>3. Rival(after, {"rival"})
      BY <1>10
  <2> HIDE DEF after
  <2> QED BY <1>7, <2>2, <2>3, RivalStep
<1> QED BY <1>6, <1>8, <1>9, <1>10

-----------------------------------------------------------------------------
LEMMA StoryBegins == Init => StoryInv
<1> SUFFICES ASSUME Init PROVE StoryInv
    OBVIOUS
<1>1. /\ phone = EmptyBook /\ server = EmptyBook /\ queue = <<>> /\ renamed = {}
      /\ receipts = {} /\ answer = NoAnswer /\ news.rows = {} /\ page.rows = {}
      /\ page.book = EmptyBook /\ acts = 0 /\ landed = {}
    BY DEF Init, NoNews, NoPage
<1>2. Live = {} /\ LiveOps = {} /\ FailedOps = {}
    BY <1>1 DEF Live, LiveOps, FailedOps
<1>3. Waiting = {} /\ Refused = {} /\ Done = {} /\ Tickets = {} /\ Answered = {}
    BY <1>1, <1>2 DEF Waiting, Refused, Done, Tickets, Answered
<1>4. Named(phone) = {} /\ Named(server) = {} /\ Named(page.book) = {}
      /\ BookOK(phone) /\ BookOK(server) /\ BookOK(page.book)
    BY <1>1, EmptyNamed
<1>5. BooksOK
  <2>1. QueueOK
      BY <1>1 DEF QueueOK
  <2> QED BY <1>1, <1>4, <2>1 DEF BooksOK
<1>6. TicketsOK /\ ChainOK /\ KnewOK /\ StoryOK
    BY <1>3 DEF TicketsOK, ChainOK, KnewOK, StoryOK
<1>7. AnswersOK
    BY <1>1, <1>3 DEF AnswersOK, NoAnswer
<1>8. NamesOK /\ CreatesOK
    BY <1>1, <1>3, <1>4 DEF NamesOK, CreatesOK
<1> QED BY <1>5, <1>6, <1>7, <1>8 DEF StoryInv

LEMMA StoryGoesOn == StoryInv /\ [Next]_vars => StoryInv'
<1> SUFFICES ASSUME StoryInv, [Next]_vars PROVE StoryInv'
    OBVIOUS
<1>1. CASE PhoneActs
    BY <1>1, StepPhoneActs
<1>2. CASE RivalActs
    BY <1>2, StepRivalActs
<1>3. CASE Send
    BY <1>3, StepSend
<1>4. CASE AnswerArrives
    BY <1>4, StepAnswerArrives
<1>5. CASE AnswerRefuses
    BY <1>5, StepAnswerRefuses
<1>6. CASE AnswerLost
    BY <1>6, StepAnswerLost
<1>7. CASE AskPage
    BY <1>7, StepAskPage
<1>8. CASE ApplyPage
    BY <1>8, StepApplyPage
<1>9. CASE PageLost
    BY <1>9, StepPageLost
<1>10. CASE CycleEnds \/ Tick \/ UNCHANGED vars
    BY <1>10, StepCycleEnds
<1> QED BY <1>1, <1>2, <1>3, <1>4, <1>5, <1>6, <1>7, <1>8, <1>9, <1>10 DEF Next

(* What the tickets tell of the ops themselves.                            *)
LEMMA StoryOfOps == StoryInv => RefusalEndsTheStory
<1> SUFFICES ASSUME StoryInv, NEW f \in FailedOps, NEW o \in landed,
                    o.b[1] = f.b[1], o.n > f.n
             PROVE  f.n \in o.knew \/ Helped(f.b[1], f.n, o.n)
    BY DEF RefusalEndsTheStory
<1>1. Ticket(f) \in Refused /\ Ticket(o) \in Done
    BY DEF Refused, Done
<1>2. /\ Ticket(f).n = f.n /\ Ticket(f).b = f.b
      /\ Ticket(o).n = o.n /\ Ticket(o).b = o.b /\ Ticket(o).knew = o.knew
    BY DEF Ticket
<1>3. Ticket(f).n \in Nat /\ Ticket(o).n \in Nat
    BY <1>1, TicketsTyped DEF StoryInv, Tickets
<1>4. Ticket(f).n < Ticket(o).n
    BY <1>2, <1>3
<1>5. f.n \in o.knew \/ HelpedBetween(f.b[1], f.n, o.n)
  <2> DEFINE r == Ticket(f)  d == Ticket(o)
  <2>1. r.n \in d.knew \/ HelpedBetween(r.b[1], r.n, d.n)
    <3> HIDE DEF r, d
    <3>1. r \in Refused /\ d \in Done /\ r.b[1] = d.b[1] /\ r.n < d.n
        BY <1>1, <1>2, <1>4 DEF r, d
    <3> QED BY <3>1 DEF StoryInv, StoryOK
  <2> QED BY <1>2, <2>1
<1>6. HelpedBetween(f.b[1], f.n, o.n) => Helped(f.b[1], f.n, o.n)
  <2> SUFFICES ASSUME HelpedBetween(f.b[1], f.n, o.n) PROVE Helped(f.b[1], f.n, o.n)
      OBVIOUS
  <2>1. PICK s \in Tickets : /\ f.n < s.n /\ s.n < o.n /\ s.b[1] # f.b[1]
                             /\ \E y \in s.serves : y[1] = f.b[1]
      BY DEF HelpedBetween
  <2>2. PICK p \in landed \cup LiveOps \cup FailedOps : s = Ticket(p)
      BY DEF Tickets, Waiting, Refused, Done
  <2>3. p.n = s.n /\ p.b = s.b /\ p.serves = s.serves
      BY <2>2 DEF Ticket
  <2> QED BY <2>1, <2>2, <2>3 DEF Helped
<1> QED BY <1>5, <1>6

(* After a refusal nothing the desk did to that booking before it heard of *)
(* it is done, unless another booking's sub-rent or substitute came        *)
(* between: enqueue's chain and markFailed's cascade (bookings.ts,         *)
(* queue.ts), whatever the server, its answers' losses and its pages do.   *)
THEOREM RefusalsEndStories == Spec => []RefusalEndsTheStory
<1>1. Init => StoryInv
    BY StoryBegins
<1>2. StoryInv /\ [Next]_vars => StoryInv'
    BY StoryGoesOn
<1>3. StoryInv => RefusalEndsTheStory
    BY StoryOfOps
<1> QED BY <1>1, <1>2, <1>3, PTL DEF Spec
=============================================================================
