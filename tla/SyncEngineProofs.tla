-------------------------- MODULE SyncEngineProofs --------------------------
(***************************************************************************)
(* What holds of the flush for every number of ops, calls, items and       *)
(* sessions: types, parents first, at most once, nothing lost; then what a *)
(* refusal costs, and that the phone keeps ExactlyOnce.  Then what holds   *)
(* of the cursor pull: its types, its invariant, never backwards.          *)
(***************************************************************************)
EXTENDS SyncEngine, CursorPull, FiniteSetTheorems, TLAPS

USE DEF Ops, NoOp

(* Every write of the queue keeps its rows well formed. *)

LEMMA EnqueueType ==
    ASSUME OutboxTypeOK, NEW k \in Kinds, NEW d \in 0..MaxOps, Enqueue(k, d)
    PROVE  /\ state' \in [Ops -> RowState]
           /\ kind' \in [Ops -> Kinds \cup {"none"}]
           /\ dep' \in [Ops -> 0..MaxOps]
           /\ backingOff' \subseteq Ops
           /\ lastSeq' \in 0..MaxOps
           /\ lastSeq + 1 \in Ops
BY OutboxAssumption DEF OutboxTypeOK, Enqueue, RowState

LEMMA PersonType == TypeOK /\ Person => TypeOK'
<1> SUFFICES ASSUME TypeOK, Person PROVE TypeOK'
    OBVIOUS
<1> USE DEF TypeOK
<1>1. UNCHANGED <<serverVars, todo>>
    BY DEF Person
<1>2. ServerTypeOK' /\ (todo \subseteq SUBSET Ops)'
    BY <1>1 DEF ServerTypeOK, serverVars
<1>3. OutboxTypeOK'
  <2>1. ASSUME NEW a \in Assets, NEW e \in Events, Scan(a, e) PROVE OutboxTypeOK'
    <3>1. lastOp[a] \in 0..MaxOps
        BY DEF OutboxTypeOK
    <3> QED BY <2>1, <3>1, EnqueueType DEF OutboxTypeOK, Scan
  <2>2. CASE ScanUnresolved
    <3>1. NoOp \in 0..MaxOps
        BY OutboxAssumption
    <3> QED BY <2>2, <3>1, EnqueueType DEF OutboxTypeOK, ScanUnresolved, sessionVars
  <2>3. ASSUME NEW o \in Ops, VoidScan(o) PROVE OutboxTypeOK'
    <3>1. o \in 0..MaxOps
        OBVIOUS
    <3> QED BY <2>3, <3>1, EnqueueType DEF OutboxTypeOK, VoidScan, sessionVars
  <2>4. CASE EnqueueOp
    <3>1. PICK d \in {NoOp} \cup {o \in Queued : kind[o] = "rpc"} : Enqueue("rpc", d)
        BY <2>4 DEF EnqueueOp
    <3>2. d \in 0..MaxOps
        BY OutboxAssumption DEF Queued
    <3> QED BY <2>4, <3>1, <3>2, EnqueueType DEF OutboxTypeOK, EnqueueOp, sessionVars
  <2>5. CASE NewSession
    BY <2>5, OutboxAssumption DEF OutboxTypeOK, NewSession, outboxVars
  <2>6. ASSUME NEW o \in Ops, DismissCard(o) PROVE OutboxTypeOK'
    BY <2>6 DEF OutboxTypeOK, DismissCard, sessionVars, RowState
  <2>7. ASSUME NEW o \in Ops, BackoffElapses(o) PROVE OutboxTypeOK'
    BY <2>7 DEF OutboxTypeOK, BackoffElapses, sessionVars
  <2> QED BY <2>1, <2>2, <2>3, <2>4, <2>5, <2>6, <2>7 DEF Person
<1> QED BY <1>2, <1>3

(* What the phone and the server make of a call is a call. *)

LEMMA IdleCallType == IdleCall \in Call
BY OutboxAssumption DEF IdleCall, Call, CallStep

LEMMA AnsweredType ==
    ASSUME ServerTypeOK, NEW s \in Slots, NEW t \in CallStep, NEW c \in 0..MaxOps
    PROVE  Answered(s, t, c) \in Call
<1>1. calls[s] \in Call
    BY DEF ServerTypeOK
<1> QED BY <1>1, IdleCallType DEF Answered, Call

LEMMA AbandonedType ==
    ASSUME ServerTypeOK, NEW s \in Slots
    PROVE  Abandoned(s) \in Call
<1>1. calls[s] \in Call
    BY DEF ServerTypeOK
<1> QED BY <1>1, IdleCallType DEF Abandoned, Call

THEOREM TypeCorrect == Spec => []TypeOK
<1>1. Init => TypeOK
    BY OutboxAssumption, IdleCallType DEF Init, TypeOK, OutboxInit, OutboxTypeOK, RowState,
       ServerInit, ServerTypeOK
<1>2. TypeOK /\ [Next]_vars => TypeOK'
  <2> SUFFICES ASSUME TypeOK, [Next]_vars PROVE TypeOK'
      OBVIOUS
  <2>1. CASE Person
      BY <2>1, PersonType
  <2>2. CASE Phone
    <3>1. CASE StartFlush
      <4>1. Segments(NextBatch) \subseteq SUBSET Ops
          BY DEF Segments, SegmentOf, NextBatch, Queued
      <4> QED BY <2>2, <3>1, <4>1 DEF TypeOK, StartFlush, OutboxTypeOK, ServerTypeOK,
                 outboxVars, sessionVars, serverVars
    <3>2. CASE SendNext
      <4>1. PICK S \in todo :
              /\ todo' = todo \ {S}
              /\ IF Live(S) = {}
                 THEN UNCHANGED <<outboxVars, serverVars>>
                 ELSE /\ MarkInflight(Live(S))
                      /\ \E s \in Slots : calls' = [calls EXCEPT ![s] =
                            [IdleCall EXCEPT !.step = "sent", !.ops = Live(S), !.open = TRUE]]
                      /\ UNCHANGED <<effects, session>>
          BY <3>2 DEF SendNext
      <4>2. [IdleCall EXCEPT !.step = "sent", !.ops = Live(S), !.open = TRUE] \in Call
          BY IdleCallType DEF Live, Queued, Call, CallStep
      <4>3. ServerTypeOK'
          BY <4>1, <4>2 DEF TypeOK, ServerTypeOK, serverVars
      <4>4. OutboxTypeOK'
          BY <3>2, <4>1 DEF TypeOK, SendNext, OutboxTypeOK, MarkInflight, RowState,
             outboxVars, sessionVars
      <4> QED BY <4>1, <4>3, <4>4 DEF TypeOK
    <3>3. ASSUME NEW s \in Slots, ReceiveAnswer(s) PROVE TypeOK'
      <4>1. OutboxTypeOK'
          BY <3>3 DEF TypeOK, ReceiveAnswer, OutboxTypeOK, Ack, RowState, sessionVars
      <4>2. ServerTypeOK'
          BY <3>3, IdleCallType DEF TypeOK, ReceiveAnswer, ServerTypeOK, HangUp
      <4> QED BY <3>3, <4>1, <4>2 DEF TypeOK, ReceiveAnswer
    <3>4. ASSUME NEW s \in Slots, ReceiveVerdict(s) PROVE TypeOK'
      <4>1. OutboxTypeOK'
          BY <3>4 DEF TypeOK, ReceiveVerdict, OutboxTypeOK, Fail, RowState,
             outboxVars, sessionVars
      <4>2. ServerTypeOK'
          BY <3>4, IdleCallType DEF TypeOK, ReceiveVerdict, ServerTypeOK, HangUp
      <4>3. calls[s].ops \subseteq Ops
          BY DEF TypeOK, ServerTypeOK, Call
      <4>4. (todo \subseteq SUBSET Ops)'
        <5>1. FirstHalf(calls[s].ops) \subseteq calls[s].ops
            BY DEF FirstHalf
        <5>2. \A S \in todo' : S \in todo \/ S \subseteq calls[s].ops
            BY <3>4, <5>1 DEF ReceiveVerdict
        <5>3. \A S \in todo : S \subseteq Ops
            BY DEF TypeOK
        <5> QED BY <4>3, <5>2, <5>3
      <4> QED BY <4>1, <4>2, <4>4 DEF TypeOK
    <3> QED BY <2>2, <3>1, <3>2, <3>3, <3>4 DEF Phone
  <2>3. CASE Outage
    <3>1. ASSUME NEW s \in Slots, ReceiveNothing(s) PROVE TypeOK'
      <4>1. OutboxTypeOK'
          BY <3>1 DEF TypeOK, ReceiveNothing, OutboxTypeOK, RetryLater, RowState,
             Present, Queued, Parked, sessionVars
      <4>2. ServerTypeOK'
          BY <3>1, AbandonedType DEF TypeOK, ReceiveNothing, ServerTypeOK
      <4> QED BY <3>1, <4>1, <4>2 DEF TypeOK, ReceiveNothing
    <3>2. ASSUME NEW s \in Slots, CallLost(s), UNCHANGED <<outboxVars, sessionVars, todo>>
          PROVE  TypeOK'
      <4>1. Answered(s, "lost", NoOp) \in Call
          BY AnsweredType, OutboxAssumption DEF TypeOK, CallStep
      <4> QED BY <3>2, <4>1 DEF TypeOK, CallLost, OutboxTypeOK, ServerTypeOK,
                 outboxVars, sessionVars
    <3>3. CASE Crash
      <4>1. \A s \in Slots : Abandoned(s) \in Call
          BY AbandonedType DEF TypeOK
      <4>2. ServerTypeOK'
          BY <3>3, <4>1 DEF TypeOK, Crash, ServerTypeOK
      <4> QED BY <3>3, <4>2, OutboxAssumption DEF TypeOK, Crash, OutboxTypeOK, outboxVars
    <3> QED BY <2>3, <3>1, <3>2, <3>3 DEF Outage
  <2>4. CASE Server
    <3>1. ASSUME NEW s \in Slots, ServerBegin(s) PROVE ServerTypeOK'
      <4>1. calls[s] \in Call
          BY DEF TypeOK, ServerTypeOK
      <4>2. [calls[s] EXCEPT !.step = "running", !.dups = calls[s].ops \cap Landed] \in Call
          BY <4>1 DEF Call, CallStep
      <4>3. \A c \in 0..MaxOps : Answered(s, "refused", c) \in Call
          BY AnsweredType DEF TypeOK, CallStep
      <4>4. Refused(calls[s].ops) \subseteq 0..MaxOps
          BY <4>1 DEF Refused, Call
      <4>5. CASE Refused(calls[s].ops) = {}
          BY <3>1, <4>2, <4>5 DEF TypeOK, ServerTypeOK, ServerBegin
      <4>6. CASE Refused(calls[s].ops) # {}
        <5>1. PICK named \in {NoOp} \cup Refused(calls[s].ops) :
                calls' = [calls EXCEPT ![s] = Answered(s, "refused", named)]
            BY <3>1, <4>6 DEF ServerBegin
        <5>2. named \in 0..MaxOps
            BY <4>4, OutboxAssumption
        <5> QED BY <3>1, <4>3, <5>1, <5>2 DEF TypeOK, ServerTypeOK, ServerBegin
      <4> QED BY <4>5, <4>6
    <3>2. ASSUME NEW s \in Slots, ServerTurnsAway(s) PROVE ServerTypeOK'
      <4>1. Answered(s, "refused", NoOp) \in Call
          BY AnsweredType, OutboxAssumption DEF TypeOK, CallStep
      <4> QED BY <3>2, <4>1 DEF TypeOK, ServerTurnsAway, ServerTypeOK
    <3>3. ASSUME NEW s \in Slots, ServerCommit(s) PROVE ServerTypeOK'
      <4>1. Answered(s, "refused", NoOp) \in Call /\ Answered(s, "done", NoOp) \in Call
          BY AnsweredType, OutboxAssumption DEF TypeOK, CallStep
      <4>2. effects' \in [Ops -> Nat]
          BY <3>3 DEF TypeOK, ServerTypeOK, ServerCommit
      <4> QED BY <3>3, <4>1, <4>2 DEF TypeOK, ServerTypeOK, ServerCommit
    <3>4. ServerTypeOK'
      BY <2>4, <3>1, <3>2, <3>3 DEF Server
    <3> QED BY <2>4, <3>4 DEF TypeOK, Server, OutboxTypeOK, outboxVars, sessionVars
  <2>5. CASE Environment
    BY <2>5, ServerAssumption DEF TypeOK, Environment, SessionChanges, OutboxTypeOK,
       ServerTypeOK, outboxVars, sessionVars
  <2>6. CASE UNCHANGED vars
    BY <2>6 DEF TypeOK, vars, OutboxTypeOK, ServerTypeOK
  <2> QED BY <2>1, <2>2, <2>3, <2>4, <2>5, <2>6 DEF Next
<1> QED BY <1>1, <1>2, PTL DEF Spec

-----------------------------------------------------------------------------
(* At most once: a commit bumps only what no committed call has bumped. *)

(* THEOREM AtMostOnceSafe: the server applies an op's effect at most once,  *)
(* for every number of ops and of calls running at the same time.           *)
THEOREM AtMostOnceSafe == Spec => []AtMostOnce
<1>1. Init => AtMostOnce
    BY DEF Init, ServerInit, AtMostOnce
<1>2. TypeOK /\ AtMostOnce /\ [Next]_vars => AtMostOnce'
  <2> SUFFICES ASSUME TypeOK, AtMostOnce, [Next]_vars PROVE AtMostOnce'
      OBVIOUS
  <2>1. ASSUME NEW s \in Slots, ServerCommit(s) PROVE AtMostOnce'
    <3>1. \A o \in Ops : effects[o] \in Nat /\ effects[o] <= 1
        BY DEF AtMostOnce, TypeOK, ServerTypeOK
    <3>2. CASE Clash(s) = {}
      <4>1. \A o \in calls[s].ops \ calls[s].dups : o \in Ops => effects[o] = 0
          BY <3>1, <3>2 DEF Clash, Landed
      <4> QED BY <2>1, <3>1, <3>2, <4>1 DEF ServerCommit, AtMostOnce
    <3>3. CASE Clash(s) # {}
        BY <2>1, <3>3 DEF ServerCommit, AtMostOnce
    <3> QED BY <3>2, <3>3
  <2>2. effects' = effects => AtMostOnce'
      BY DEF AtMostOnce
  <2>3. CASE Person
      BY <2>2, <2>3 DEF Person, serverVars
  <2>4. CASE Phone
      BY <2>2, <2>4 DEF Phone, StartFlush, SendNext, ReceiveAnswer, ReceiveVerdict, serverVars
  <2>5. CASE Outage
      BY <2>2, <2>5 DEF Outage, ReceiveNothing, CallLost, Crash
  <2>6. CASE Server
      BY <2>1, <2>2, <2>6 DEF Server, ServerBegin, ServerTurnsAway
  <2>7. CASE Environment
      BY <2>2, <2>7 DEF Environment, SessionChanges
  <2>8. CASE UNCHANGED vars
      BY <2>2, <2>8 DEF vars
  <2> QED BY <2>1, <2>3, <2>4, <2>5, <2>6, <2>7, <2>8 DEF Next
<1> QED BY <1>1, <1>2, TypeCorrect, PTL DEF Spec

-----------------------------------------------------------------------------
(* How a batch is cut. *)

(* Two different segments of a batch do not overlap: one lies before the    *)
(* other, because a run of scans with a desk op in the middle is two runs.  *)
LEMMA SegmentsInOrder ==
    ASSUME NEW B \in SUBSET Ops, NEW a \in B, NEW b \in B, a < b,
           SegmentOf(a, B) # SegmentOf(b, B)
    PROVE  Before(SegmentOf(a, B), SegmentOf(b, B))
<1> B \subseteq Int
    BY OutboxAssumption
<1> SUFFICES ASSUME NEW x \in SegmentOf(a, B), NEW y \in SegmentOf(b, B), ~(x < y)
             PROVE  FALSE
    BY DEF Before
<1>1. x \in B /\ y \in B /\ y <= x
    BY DEF SegmentOf
<1>2. CASE kind[a] = "rpc"
    BY <1>1, <1>2 DEF SegmentOf
<1>3. CASE kind[b] = "rpc"
    BY <1>1, <1>3 DEF SegmentOf
<1>4. CASE kind[a] # "rpc" /\ kind[b] # "rpc"
  <2>1. \A q \in B : (a <= q /\ q <= x) \/ (x <= q /\ q <= a) => kind[q] # "rpc"
      BY <1>4 DEF SegmentOf
  <2>2. \A q \in B : (b <= q /\ q <= y) \/ (y <= q /\ q <= b) => kind[q] # "rpc"
      BY <1>4 DEF SegmentOf
  <2>3. \A q \in B : a <= q /\ q <= b => kind[q] # "rpc"
      BY <1>1, <2>1, <2>2
  <2>4. \A p \in B : p \in SegmentOf(a, B) <=> p \in SegmentOf(b, B)
      BY <1>4, <2>3 DEF SegmentOf
  <2>5. SegmentOf(a, B) \subseteq B /\ SegmentOf(b, B) \subseteq B
      BY DEF SegmentOf
  <2> QED BY <2>4, <2>5
<1> QED BY <1>2, <1>3, <1>4

(* The halves bisection resends keep the order of the refused sub-batch. *)
LEMMA HalvesInOrder ==
    ASSUME NEW S \in SUBSET Ops
    PROVE  /\ FirstHalf(S) \subseteq S
           /\ Before(FirstHalf(S), S \ FirstHalf(S))
<1> S \subseteq Int
    BY OutboxAssumption
<1>1. IsFiniteSet(S)
  <2>1. MaxOps \in Int /\ 1 \in Int
      BY OutboxAssumption
  <2>2. IsFiniteSet(Ops)
      BY <2>1, FS_Interval
  <2> QED BY <2>2, FS_Subset
<1>2. \A o \in S, p \in S : p <= o => Rank(p, S) <= Rank(o, S)
  <2> SUFFICES ASSUME NEW o \in S, NEW p \in S, p <= o PROVE Rank(p, S) <= Rank(o, S)
      OBVIOUS
  <2>1. IsFiniteSet({q \in S : q <= o})
      BY <1>1, FS_Subset
  <2>2. {q \in S : q <= p} \in SUBSET {q \in S : q <= o}
    <3>1. \A q \in S : q <= p => q <= o
        OBVIOUS
    <3> QED BY <3>1
  <2>3. Cardinality({q \in S : q <= p}) <= Cardinality({q \in S : q <= o})
      BY <2>1, <2>2, FS_Subset
  <2> QED BY <2>3 DEF Rank
<1>3. \A o \in S : Rank(o, S) \in Nat
  <2>1. \A o \in S : IsFiniteSet({q \in S : q <= o})
      BY <1>1, FS_Subset
  <2> QED BY <2>1, FS_CardinalityType DEF Rank
<1>4. Cardinality(S) \in Nat
    BY <1>1, FS_CardinalityType
<1> QED BY <1>2, <1>3, <1>4 DEF FirstHalf, Before

(* fail takes what is chained behind the refused row. *)
LEMMA CascadeClosed ==
    ASSUME NEW r \in Ops
    PROVE  /\ r \in Cascade(r)
           /\ \A c \in Present : dep[c] \in Cascade(r) => c \in Cascade(r)
<1>1. Present \subseteq Ops
    BY DEF Present, Queued, Parked
<1> QED BY <1>1 DEF Cascade, ClosureIn, ClosedIn

-----------------------------------------------------------------------------
(* The inductive invariant, action by action. *)

LEMMA RowsAreBorn == TypeOK /\ RowsInv => Present \subseteq Born
BY DEF TypeOK, OutboxTypeOK, RowsInv, Present, Queued, Parked, Born

LEMMA InHandIsBorn == CallsInv /\ TodoInv => InHand \subseteq Born
BY DEF InHand, CallsInv, TodoInv, Open

(* A row recorded behind any earlier row disturbs nothing in hand. *)
LEMMA EnqueueSafe ==
    ASSUME TypeOK, IInv, NEW k \in Kinds, NEW d \in 0..lastSeq, Enqueue(k, d),
           UNCHANGED <<serverVars, todo>>,
           \A a \in Assets : lastOp'[a] <= lastSeq'
    PROVE  IInv'
<1> DEFINE n == lastSeq + 1
<1>1. n \in Ops /\ d < n /\ lastSeq' = n /\ lastSeq \in Nat
    BY OutboxAssumption DEF TypeOK, OutboxTypeOK, Enqueue
<1>2. /\ state'[n] = "pending" /\ dep'[n] = d
      /\ \A o \in Ops \ {n} : state'[o] = state[o] /\ dep'[o] = dep[o]
    BY <1>1 DEF TypeOK, OutboxTypeOK, Enqueue
<1>3. state[n] = "unborn" /\ n \notin Born
    BY <1>1 DEF IInv, RowsInv, Born
<1>4. UNCHANGED <<calls, effects, todo, Landed, Open, InHand>>
    BY DEF serverVars, Landed, Open, InHand
<1>5. Queued' = Queued \cup {n} /\ Parked' = Parked /\ Born' = Born \cup {n}
  <2>1. \A o \in Ops : o \in Queued' <=> o \in Queued \/ o = n
      BY <1>1, <1>2 DEF Queued
  <2>2. \A o \in Ops : o \in Parked' <=> o \in Parked
      BY <1>1, <1>2, <1>3 DEF Parked
  <2>3. Born' = Born \cup {n}
      BY <1>1 DEF Born
  <2> QED BY <1>1, <2>1, <2>2, <2>3 DEF Queued, Parked
<1>6. \A e \in Ops : Gone(e) => Gone(e)'
    BY <1>2, <1>3, <1>4 DEF Gone
<1>7. RowsInv'
  <2>1. \A o \in Ops : (state[o] = "unborn" <=> lastSeq < o) /\ dep[o] < o
      BY DEF IInv, RowsInv
  <2>2. \A o \in Ops : (state'[o] = "unborn" <=> lastSeq' < o)
      BY <1>1, <1>2, <2>1
  <2>3. \A o \in Ops : dep'[o] < o
      BY <1>1, <1>2, <2>1
  <2>4. (Landed \subseteq Born)'
      BY <1>4, <1>5 DEF IInv, RowsInv
  <2> QED BY <2>2, <2>3, <2>4 DEF RowsInv
<1>8. CallsInv'
    BY <1>4, <1>5 DEF IInv, CallsInv
<1>9. TodoInv'
    BY <1>4, <1>5 DEF IInv, TodoInv, Before
<1>10. ASSUME Naming = FALSE PROVE (ParentsInCalls /\ ParentsInHand /\ ParentFirst)'
  <2>1. \A o \in Born : o \in Ops /\ dep'[o] = dep[o] /\ dep[o] \in 0..MaxOps
    <3>1. Born \subseteq Ops \ {n}
        BY <1>1, <1>3, OutboxAssumption DEF Born
    <3>2. \A o \in Ops : dep[o] \in 0..MaxOps
        BY DEF TypeOK, OutboxTypeOK
    <3> QED BY <1>2, <3>1, <3>2
  <2>2. InHand \subseteq Born
      BY InHandIsBorn DEF IInv
  <2>3. ParentsInCalls'
    <3>1. \A s \in Slots : calls[s].ops \subseteq Born
        BY DEF IInv, CallsInv
    <3> QED BY <1>4, <1>6, <1>10, <2>1, <3>1 DEF IInv, ParentsInCalls
  <2>4. ParentsInHand'
    <3>1. (InHand \cap Queued)' = InHand \cap Queued
        BY <1>3, <1>4, <1>5, <2>2
    <3>2. InHand \cap Queued \subseteq Born
        BY <2>2
    <3> QED BY <1>4, <1>5, <1>6, <1>10, <2>1, <3>1, <3>2 DEF IInv, ParentsInHand
  <2>5. ParentFirst'
    <3>1. Landed \subseteq Born
        BY DEF IInv, RowsInv
    <3> QED BY <1>4, <1>6, <1>10, <2>1, <3>1 DEF IInv, ParentFirst, Gone
  <2> QED BY <2>3, <2>4, <2>5
<1> QED BY <1>7, <1>8, <1>9, <1>10 DEF IInv

(* A step that changes only the phone's memory of the session. *)
LEMMA MemorySafe ==
    ASSUME TypeOK, IInv, UNCHANGED <<state, dep, lastSeq, calls, effects, todo>>,
           \A a \in Assets : lastOp'[a] <= lastSeq
    PROVE  IInv'
<1>1. UNCHANGED <<Landed, Open, InHand, Queued, Parked, Born>>
    BY DEF Landed, Open, InHand, Queued, Parked, Born
<1>2. \A d : Gone(d)' <=> Gone(d)
    BY <1>1 DEF Gone
<1>3. RowsInv' /\ CallsInv' /\ TodoInv'
    BY <1>1 DEF IInv, RowsInv, CallsInv, TodoInv, Before
<1>4. Naming = FALSE => (ParentsInCalls /\ ParentsInHand /\ ParentFirst)'
    BY <1>1, <1>2 DEF IInv, ParentsInCalls, ParentsInHand, ParentFirst
<1> QED BY <1>3, <1>4 DEF IInv

(* Settling rows that have one, and letting go of calls, is safe for the   *)
(* rows, the calls and what has landed; what is in hand is left to show.   *)
LetGo ==
    \A s \in Slots : \/ calls'[s] = calls[s]
                     \/ calls'[s] = IdleCall
                     \/ calls'[s] = [calls[s] EXCEPT !.open = FALSE]

LEMMA ReleaseSafe ==
    ASSUME TypeOK, IInv, LetGo, UNCHANGED <<dep, lastSeq, effects>>,
           \A a \in Assets : lastOp'[a] <= lastSeq,
           \A o \in Ops : state'[o] # state[o] => o \in Present /\ state'[o] # "unborn",
           \A s \in Open' : calls[s].ops \subseteq Queued'
    PROVE  /\ RowsInv' /\ CallsInv'
           /\ Open' \subseteq Open
           /\ \A s \in Open' : calls'[s] = calls[s]
           /\ \A d \in Ops : Gone(d) => Gone(d)'
           /\ Naming = FALSE => ParentsInCalls' /\ ParentFirst'
<1>1. \A s \in Slots : calls[s] \in Call
    BY DEF TypeOK, ServerTypeOK
<1>2. \A s \in Slots :
        /\ calls'[s].open => calls'[s] = calls[s] /\ calls[s].open
        /\ calls'[s].ops = calls[s].ops \/ calls'[s].ops = {}
        /\ calls'[s].dups = calls[s].dups \/ calls'[s].dups = {}
        /\ calls'[s].culprit = calls[s].culprit \/ calls'[s].culprit = NoOp
        /\ calls'[s].step = "done" =>
             calls[s].step = "done" /\ calls'[s].ops = calls[s].ops
  <2> SUFFICES ASSUME NEW s \in Slots
               PROVE  /\ calls'[s].open => calls'[s] = calls[s] /\ calls[s].open
                      /\ calls'[s].ops = calls[s].ops \/ calls'[s].ops = {}
                      /\ calls'[s].dups = calls[s].dups \/ calls'[s].dups = {}
                      /\ calls'[s].culprit = calls[s].culprit \/ calls'[s].culprit = NoOp
                      /\ calls'[s].step = "done" =>
                           calls[s].step = "done" /\ calls'[s].ops = calls[s].ops
      OBVIOUS
  <2>1. CASE calls'[s] = calls[s]
      BY <2>1
  <2>2. CASE calls'[s] = IdleCall
      BY <2>2 DEF IdleCall
  <2>3. CASE calls'[s] = [calls[s] EXCEPT !.open = FALSE]
      BY <1>1, <2>3 DEF Call
  <2> QED BY <2>1, <2>2, <2>3 DEF LetGo
<1>3. Landed' = Landed /\ Born' = Born
    BY DEF Landed, Born
<1>4. \A d \in Ops : Gone(d) => Gone(d)'
    BY <1>3 DEF Gone, Present, Queued, Parked
<1>5. RowsInv'
  <2>1. \A o \in Ops : (state[o] = "unborn" <=> lastSeq < o) /\ dep[o] < o
      BY DEF IInv, RowsInv
  <2>2. \A o \in Ops : state'[o] = "unborn" <=> state[o] = "unborn"
      BY DEF Present, Queued, Parked
  <2> QED BY <1>3, <2>1, <2>2 DEF IInv, RowsInv
<1>6. Open' \subseteq Open /\ \A s \in Open' : calls'[s] = calls[s]
    BY <1>2 DEF Open
<1>7. CallsInv'
  <2>1. ASSUME NEW s \in Slots
        PROVE  /\ calls'[s].ops \subseteq Born
               /\ calls'[s].dups \subseteq Landed
               /\ calls'[s].step = "done" => calls'[s].ops \subseteq Landed
               /\ calls'[s].culprit # NoOp => Naming
      BY <1>2 DEF IInv, CallsInv
  <2>2. \A s \in Slots : calls'[s].open => calls'[s].ops \subseteq Queued'
      BY <1>2 DEF Open
  <2>3. \A s, t \in Open' : s = t
      BY <1>6 DEF IInv, CallsInv
  <2> QED BY <1>3, <2>1, <2>2, <2>3 DEF CallsInv
<1>8. \A o \in Ops : dep[o] \in 0..MaxOps
    BY DEF TypeOK, OutboxTypeOK
<1>9. ASSUME Naming = FALSE PROVE ParentsInCalls'
  <2>1. \A s \in Slots : calls[s].ops \subseteq Ops
      BY <1>1 DEF Call
  <2> QED BY <1>2, <1>4, <1>8, <1>9, <2>1 DEF IInv, ParentsInCalls
<1>10. ASSUME Naming = FALSE PROVE ParentFirst'
    BY <1>3, <1>4, <1>8, <1>10 DEF IInv, ParentFirst, Gone, Landed
<1> QED BY <1>4, <1>5, <1>6, <1>7, <1>9, <1>10

(* What is left in hand after such a step, when no row in hand loses its    *)
(* parent by it.                                                            *)
LEMMA InHandSafe ==
    ASSUME TypeOK, IInv, Naming = FALSE, dep' = dep,
           Queued' \subseteq Queued, InHand' \subseteq InHand,
           \A d \in Ops : Gone(d) => Gone(d)',
           \A o \in InHand' \cap Queued' : dep[o] # NoOp =>
              /\ dep[o] \in Parked' => dep[o] \in Parked
              /\ dep[o] \in InHand => dep[o] \in InHand' \/ Gone(dep[o])'
    PROVE  ParentsInHand'
<1>1. \A o \in Ops : dep[o] \in 0..MaxOps
    BY DEF TypeOK, OutboxTypeOK
<1>2. InHand \subseteq Ops
    BY DEF InHand
<1> QED BY <1>1, <1>2 DEF IInv, ParentsInHand

LEMMA DismissSafe ==
    ASSUME TypeOK, IInv, NEW o \in Ops, DismissCard(o), UNCHANGED <<serverVars, todo>>
    PROVE  IInv'
<1>1. Doomed(o) \subseteq Parked
    BY DEF Doomed
<1>2. \A p \in Ops : state'[p] # state[p] => p \in Parked /\ state'[p] = "gone"
    BY <1>1 DEF DismissCard
<1>3. Queued' = Queued /\ Parked' \subseteq Parked
    BY <1>2 DEF Queued, Parked
<1>4. UNCHANGED <<dep, lastSeq, lastOp, calls, effects, todo, Open, InHand, Born, Landed>>
    BY DEF DismissCard, sessionVars, serverVars, Open, InHand, Born, Landed
<1>5. \A a \in Assets : lastOp'[a] <= lastSeq
    BY <1>4 DEF IInv, RowsInv
<1>6. \A s \in Open' : calls[s].ops \subseteq Queued'
    BY <1>3, <1>4 DEF IInv, CallsInv, Open
<1>7. /\ RowsInv' /\ CallsInv'
      /\ \A d \in Ops : Gone(d) => Gone(d)'
      /\ Naming = FALSE => ParentsInCalls' /\ ParentFirst'
    BY <1>2, <1>4, <1>5, <1>6, ReleaseSafe DEF LetGo, Present
<1>8. TodoInv'
    BY <1>4 DEF IInv, TodoInv, Before
<1>9. Naming = FALSE => ParentsInHand'
    BY <1>3, <1>4, <1>7, InHandSafe
<1> QED BY <1>7, <1>8, <1>9 DEF IInv

LEMMA PersonSafe == TypeOK /\ IInv /\ Person => IInv'
<1> SUFFICES ASSUME TypeOK, IInv, Person PROVE IInv'
    OBVIOUS
<1>1. UNCHANGED <<serverVars, todo>>
    BY DEF Person
<1>2. lastSeq \in Nat /\ \A a \in Assets : lastOp[a] \in 0..MaxOps /\ lastOp[a] <= lastSeq
    BY OutboxAssumption DEF TypeOK, OutboxTypeOK, IInv, RowsInv
<1>3. Present \subseteq 0..lastSeq
    BY RowsAreBorn DEF IInv, Born
<1>4. ASSUME NEW a \in Assets, NEW e \in Events, Scan(a, e) PROVE IInv'
  <2>1. lastOp[a] \in 0..lastSeq
      BY <1>2
  <2>2. \A b \in Assets : lastOp'[b] <= lastSeq'
      BY <1>2, <1>4 DEF Scan, Enqueue, TypeOK, OutboxTypeOK
  <2> QED BY <1>1, <1>4, <2>1, <2>2, EnqueueSafe DEF Scan
<1>5. CASE ScanUnresolved
  <2>1. NoOp \in 0..lastSeq
      BY <1>2
  <2>2. \A b \in Assets : lastOp'[b] <= lastSeq'
      BY <1>2, <1>5 DEF ScanUnresolved, Enqueue, sessionVars
  <2> QED BY <1>1, <1>5, <2>1, <2>2, EnqueueSafe DEF ScanUnresolved
<1>6. ASSUME NEW o \in Ops, VoidScan(o) PROVE IInv'
  <2>1. o \in 0..lastSeq
      BY <1>3, <1>6 DEF VoidScan
  <2>2. \A b \in Assets : lastOp'[b] <= lastSeq'
      BY <1>2, <1>6 DEF VoidScan, Enqueue, sessionVars
  <2> QED BY <1>1, <1>6, <2>1, <2>2, EnqueueSafe DEF VoidScan
<1>7. CASE EnqueueOp
  <2>1. PICK d \in {NoOp} \cup {o \in Queued : kind[o] = "rpc"} : Enqueue("rpc", d)
      BY <1>7 DEF EnqueueOp
  <2>2. d \in 0..lastSeq
      BY <1>2, <1>3 DEF Present
  <2>3. \A b \in Assets : lastOp'[b] <= lastSeq'
      BY <1>2, <1>7, <2>1 DEF EnqueueOp, Enqueue, sessionVars
  <2> QED BY <1>1, <1>7, <2>1, <2>2, <2>3, EnqueueSafe DEF EnqueueOp
<1>8. CASE NewSession
  <2>1. \A a \in Assets : lastOp'[a] <= lastSeq
      BY <1>2, <1>8 DEF NewSession
  <2> QED BY <1>1, <1>8, <2>1, MemorySafe DEF NewSession, outboxVars, serverVars
<1>9. ASSUME NEW o \in Ops, DismissCard(o) PROVE IInv'
    BY <1>1, <1>9, DismissSafe
<1>10. ASSUME NEW o \in Ops, BackoffElapses(o) PROVE IInv'
    BY <1>1, <1>2, <1>10, MemorySafe DEF BackoffElapses, sessionVars, serverVars
<1> QED BY <1>4, <1>5, <1>6, <1>7, <1>8, <1>9, <1>10 DEF Person

(* The next batch holds the parent of every row it holds, or the parent has *)
(* left the phone; and cutting it puts every row of it in some segment.     *)
LEMMA NextBatchHoldsParents ==
    ASSUME TypeOK, IInv, NEW o \in NextBatch, dep[o] # NoOp
    PROVE  /\ dep[o] \notin Parked
           /\ dep[o] \in NextBatch \/ Gone(dep[o])
<1> DEFINE d == dep[o]
<1>1. o \in Queued /\ o \in Ops /\ d \in Ops /\ d < o
    BY DEF NextBatch, Queued, TypeOK, OutboxTypeOK, IInv, RowsInv
<1>2. o \in UpTo(o) /\ Ready(o)
    BY <1>1 DEF NextBatch, UpTo
<1>3. CASE d \in UpTo(o)
  <2>1. d \in Queued
      BY <1>3 DEF UpTo
  <2>2. UpTo(d) \in SUBSET UpTo(o)
    <3>1. \A p \in Ops : p <= d => p <= o
        BY <1>1
    <3> QED BY <3>1 DEF UpTo, Queued
  <2>3. IsFiniteSet(UpTo(o))
    <3>1. MaxOps \in Int /\ 1 \in Int
        BY OutboxAssumption
    <3>2. IsFiniteSet(Ops)
        BY <3>1, FS_Interval
    <3>3. UpTo(o) \in SUBSET Ops
        BY DEF UpTo, Queued
    <3> QED BY <3>2, <3>3, FS_Subset
  <2>4. /\ Cardinality(UpTo(d)) <= Cardinality(UpTo(o))
        /\ Cardinality(UpTo(d)) \in Nat /\ Cardinality(UpTo(o)) \in Nat
      BY <2>2, <2>3, FS_Subset, FS_CardinalityType
  <2>5. Cardinality(UpTo(d)) <= Limit
    <3>1. Cardinality(UpTo(o)) <= Limit
        BY DEF NextBatch
    <3>2. Limit \in Nat
        BY OutboxAssumption
    <3> DEFINE behindD == Cardinality(UpTo(d))
               behindO == Cardinality(UpTo(o))
    <3>3. behindD \in Nat /\ behindO \in Nat /\ behindD <= behindO /\ behindO <= Limit
        BY <2>4, <3>1
    <3> HIDE DEF behindD, behindO
    <3>4. behindD <= Limit
        BY <3>2, <3>3
    <3> QED BY <3>4 DEF behindD
  <2>6. d \in NextBatch
      BY <2>1, <2>2, <2>5 DEF NextBatch
  <2> QED BY <2>1, <2>6 DEF Queued, Parked
<1>4. CASE d \notin Present
  <2>1. o <= lastSeq /\ lastSeq \in Nat
      BY <1>1, RowsAreBorn, OutboxAssumption, SMTT(30) DEF IInv, Born, Present, TypeOK, OutboxTypeOK
  <2>2. state[d] # "unborn"
      BY <1>1, <2>1 DEF IInv, RowsInv
  <2>3. state[d] = "gone"
      BY <1>1, <1>4, <2>2 DEF TypeOK, OutboxTypeOK, RowState, Present, Queued, Parked
  <2> QED BY <1>4, <2>3 DEF Gone, Present
<1> QED BY <1>2, <1>3, <1>4 DEF Ready

LEMMA StartFlushSafe ==
    ASSUME TypeOK, IInv, StartFlush
    PROVE  IInv'
<1>1. todo' = Segments(NextBatch) /\ todo = {} /\ Open = {}
    BY DEF StartFlush
<1>2. UNCHANGED <<state, dep, lastSeq, lastOp, calls, effects, Open, Landed, Born, Queued, Parked>>
    BY DEF StartFlush, outboxVars, sessionVars, serverVars, Open, Landed, Born, Queued, Parked
<1>3. NextBatch \subseteq Queued /\ Queued \subseteq Ops /\ Queued \subseteq Born
    BY RowsAreBorn DEF NextBatch, Queued, Present, IInv
<1>4. \A o \in NextBatch : o \in SegmentOf(o, NextBatch) /\ SegmentOf(o, NextBatch) \subseteq NextBatch
  <2> SUFFICES ASSUME NEW o \in NextBatch
               PROVE  o \in SegmentOf(o, NextBatch) /\ SegmentOf(o, NextBatch) \subseteq NextBatch
      OBVIOUS
  <2>1. CASE kind[o] = "rpc"
      BY <2>1 DEF SegmentOf
  <2>2. CASE kind[o] # "rpc"
    <3>1. \A q \in NextBatch : o <= q /\ q <= o => q = o
        BY <1>3, OutboxAssumption
    <3> QED BY <2>2, <3>1 DEF SegmentOf
  <2> QED BY <2>1, <2>2
<1>5. RowsInv' /\ CallsInv'
    BY <1>2 DEF IInv, RowsInv, CallsInv
<1>6. \A d : Gone(d)' <=> Gone(d)
    BY <1>2 DEF Gone
<1>7. TodoInv'
  <2>1. \A S \in todo' : \E o \in NextBatch : S = SegmentOf(o, NextBatch)
      BY <1>1 DEF Segments
  <2>2. \A S \in todo' : S \subseteq Born
      BY <1>3, <1>4, <2>1
  <2>3. ASSUME NEW S \in todo', NEW T \in todo', S # T
        PROVE  Before(S, T) \/ Before(T, S)
    <3>1. PICK a \in NextBatch : S = SegmentOf(a, NextBatch)
        BY <2>1
    <3>2. PICK b \in NextBatch : T = SegmentOf(b, NextBatch)
        BY <2>1
    <3>3. NextBatch \in SUBSET Ops
        BY <1>3
    <3>4. a < b \/ b < a
        BY <1>3, <2>3, <3>1, <3>2, OutboxAssumption
    <3> QED BY <2>3, <3>1, <3>2, <3>3, <3>4, SegmentsInOrder
  <2>4. \A S, T : Before(S, T)' <=> Before(S, T)
      BY DEF Before
  <2> QED BY <1>1, <1>2, <2>2, <2>3, <2>4 DEF TodoInv
<1>8. ASSUME Naming = FALSE PROVE ParentsInHand'
  <2>1. \A o \in NextBatch : o \in InHand'
      BY <1>1, <1>3, <1>4 DEF InHand, Segments
  <2>2. \A o \in InHand' : o \in NextBatch
      BY <1>1, <1>2, <1>4 DEF InHand, Segments
  <2> QED BY <1>2, <1>6, <2>1, <2>2, NextBatchHoldsParents DEF ParentsInHand
<1>9. Naming = FALSE => (ParentsInCalls /\ ParentFirst)'
    BY <1>2, <1>6 DEF IInv, ParentsInCalls, ParentFirst
<1> QED BY <1>5, <1>7, <1>8, <1>9 DEF IInv

(* The first sub-batch waiting holds every parent of its rows that is still *)
(* in hand: a parent has a smaller seq, and no sub-batch lies before it.    *)
LEMMA FirstHoldsParents ==
    ASSUME TypeOK, IInv, Naming = FALSE, Open = {},
           NEW S \in todo, IsFirst(S), NEW o \in Live(S), dep[o] # NoOp
    PROVE  dep[o] \in Live(S) \/ Gone(dep[o])
<1> DEFINE d == dep[o]
<1>1. o \in S /\ o \in Queued /\ o \in Ops /\ d \in Ops /\ d < o /\ o \in InHand
    BY DEF Live, Queued, InHand, TypeOK, OutboxTypeOK, IInv, RowsInv
<1>2. d \notin Parked /\ (d \in InHand \/ Gone(d))
    BY <1>1 DEF IInv, ParentsInHand
<1>3. CASE d \in InHand
  <2>1. PICK T \in todo : d \in T
      BY <1>3 DEF InHand
  <2>2. d \in S
      BY <1>1, <2>1, OutboxAssumption DEF IsFirst
  <2>3. d \in Born /\ d <= lastSeq /\ lastSeq \in Nat
    <3>1. d \in Born
        BY <2>1 DEF IInv, TodoInv
    <3> QED BY <3>1, OutboxAssumption DEF Born, TypeOK, OutboxTypeOK
  <2>4. state[d] # "unborn"
      BY <1>1, <2>3 DEF IInv, RowsInv
  <2>5. d \in Queued \/ state[d] = "gone"
      BY <1>1, <1>2, <2>4 DEF TypeOK, OutboxTypeOK, RowState, Queued, Parked
  <2> QED BY <2>2, <2>5 DEF Live, Gone
<1> QED BY <1>2, <1>3

LEMMA SendNextSafe ==
    ASSUME TypeOK, IInv, SendNext
    PROVE  IInv'
<1>1. Open = {}
    BY DEF SendNext
<1>2. PICK S \in todo :
        /\ IsFirst(S)
        /\ todo' = todo \ {S}
        /\ IF Live(S) = {}
           THEN UNCHANGED <<outboxVars, serverVars>>
           ELSE /\ MarkInflight(Live(S))
                /\ \E s \in Slots :
                     /\ calls[s].step = "idle"
                     /\ calls' = [calls EXCEPT ![s] =
                            [IdleCall EXCEPT !.step = "sent", !.ops = Live(S), !.open = TRUE]]
                /\ UNCHANGED <<effects, session>>
    BY DEF SendNext
<1>3. UNCHANGED <<dep, lastSeq, lastOp, effects, Landed, Born>>
    BY <1>2 DEF SendNext, MarkInflight, outboxVars, sessionVars, serverVars, Landed, Born
<1>4. \A o \in Ops : state'[o] = state[o] \/ (o \in Queued /\ state'[o] = "inflight")
    BY <1>2 DEF MarkInflight, Live, outboxVars
<1>5. UNCHANGED <<Queued, Parked>>
    BY <1>4 DEF Queued, Parked
<1>6. \A d \in Ops : Gone(d) => Gone(d)'
    BY <1>3, <1>4 DEF Gone, Queued
<1>7. RowsInv'
  <2>1. \A o \in Ops : (state[o] = "unborn" <=> lastSeq < o) /\ dep[o] < o
      BY DEF IInv, RowsInv
  <2>2. \A o \in Ops : state'[o] = "unborn" <=> state[o] = "unborn"
      BY <1>4 DEF Queued
  <2> QED BY <1>3, <2>1, <2>2 DEF IInv, RowsInv
<1>8. \A o \in Ops : dep[o] \in 0..MaxOps
    BY DEF TypeOK, OutboxTypeOK
<1>9. Naming = FALSE => ParentFirst'
    BY <1>3, <1>6, <1>8 DEF IInv, ParentFirst, Gone, Landed
<1>10. CASE Live(S) = {}
  <2>1. UNCHANGED <<calls, Open>>
      BY <1>2, <1>10 DEF serverVars, Open
  <2>2. CallsInv'
      BY <1>3, <1>5, <2>1 DEF IInv, CallsInv
  <2>3. TodoInv'
      BY <1>2, <1>3, <2>1 DEF IInv, TodoInv, Before
  <2>4. ASSUME Naming = FALSE PROVE ParentsInCalls'
    <3>1. \A s \in Slots : calls[s].ops \subseteq Ops
        BY DEF TypeOK, ServerTypeOK, Call
    <3> QED BY <1>3, <1>6, <1>8, <2>1, <2>4, <3>1 DEF IInv, ParentsInCalls
  <2>5. ASSUME Naming = FALSE PROVE ParentsInHand'
    <3>1. InHand' \subseteq InHand
        BY <1>1, <1>2, <2>1 DEF InHand
    <3>2. ASSUME NEW d \in Ops, d \in InHand, d \notin InHand', d \notin Parked
          PROVE  Gone(d)
      <4>1. d \in S
          BY <1>1, <1>2, <3>2 DEF InHand
      <4>2. d \notin Queued
          BY <1>10, <4>1 DEF Live
      <4>3. d <= lastSeq /\ lastSeq \in Nat
          BY <4>1, OutboxAssumption DEF IInv, TodoInv, Born, TypeOK, OutboxTypeOK
      <4>4. state[d] # "unborn"
          BY <4>3 DEF IInv, RowsInv
      <4> QED BY <3>2, <4>2, <4>4 DEF TypeOK, OutboxTypeOK, RowState, Queued, Parked, Gone
    <3>3. \A o \in InHand \cap Queued : dep[o] # NoOp => dep[o] \notin Parked
        BY <2>5 DEF IInv, ParentsInHand
    <3>4. \A o \in InHand' \cap Queued' : dep[o] # NoOp =>
            (dep[o] \in InHand => dep[o] \in InHand' \/ Gone(dep[o])')
      <4> SUFFICES ASSUME NEW o \in InHand' \cap Queued', dep[o] # NoOp, dep[o] \in InHand
                   PROVE  dep[o] \in InHand' \/ Gone(dep[o])'
          OBVIOUS
      <4>1. dep[o] \in Ops /\ dep[o] \notin Parked
          BY <1>5, <1>8, <3>1, <3>3 DEF Queued
      <4> QED BY <1>3, <1>6, <3>2, <4>1
    <3> QED BY <1>3, <1>5, <1>6, <2>5, <3>1, <3>4, InHandSafe
  <2> QED BY <1>7, <1>9, <2>2, <2>3, <2>4, <2>5 DEF IInv
<1>11. CASE Live(S) # {}
  <2>1. PICK s \in Slots : calls' = [calls EXCEPT ![s] =
                [IdleCall EXCEPT !.step = "sent", !.ops = Live(S), !.open = TRUE]]
      BY <1>2, <1>11
  <2>2. /\ calls'[s].step = "sent" /\ calls'[s].ops = Live(S) /\ calls'[s].open = TRUE
        /\ calls'[s].dups = {} /\ calls'[s].culprit = NoOp
        /\ \A t \in Slots \ {s} : calls'[t] = calls[t]
      BY <2>1 DEF IdleCall, TypeOK, ServerTypeOK
  <2>3. Open' = {s}
      BY <1>1, <2>2 DEF Open
  <2>4. Live(S) \subseteq S /\ Live(S) \subseteq Queued /\ S \subseteq Born
      BY DEF Live, IInv, TodoInv
  <2>5. CallsInv'
      BY <1>3, <1>5, <2>2, <2>3, <2>4 DEF IInv, CallsInv, Open
  <2>6. TodoInv'
      BY <1>2, <1>3, <2>2, <2>3, <2>4 DEF IInv, TodoInv, Before, IsFirst
  <2>7. ASSUME Naming = FALSE PROVE ParentsInCalls'
    <3>1. \A t \in Slots : calls[t].ops \subseteq Ops
        BY DEF TypeOK, ServerTypeOK, Call
    <3>2. \A o \in Live(S) : o \in Ops
        BY DEF Live, Queued
    <3>3. \A o \in Live(S) : dep[o] # NoOp => dep[o] \in Live(S) \/ Gone(dep[o])'
      <4> SUFFICES ASSUME NEW o \in Live(S), dep[o] # NoOp
                   PROVE  dep[o] \in Live(S) \/ Gone(dep[o])'
          BY <1>3
      <4>1. IsFirst(S)
          BY <1>2
      <4>2. dep[o] \in Live(S) \/ Gone(dep[o])
          BY <1>1, <2>7, <4>1, FirstHoldsParents
      <4>3. dep[o] \in Ops
          BY <1>8, <3>2
      <4> QED BY <1>3, <1>6, <4>2, <4>3
    <3>4. \A t \in Slots \ {s} : \A o \in calls[t].ops :
            dep[o] # NoOp => dep[o] \in calls[t].ops \/ Gone(dep[o])'
        BY <1>3, <1>6, <1>8, <2>7, <3>1 DEF IInv, ParentsInCalls
    <3> QED BY <1>3, <2>2, <3>3, <3>4 DEF ParentsInCalls
  <2>8. ASSUME Naming = FALSE PROVE ParentsInHand'
    <3>1. \A o \in InHand' : o \in InHand
        BY <1>2, <2>2, <2>3, <2>4 DEF InHand
    <3>2. \A o \in InHand : o \in InHand' \/ o \in S
        BY <1>1, <1>2 DEF InHand
    <3>3. Live(S) \subseteq InHand'
        BY <2>2, <2>3, <2>4 DEF InHand, Queued
    <3>4. ASSUME NEW d \in Ops, d \in InHand, d \notin InHand', d \notin Parked
          PROVE  Gone(d)
      <4>1. d \in S /\ d \notin Queued
          BY <3>2, <3>3, <3>4 DEF Live
      <4>2. d <= lastSeq /\ lastSeq \in Nat
          BY <2>4, <4>1, OutboxAssumption DEF Born, TypeOK, OutboxTypeOK
      <4>3. state[d] # "unborn"
          BY <4>2 DEF IInv, RowsInv
      <4> QED BY <3>4, <4>1, <4>3 DEF TypeOK, OutboxTypeOK, RowState, Queued, Parked, Gone
    <3>5. \A o \in InHand' \cap Queued' : dep[o] # NoOp =>
            (dep[o] \in InHand => dep[o] \in InHand' \/ Gone(dep[o])')
      <4> SUFFICES ASSUME NEW o \in InHand' \cap Queued', dep[o] # NoOp, dep[o] \in InHand
                   PROVE  dep[o] \in InHand' \/ Gone(dep[o])'
          OBVIOUS
      <4>1. dep[o] \in Ops /\ dep[o] \notin Parked
          BY <1>5, <1>8, <2>8, <3>1 DEF Queued, IInv, ParentsInHand
      <4> QED BY <1>3, <1>6, <3>4, <4>1
    <3> QED BY <1>3, <1>5, <1>6, <2>8, <3>1, <3>5, InHandSafe
  <2> QED BY <1>7, <1>9, <2>5, <2>6, <2>7, <2>8 DEF IInv
<1> QED BY <1>10, <1>11

(* The phone has one call open; when it lets go of it, it has none. *)
LEMMA LettingGo ==
    ASSUME TypeOK, CallsInv, NEW s \in Slots, calls[s].open,
           NEW c \in {IdleCall, [calls[s] EXCEPT !.open = FALSE]},
           calls' = [calls EXCEPT ![s] = c]
    PROVE  LetGo /\ Open' = {}
<1>1. calls[s] \in Call /\ calls'[s] = c /\ \A t \in Slots \ {s} : calls'[t] = calls[t]
    BY DEF TypeOK, ServerTypeOK
<1>2. c.open = FALSE
    BY <1>1 DEF IdleCall, Call
<1>3. \A t \in Slots \ {s} : ~calls[t].open
    BY DEF CallsInv, Open
<1> QED BY <1>1, <1>2, <1>3 DEF LetGo, Open

LEMMA AnswerSafe ==
    ASSUME TypeOK, IInv, NEW s \in Slots, ReceiveAnswer(s)
    PROVE  IInv'
<1>1. LetGo /\ Open' = {}
    BY LettingGo DEF ReceiveAnswer, HangUp, IInv
<1>2. UNCHANGED <<dep, lastSeq, lastOp, effects, todo, Landed, Born>>
    BY DEF ReceiveAnswer, Ack, sessionVars, Landed, Born
<1>3. \A o \in Ops : state'[o] # state[o] => o \in Present /\ state'[o] = "gone"
    BY DEF ReceiveAnswer, Ack
<1>4. Queued' \subseteq Queued /\ Parked' \subseteq Parked
    BY <1>3 DEF Queued, Parked
<1>5. /\ RowsInv' /\ CallsInv'
      /\ \A d \in Ops : Gone(d) => Gone(d)'
      /\ Naming = FALSE => ParentsInCalls' /\ ParentFirst'
    BY <1>1, <1>2, <1>3, ReleaseSafe DEF IInv, RowsInv
<1>6. TodoInv'
    BY <1>1, <1>2 DEF IInv, TodoInv, Before
<1>7. ASSUME Naming = FALSE PROVE ParentsInHand'
  <2>1. InHand' \subseteq InHand
      BY <1>1, <1>2 DEF InHand
  <2>2. calls[s].ops \subseteq Queued /\ \A t \in Open : t = s
      BY DEF ReceiveAnswer, IInv, CallsInv, Open
  <2>3. \A d \in calls[s].ops : d \in Ops /\ state'[d] = "gone"
      BY <2>2 DEF ReceiveAnswer, Acked, Ack, Present, Queued
  <2>4. \A d \in InHand : d \in InHand' \/ Gone(d)'
      BY <1>2, <2>2, <2>3 DEF InHand, Gone
  <2> QED BY <1>2, <1>4, <1>5, <1>7, <2>1, <2>4, InHandSafe
<1> QED BY <1>5, <1>6, <1>7 DEF IInv

(* Timeouts, lost answers and a kill: the flush is over, the rows stay. *)
LEMMA FlushOverSafe ==
    ASSUME TypeOK, IInv, LetGo, Open' = {}, todo' = {},
           UNCHANGED <<dep, lastSeq, effects>>,
           \A a \in Assets : lastOp'[a] <= lastSeq,
           \A o \in Ops : state'[o] # state[o] => o \in Present /\ state'[o] # "unborn"
    PROVE  IInv'
<1>1. RowsInv' /\ CallsInv' /\ (Naming = FALSE => ParentsInCalls' /\ ParentFirst')
    BY ReleaseSafe
<1>2. TodoInv' /\ ParentsInHand'
    BY DEF TodoInv, ParentsInHand, InHand
<1> QED BY <1>1, <1>2 DEF IInv

LEMMA NothingSafe ==
    ASSUME TypeOK, IInv, NEW s \in Slots, ReceiveNothing(s)
    PROVE  IInv'
<1>1. LetGo /\ Open' = {}
    BY LettingGo DEF ReceiveNothing, Abandoned, IInv
<1>2. UNCHANGED <<dep, lastSeq, lastOp, effects>> /\ todo' = {}
    BY DEF ReceiveNothing, RetryLater, sessionVars
<1>3. \A o \in Ops : state'[o] # state[o] => o \in Present /\ state'[o] # "unborn"
    BY DEF ReceiveNothing, RetryLater
<1> QED BY <1>1, <1>2, <1>3, FlushOverSafe DEF IInv, RowsInv

LEMMA CrashSafe == TypeOK /\ IInv /\ Crash => IInv'
<1> SUFFICES ASSUME TypeOK, IInv, Crash PROVE IInv'
    OBVIOUS
<1>1. \A s \in Slots : calls[s].open => Abandoned(s).open = FALSE
    BY DEF TypeOK, ServerTypeOK, Call, Abandoned, IdleCall
<1>2. \A s \in Slots : calls'[s] = IF calls[s].open THEN Abandoned(s) ELSE calls[s]
    BY DEF Crash
<1>3. LetGo
    BY <1>2 DEF LetGo, Abandoned
<1>4. Open' = {}
    BY <1>1, <1>2 DEF Open, TypeOK, ServerTypeOK, Call
<1>5. \A a \in Assets : lastOp'[a] <= lastSeq
    BY OutboxAssumption DEF Crash, TypeOK, OutboxTypeOK
<1> QED BY <1>3, <1>4, <1>5, FlushOverSafe DEF Crash, outboxVars

(* A verdict that names its op, or could only mean one: the op and all that *)
(* is chained behind it are parked, so no row in hand is left an orphan.    *)
LEMMA ParkSafe ==
    ASSUME TypeOK, IInv, NEW s \in Slots, ReceiveVerdict(s), Guilty(s) # {}
    PROVE  IInv'
<1>1. PICK r \in Guilty(s) : Fail(r)
    BY DEF ReceiveVerdict
<1>2. calls[s] \in Call /\ calls[s].open /\ HangUp(s)
    BY DEF ReceiveVerdict, TypeOK, ServerTypeOK
<1>3. r \in Ops
    BY <1>2, OutboxAssumption DEF Guilty, Call
<1>4. LetGo /\ Open' = {}
    BY <1>2, LettingGo DEF HangUp, IInv
<1>5. UNCHANGED <<dep, lastSeq, lastOp, effects, todo, Landed, Born>>
    BY <1>1 DEF ReceiveVerdict, Fail, sessionVars, Landed, Born
<1>6. \A o \in Ops : IF o \in Cascade(r) \cap Present
                     THEN state'[o] \in {"failed", "blocked"}
                     ELSE state'[o] = state[o]
    BY <1>1 DEF Fail
<1>7. /\ Queued' \subseteq Queued
      /\ \A o \in Ops : o \in Parked' => o \in Parked \/ o \in Cascade(r)
      /\ \A o \in Queued' : o \notin Cascade(r)
    BY <1>6 DEF Queued, Parked, Present
<1>8. /\ RowsInv' /\ CallsInv'
      /\ \A d \in Ops : Gone(d) => Gone(d)'
      /\ Naming = FALSE => ParentsInCalls' /\ ParentFirst'
  <2>1. \A o \in Ops : state'[o] # state[o] => o \in Present /\ state'[o] # "unborn"
      BY <1>6
  <2> QED BY <1>4, <1>5, <2>1, ReleaseSafe DEF IInv, RowsInv
<1>9. TodoInv'
    BY <1>4, <1>5 DEF IInv, TodoInv, Before
<1>10. ASSUME Naming = FALSE PROVE ParentsInHand'
  <2>1. InHand' \subseteq InHand
      BY <1>4, <1>5 DEF InHand
  <2>2. calls[s].ops = {r}
    <3>1. calls[s].culprit = NoOp
        BY <1>2, <1>10 DEF IInv, CallsInv
    <3>2. Cardinality(calls[s].ops) = 1 /\ r \in calls[s].ops
        BY <3>1 DEF Guilty
    <3>3. IsFiniteSet(calls[s].ops)
      <4>1. MaxOps \in Int /\ 1 \in Int
          BY OutboxAssumption
      <4>2. IsFiniteSet(Ops)
          BY <4>1, FS_Interval
      <4>3. calls[s].ops \in SUBSET Ops
          BY <1>2 DEF Call
      <4> QED BY <4>2, <4>3, FS_Subset
    <3>4. PICK x : calls[s].ops = {x}
        BY <3>2, <3>3, FS_Singleton
    <3> QED BY <3>2, <3>4
  <2>3. \A d \in InHand : d \in InHand' \/ d = r
    <3>1. \A t \in Open : t = s
        BY <1>2 DEF IInv, CallsInv, Open
    <3> QED BY <1>5, <2>2, <3>1 DEF InHand
  <2>4. \A o \in Queued' : dep[o] \notin Cascade(r)
    <3>1. \A o \in Queued' : o \in Present
        BY <1>7 DEF Present
    <3> QED BY <1>3, <1>7, <3>1, CascadeClosed
  <2>5. \A o \in Ops : dep[o] \in 0..MaxOps
      BY DEF TypeOK, OutboxTypeOK
  <2>6. \A o \in InHand' \cap Queued' : dep[o] # NoOp =>
           /\ dep[o] \in Parked' => dep[o] \in Parked
           /\ dep[o] \in InHand => dep[o] \in InHand'
    <3> SUFFICES ASSUME NEW o \in InHand' \cap Queued', dep[o] # NoOp
                 PROVE  /\ dep[o] \in Parked' => dep[o] \in Parked
                        /\ dep[o] \in InHand => dep[o] \in InHand'
        OBVIOUS
    <3>1. dep[o] \in Ops
        BY <2>5 DEF Queued
    <3>2. dep[o] \notin Cascade(r) /\ r \in Cascade(r)
        BY <1>3, <2>4, CascadeClosed
    <3> QED BY <1>7, <2>3, <3>1, <3>2
  <2> QED BY <1>5, <1>7, <1>8, <1>10, <2>1, <2>6, InHandSafe
<1> QED BY <1>8, <1>9, <1>10 DEF IInv

(* A verdict that names nobody: the halves go back in hand, in order. *)
LEMMA BisectSafe ==
    ASSUME TypeOK, IInv, NEW s \in Slots, ReceiveVerdict(s), Guilty(s) = {}
    PROVE  IInv'
<1> DEFINE B == calls[s].ops
           H == FirstHalf(B)
           R == B \ H
<1>1. calls[s] \in Call /\ calls[s].open /\ HangUp(s) /\ s \in Open
    BY DEF ReceiveVerdict, TypeOK, ServerTypeOK, Open
<1>2. LetGo /\ Open' = {}
    BY <1>1, LettingGo DEF HangUp, IInv
<1>3. todo' = todo \cup {H, R} /\ UNCHANGED <<outboxVars, sessionVars, effects, session>>
    BY DEF ReceiveVerdict
<1>4. UNCHANGED <<state, dep, lastSeq, lastOp, effects, Landed, Born, Queued, Parked>>
    BY <1>3 DEF outboxVars, sessionVars, Landed, Born, Queued, Parked
<1>5. B \in SUBSET Ops
    BY <1>1 DEF Call
<1>6. H \subseteq B /\ R \subseteq B /\ Before(H, R)
    BY <1>5, HalvesInOrder
<1>7. B \subseteq Queued /\ B \subseteq Born /\ \A t \in Open : t = s
    BY <1>1 DEF IInv, CallsInv, Open
<1>8. /\ RowsInv' /\ CallsInv'
      /\ \A d \in Ops : Gone(d) => Gone(d)'
      /\ Naming = FALSE => ParentsInCalls' /\ ParentFirst'
    BY <1>2, <1>4, ReleaseSafe DEF IInv, RowsInv
<1>9. TodoInv'
  <2>1. \A T \in todo : Before(B, T)
      BY <1>1 DEF IInv, TodoInv
  <2>2. \A T \in todo : Before(H, T) /\ Before(R, T)
      BY <1>6, <2>1 DEF Before
  <2>3. \A S, T \in todo' : S # T => Before(S, T) \/ Before(T, S)
      BY <1>3, <1>6, <2>2 DEF IInv, TodoInv
  <2>4. \A S \in todo' : S \subseteq Born
      BY <1>3, <1>6, <1>7 DEF IInv, TodoInv
  <2>5. \A S, T : Before(S, T)' <=> Before(S, T)
      BY DEF Before
  <2> QED BY <1>2, <1>4, <2>3, <2>4, <2>5 DEF TodoInv
<1>10. ASSUME Naming = FALSE PROVE ParentsInHand'
  <2>1. \A o \in Ops : o \in InHand' <=> o \in InHand
    <3>1. \A o : o \in B <=> o \in H \/ o \in R
        BY <1>6
    <3>2. \A o \in Ops : o \in InHand <=> (\E S \in todo : o \in S) \/ o \in B
        BY <1>1, <1>7 DEF InHand
    <3>3. \A o \in Ops : o \in InHand' <=> (\E S \in todo' : o \in S)
        BY <1>2 DEF InHand
    <3> HIDE DEF B, H, R
    <3> QED BY <1>3, <3>1, <3>2, <3>3
  <2>2. InHand' = InHand
      BY <2>1 DEF InHand
  <2> QED BY <1>4, <1>8, <1>10, <2>2, InHandSafe
<1> QED BY <1>8, <1>9, <1>10 DEF IInv

(* A step of the server's: the call it works on keeps its ops, and either   *)
(* nothing lands or everything in the call has.                             *)
LEMMA ServerStepSafe ==
    ASSUME TypeOK, IInv, NEW s \in Slots, NEW c, calls' = [calls EXCEPT ![s] = c],
           UNCHANGED <<state, dep, lastSeq, lastOp, todo>>,
           \/ c = IdleCall /\ ~calls[s].open
           \/ /\ c.ops = calls[s].ops /\ c.open = calls[s].open
              /\ c.dups \subseteq Landed'
              /\ c.step = "done" => c.ops \subseteq Landed'
              /\ c.culprit # NoOp => Naming,
           Landed' = Landed \/ Landed' = Landed \cup calls[s].ops
    PROVE  IInv'
<1>1. /\ calls'[s] = c
      /\ \A t \in Slots \ {s} : calls'[t] = calls[t]
      /\ \A t \in Slots : calls[t].ops \subseteq Ops
    BY DEF TypeOK, ServerTypeOK, Call
<1>2. /\ calls'[s].ops = calls[s].ops \/ (calls'[s].ops = {} /\ ~calls[s].open)
      /\ calls'[s].open = calls[s].open
      /\ calls'[s].dups \subseteq Landed'
      /\ calls'[s].step = "done" => calls'[s].ops \subseteq Landed'
      /\ calls'[s].culprit # NoOp => Naming
  <2>1. calls[s].open \in BOOLEAN
      BY DEF TypeOK, ServerTypeOK, Call
  <2>2. CASE c = IdleCall /\ ~calls[s].open
    <3>1. calls[s].open = FALSE
        BY <2>1, <2>2
    <3>2. /\ IdleCall.step = "idle" /\ IdleCall.ops = {} /\ IdleCall.dups = {}
          /\ IdleCall.culprit = NoOp /\ IdleCall.open = FALSE
        BY DEF IdleCall
    <3> QED BY <1>1, <2>2, <3>1, <3>2
  <2>3. CASE c # IdleCall \/ calls[s].open
      BY <1>1, <2>3
  <2> QED BY <2>2, <2>3
<1>3. Open' = Open /\ \A t \in Open : calls'[t].ops = calls[t].ops
    BY <1>1, <1>2 DEF Open
<1>4. UNCHANGED <<Born, Queued, Parked, InHand>>
    BY <1>3 DEF Born, Queued, Parked, InHand
<1>5. Landed \subseteq Landed' /\ Landed' \subseteq Born
    BY DEF IInv, RowsInv, CallsInv
<1>6. \A d : Gone(d) => Gone(d)'
    BY <1>5 DEF Gone
<1>7. RowsInv'
    BY <1>4, <1>5 DEF IInv, RowsInv
<1>8. CallsInv'
  <2>1. ASSUME NEW t \in Slots
        PROVE  /\ calls'[t].ops \subseteq Born
               /\ calls'[t].dups \subseteq Landed'
               /\ calls'[t].step = "done" => calls'[t].ops \subseteq Landed'
               /\ calls'[t].open => calls'[t].ops \subseteq Queued
               /\ calls'[t].culprit # NoOp => Naming
    <3>1. /\ calls[t].ops \subseteq Born
          /\ calls[t].dups \subseteq Landed
          /\ calls[t].step = "done" => calls[t].ops \subseteq Landed
          /\ calls[t].open => calls[t].ops \subseteq Queued
          /\ calls[t].culprit # NoOp => Naming
        BY DEF IInv, CallsInv
    <3>2. CASE t = s
        BY <1>2, <3>1, <3>2
    <3>3. CASE t # s
        BY <1>1, <1>5, <3>1, <3>3
    <3> QED BY <3>2, <3>3
  <2>2. \A a, b \in Open' : a = b
      BY <1>3 DEF IInv, CallsInv
  <2> QED BY <1>4, <2>1, <2>2 DEF CallsInv
<1>9. TodoInv'
    BY <1>3, <1>4 DEF IInv, TodoInv, Before
<1>10. ASSUME Naming = FALSE PROVE (ParentsInCalls /\ ParentsInHand /\ ParentFirst)'
  <2>1. \A t \in Slots : calls'[t].ops = calls[t].ops \/ calls'[t].ops = {}
      BY <1>1, <1>2
  <2>2. ParentsInCalls'
    <3>1. \A t \in Slots : \A o \in calls[t].ops :
            dep[o] # NoOp => dep[o] \in calls[t].ops \/ Gone(dep[o])
        BY <1>10 DEF IInv, ParentsInCalls
    <3> QED BY <1>6, <2>1, <3>1 DEF ParentsInCalls
  <2>3. ParentsInHand'
    <3>1. \A o \in InHand \cap Queued :
            dep[o] # NoOp => /\ dep[o] \notin Parked
                             /\ dep[o] \in InHand \/ Gone(dep[o])
        BY <1>10 DEF IInv, ParentsInHand
    <3> QED BY <1>4, <1>6, <3>1 DEF ParentsInHand
  <2>4. ParentFirst'
    <3>1. \A o \in calls[s].ops : dep[o] # NoOp => dep[o] \in calls[s].ops \/ Gone(dep[o])
        BY <1>10 DEF IInv, ParentsInCalls
    <3>2. \A o \in Landed : dep[o] # NoOp => dep[o] \in Landed \/ Gone(dep[o])
        BY <1>10 DEF IInv, ParentFirst, Gone
    <3>3. \A o \in Landed' : dep[o] # NoOp => dep[o] \in Landed' \/ Gone(dep[o])
        BY <1>5, <3>1, <3>2
    <3> QED BY <3>3 DEF ParentFirst, Gone
  <2> QED BY <2>2, <2>3, <2>4
<1> QED BY <1>7, <1>8, <1>9, <1>10 DEF IInv

LEMMA AnsweredShape ==
    ASSUME TypeOK, NEW s \in Slots, NEW x, NEW n
    PROVE  \/ Answered(s, x, n) = IdleCall /\ ~calls[s].open
           \/ /\ Answered(s, x, n).ops = calls[s].ops
              /\ Answered(s, x, n).open = calls[s].open
              /\ Answered(s, x, n).dups = calls[s].dups
              /\ Answered(s, x, n).step = x
              /\ Answered(s, x, n).culprit = n
BY DEF Answered, TypeOK, ServerTypeOK, Call

LEMMA AnsweredSafe ==
    ASSUME TypeOK, IInv, NEW s \in Slots, NEW x, NEW n,
           calls' = [calls EXCEPT ![s] = Answered(s, x, n)],
           UNCHANGED <<state, dep, lastSeq, lastOp, todo>>,
           Landed' = Landed \/ Landed' = Landed \cup calls[s].ops,
           x = "done" => calls[s].ops \subseteq Landed',
           n # NoOp => Naming
    PROVE  IInv'
<1> DEFINE c == Answered(s, x, n)
<1>1. \/ c = IdleCall /\ ~calls[s].open
      \/ /\ c.ops = calls[s].ops /\ c.open = calls[s].open
         /\ c.dups = calls[s].dups /\ c.step = x /\ c.culprit = n
    BY AnsweredShape
<1>2. calls[s].dups \subseteq Landed'
    BY DEF IInv, CallsInv
<1> HIDE DEF c
<1>3. \/ c = IdleCall /\ ~calls[s].open
      \/ /\ c.ops = calls[s].ops /\ c.open = calls[s].open
         /\ c.dups \subseteq Landed'
         /\ c.step = "done" => c.ops \subseteq Landed'
         /\ c.culprit # NoOp => Naming
    BY <1>1, <1>2
<1>4. calls' = [calls EXCEPT ![s] = c]
    BY DEF c
<1> QED BY <1>3, <1>4, ServerStepSafe

LEMMA CommitSafe ==
    ASSUME TypeOK, IInv, NEW s \in Slots, ServerCommit(s),
           UNCHANGED <<outboxVars, sessionVars, todo>>
    PROVE  IInv'
<1>1. calls[s] \in Call /\ calls[s].dups \subseteq Landed
    BY DEF TypeOK, ServerTypeOK, IInv, CallsInv
<1>2. UNCHANGED <<state, dep, lastSeq, lastOp, todo>>
    BY DEF outboxVars, sessionVars
<1>3. CASE Clash(s) = {}
  <2>1. \A o \in Ops : effects[o] \in Nat
      BY DEF TypeOK, ServerTypeOK
  <2>2. \A o \in Ops : effects'[o] = IF o \in calls[s].ops \ calls[s].dups
                                     THEN effects[o] + 1 ELSE effects[o]
      BY <1>3 DEF ServerCommit
  <2>3. \A o \in Ops : o \in Landed' <=> o \in Landed \/ o \in calls[s].ops
      BY <1>1, <2>1, <2>2 DEF Landed
  <2>4. Landed' = Landed \cup calls[s].ops
      BY <1>1, <2>3 DEF Landed, Call
  <2>5. calls' = [calls EXCEPT ![s] = Answered(s, "done", NoOp)]
      BY <1>3 DEF ServerCommit
  <2> QED BY <1>2, <2>4, <2>5, AnsweredSafe
<1>4. CASE Clash(s) # {}
  <2>1. Landed' = Landed
      BY <1>4 DEF ServerCommit, Landed
  <2>2. calls' = [calls EXCEPT ![s] = Answered(s, "refused", NoOp)]
      BY <1>4 DEF ServerCommit
  <2> QED BY <1>2, <2>1, <2>2, AnsweredSafe
<1> QED BY <1>3, <1>4

LEMMA ServerSafe ==
    TypeOK /\ IInv /\ Server => IInv'
<1> SUFFICES ASSUME TypeOK, IInv, Server PROVE IInv'
    OBVIOUS
<1>1. UNCHANGED <<outboxVars, sessionVars, todo>>
    BY DEF Server
<1>2. UNCHANGED <<state, dep, lastSeq, lastOp, todo>>
    BY <1>1 DEF outboxVars, sessionVars
<1>3. \A s \in Slots : calls[s] \in Call /\ calls[s].dups \subseteq Landed
    BY DEF TypeOK, ServerTypeOK, IInv, CallsInv
<1>4. ASSUME NEW s \in Slots, ServerBegin(s) PROVE IInv'
  <2>1. Landed' = Landed
      BY <1>4 DEF ServerBegin, Landed
  <2>2. CASE Refused(calls[s].ops) = {}
    <3> DEFINE c == [calls[s] EXCEPT !.step = "running", !.dups = calls[s].ops \cap Landed]
    <3>1. calls' = [calls EXCEPT ![s] = c]
        BY <1>4, <2>2 DEF ServerBegin
    <3>2. /\ c.ops = calls[s].ops /\ c.open = calls[s].open /\ c.step = "running"
          /\ c.dups = calls[s].ops \cap Landed /\ c.culprit = calls[s].culprit
        BY <1>3 DEF Call
    <3>3. calls[s].culprit # NoOp => Naming
        BY DEF IInv, CallsInv
    <3> HIDE DEF c
    <3> QED BY <1>2, <2>1, <3>1, <3>2, <3>3, ServerStepSafe
  <2>3. CASE Refused(calls[s].ops) # {}
    <3>1. PICK o \in Refused(calls[s].ops) :
            \E named \in {NoOp} \cup (IF Naming THEN {o} ELSE {}) :
               calls' = [calls EXCEPT ![s] = Answered(s, "refused", named)]
        BY <1>4, <2>3 DEF ServerBegin
    <3>2. PICK named \in {NoOp} \cup (IF Naming THEN {o} ELSE {}) :
            calls' = [calls EXCEPT ![s] = Answered(s, "refused", named)]
        BY <3>1
    <3>3. named # NoOp => Naming
        BY <3>2
    <3> QED BY <1>2, <2>1, <3>2, <3>3, AnsweredSafe
  <2> QED BY <2>2, <2>3
<1>5. ASSUME NEW s \in Slots, ServerTurnsAway(s) PROVE IInv'
  <2>1. Landed' = Landed
      BY <1>5 DEF ServerTurnsAway, Landed
  <2> QED BY <1>2, <1>5, <2>1, AnsweredSafe DEF ServerTurnsAway
<1>6. ASSUME NEW s \in Slots, ServerCommit(s) PROVE IInv'
    BY <1>1, <1>6, CommitSafe
<1> QED BY <1>4, <1>5, <1>6 DEF Server

(* The invariant is inductive. *)

LEMMA IInvHolds == Spec => []IInv
<1>1. Init => IInv
    BY OutboxAssumption DEF Init, OutboxInit, ServerInit, IdleCall, IInv, RowsInv, CallsInv,
       TodoInv, ParentsInCalls, ParentsInHand, ParentFirst, Open, InHand, Landed, Queued, Born
<1>2. TypeOK /\ IInv /\ [Next]_vars => IInv'
  <2> SUFFICES ASSUME TypeOK, IInv, [Next]_vars PROVE IInv'
      OBVIOUS
  <2>1. CASE Person
      BY <2>1, PersonSafe
  <2>2. CASE Phone
    <3>1. ASSUME NEW s \in Slots, ReceiveVerdict(s) PROVE IInv'
        BY <3>1, ParkSafe, BisectSafe
    <3> QED BY <2>2, <3>1, StartFlushSafe, SendNextSafe, AnswerSafe DEF Phone
  <2>3. CASE Outage
    <3>1. ASSUME NEW s \in Slots, CallLost(s), UNCHANGED <<outboxVars, sessionVars, todo>>
          PROVE  IInv'
      <4>1. Landed' = Landed
          BY <3>1 DEF CallLost, Landed
      <4>2. UNCHANGED <<state, dep, lastSeq, lastOp, todo>>
          BY <3>1 DEF outboxVars, sessionVars
      <4> QED BY <3>1, <4>1, <4>2, AnsweredSafe DEF CallLost
    <3> QED BY <2>3, <3>1, NothingSafe, CrashSafe DEF Outage
  <2>4. CASE Server
      BY <2>4, ServerSafe
  <2>5. CASE Environment
    <3>1. UNCHANGED <<state, dep, lastSeq, lastOp, calls, effects, todo>>
        BY <2>5 DEF Environment, SessionChanges, outboxVars, sessionVars
    <3> QED BY <3>1, MemorySafe DEF IInv, RowsInv
  <2>6. CASE UNCHANGED vars
    <3>1. UNCHANGED <<state, dep, lastSeq, lastOp, calls, effects, todo>>
        BY <2>6 DEF vars
    <3> QED BY <3>1, MemorySafe DEF IInv, RowsInv
  <2> QED BY <2>1, <2>2, <2>3, <2>4, <2>5, <2>6 DEF Next
<1> QED BY <1>1, <1>2, TypeCorrect, PTL DEF Spec

-----------------------------------------------------------------------------
(* What follows from it. *)

(* THEOREM ParentsFirst: while the server names no culprit, no op takes     *)
(* effect before the op it depends on, unless a person dismissed that one:  *)
(* nextBatch, the segments, bisection and fail's cascade keep every child   *)
(* behind its parent through any loss, crash or resend.                     *)
THEOREM ParentsFirst == Naming = FALSE /\ Spec => []ParentFirst
<1>1. Naming = FALSE /\ IInv => ParentFirst
    BY DEF IInv
<1>2. CASE Naming = FALSE
  <2>1. IInv => ParentFirst
      BY <1>1, <1>2
  <2> QED BY <2>1, IInvHolds, PTL
<1>3. CASE Naming # FALSE
    BY <1>3
<1> QED BY <1>2, <1>3

(* THEOREM NothingIsLost: a write waiting to be sent leaves the phone only  *)
(* once the server has it; of all that touches the queue only an answer's   *)
(* ack deletes a live row, and an answer means every op in it landed.       *)
THEOREM NothingIsLost == Spec => LeavesOnlyWhenLanded
<1> DEFINE Leaves == \A o \in Queued : state'[o] = "gone" => o \in Landed
<1>1. TypeOK /\ IInv /\ [Next]_vars => Leaves
  <2> SUFFICES ASSUME TypeOK, IInv, [Next]_vars,
                      NEW o \in Queued, state'[o] = "gone"
               PROVE  o \in Landed
      OBVIOUS
  <2>1. o \in Ops /\ state[o] # "gone" /\ state[o] # "failed" /\ o \notin Parked
      BY DEF Queued, Parked
  <2>2. ASSUME NEW k, NEW d, Enqueue(k, d) PROVE FALSE
      BY <2>1, <2>2, OutboxAssumption DEF Enqueue, TypeOK, OutboxTypeOK
  <2>3. CASE Person
    <3>1. ASSUME NEW c \in Ops, DismissCard(c) PROVE FALSE
        BY <2>1, <3>1 DEF DismissCard, Doomed
    <3>2. CASE NewSession \/ \E p \in Ops : BackoffElapses(p)
        BY <2>1, <3>2 DEF NewSession, BackoffElapses, outboxVars
    <3> QED BY <2>2, <2>3, <3>1, <3>2 DEF Person, Scan, ScanUnresolved, VoidScan, EnqueueOp
  <2>4. CASE Phone
    <3>1. CASE StartFlush
        BY <2>1, <3>1 DEF StartFlush, outboxVars
    <3>2. CASE SendNext
        BY <2>1, <3>2 DEF SendNext, MarkInflight, outboxVars
    <3>3. ASSUME NEW s \in Slots, ReceiveAnswer(s) PROVE o \in Landed
      <4>1. calls[s].ops \subseteq Landed
          BY <3>3 DEF ReceiveAnswer, IInv, CallsInv
      <4> QED BY <2>1, <3>3, <4>1 DEF ReceiveAnswer, Ack, Acked
    <3>4. ASSUME NEW s \in Slots, ReceiveVerdict(s) PROVE FALSE
      <4>1. \/ \E r \in Guilty(s) : Fail(r)
            \/ UNCHANGED outboxVars
          BY <3>4 DEF ReceiveVerdict
      <4>2. state'[o] \in {"failed", "blocked", state[o]}
          BY <2>1, <4>1 DEF Fail, outboxVars
      <4> QED BY <2>1, <4>2
    <3> QED BY <2>4, <3>1, <3>2, <3>3, <3>4 DEF Phone
  <2>5. CASE Outage
    <3>1. ASSUME NEW s \in Slots, ReceiveNothing(s) PROVE FALSE
        BY <2>1, <3>1 DEF ReceiveNothing, RetryLater
    <3>2. CASE UNCHANGED outboxVars
        BY <2>1, <3>2 DEF outboxVars
    <3> QED BY <2>5, <3>1, <3>2 DEF Outage, Crash
  <2>6. CASE Server \/ Environment
      BY <2>1, <2>6 DEF Server, Environment, outboxVars
  <2>7. CASE UNCHANGED vars
      BY <2>1, <2>7 DEF vars
  <2> QED BY <2>3, <2>4, <2>5, <2>6, <2>7 DEF Next
<1>2. TypeOK /\ IInv /\ [Next]_vars => [Leaves]_vars
    BY <1>1
<1> QED BY <1>2, TypeCorrect, IInvHolds, PTL DEF Spec, LeavesOnlyWhenLanded

(* THEOREM SubtreesFallTogether: the step that parks a row parks every row  *)
(* chained behind it, at any depth, in the same step (fail's cascade).      *)
THEOREM SubtreesFallTogether == Spec => FailureTakesTheSubtree
<1> DEFINE Together == \A c \in Present : dep[c] \in Parked' \ Parked => c \in Parked'
<1>1. TypeOK /\ IInv /\ [Next]_vars => Together
  <2> SUFFICES ASSUME TypeOK, IInv, [Next]_vars,
                      NEW c \in Present, dep[c] \in Parked' \ Parked
               PROVE  c \in Parked'
      OBVIOUS
  <2> DEFINE d == dep[c]
  <2>1. c \in Ops /\ d \in Ops /\ d \notin Parked /\ state'[d] \in {"failed", "blocked"}
      BY DEF Present, Queued, Parked
  <2>2. ASSUME NEW s \in Slots, ReceiveVerdict(s) PROVE c \in Parked'
    <3>1. PICK r \in Guilty(s) : Fail(r)
        BY <2>1, <2>2 DEF ReceiveVerdict, outboxVars, Parked
    <3>2. \A o \in Ops : state'[o] = IF o \notin Cascade(r) \cap Present THEN state[o]
                                     ELSE IF o = r THEN "failed" ELSE "blocked"
        BY <3>1 DEF Fail
    <3>3. d \in Cascade(r)
        BY <2>1, <3>2 DEF Parked
    <3>4. r \in Ops
        BY <2>2, OutboxAssumption DEF Guilty, TypeOK, ServerTypeOK, Call, ReceiveVerdict
    <3>5. c \in Cascade(r)
        BY <3>3, <3>4, CascadeClosed
    <3> QED BY <2>1, <3>2, <3>5 DEF Parked
  <2>3. ASSUME NEW x \in {"unborn", "pending", "inflight", "gone"},
               state'[d] \in {state[d], x}
        PROVE  FALSE
      BY <2>1, <2>3 DEF Parked
  <2>4. ASSUME NEW k, NEW e, Enqueue(k, e) PROVE FALSE
    <3>1. state'[d] \in {state[d], "pending"}
        BY <2>1, <2>4 DEF Enqueue, TypeOK, OutboxTypeOK
    <3> QED BY <2>3, <3>1
  <2>5. CASE UNCHANGED state
      BY <2>1, <2>5 DEF Parked
  <2>6. CASE Person
    <3>1. ASSUME NEW o \in Ops, DismissCard(o) PROVE FALSE
      <4>1. state'[d] \in {state[d], "gone"}
          BY <2>1, <3>1 DEF DismissCard
      <4> QED BY <2>3, <4>1
    <3>2. CASE NewSession \/ \E p \in Ops : BackoffElapses(p)
        BY <2>5, <3>2 DEF NewSession, BackoffElapses, outboxVars
    <3> QED BY <2>4, <2>6, <3>1, <3>2 DEF Person, Scan, ScanUnresolved, VoidScan, EnqueueOp
  <2>7. CASE Phone
    <3>1. CASE StartFlush
        BY <2>5, <3>1 DEF StartFlush, outboxVars
    <3>2. CASE SendNext
      <4>1. state'[d] \in {state[d], "inflight"}
          BY <2>1, <3>2 DEF SendNext, MarkInflight, outboxVars
      <4> QED BY <2>3, <4>1
    <3>3. ASSUME NEW s \in Slots, ReceiveAnswer(s) PROVE FALSE
      <4>1. state'[d] \in {state[d], "gone"}
          BY <2>1, <3>3 DEF ReceiveAnswer, Ack
      <4> QED BY <2>3, <4>1
    <3> QED BY <2>2, <2>7, <3>1, <3>2, <3>3 DEF Phone
  <2>8. CASE Outage
    <3>1. ASSUME NEW s \in Slots, ReceiveNothing(s) PROVE FALSE
      <4>1. state'[d] \in {state[d], "pending"}
          BY <2>1, <3>1 DEF ReceiveNothing, RetryLater
      <4> QED BY <2>3, <4>1
    <3> QED BY <2>5, <2>8, <3>1 DEF Outage, Crash, outboxVars
  <2> QED BY <2>5, <2>6, <2>7, <2>8 DEF Next, Server, Environment, vars, outboxVars
<1>2. TypeOK /\ IInv /\ [Next]_vars => [Together]_vars
    BY <1>1
<1> QED BY <1>2, TypeCorrect, IInvHolds, PTL DEF Spec, FailureTakesTheSubtree

-----------------------------------------------------------------------------
(***************************************************************************)
(* What a verdict says of an op.  A verdict may also be about the bearer:  *)
(* a session the server no longer honours, or a role that may not send     *)
(* the op.  Both cost ops that may be landing from an abandoned call, so   *)
(* what follows is for a phone whose session keeps the role it needs.      *)
(***************************************************************************)
BearerKeeps == "dead" \notin Sessions /\ ("floor" \in Sessions => Gated = {})

\* No rule will ever let the op through: its own, or its target was dropped.
Dropped == {d \in Ops \ Landed : Gone(d)}
Condemned(o) == o \in Poison \/ (kind[o] = "void" /\ dep[o] \in Dropped)

SessionInv == session \in Sessions \cup {"full"}

\* Chains do not mix scans and desk writes, and a desk write goes alone.
KindsInv ==
    /\ \A o \in Born : dep[o] # NoOp => (kind[o] = "rpc" <=> kind[dep[o]] = "rpc")
    /\ \A o \in Born : kind[o] = "void" => dep[o] # NoOp
    /\ \A a \in Assets : lastOp[a] # NoOp => kind[lastOp[a]] = "scan"
    /\ \A S \in todo : \A o \in S : kind[o] = "rpc" => S = {o}
    /\ \A s \in Slots : \A o \in calls[s].ops : kind[o] = "rpc" => calls[s].ops = {o}

\* A transaction that runs may still land what it holds: that is queued and
\* passed the rules.
HeldInRun(s) == calls[s].step = "running" =>
    \A o \in calls[s].ops \ Landed :
        /\ o \in Queued /\ o \notin Poison
        /\ kind[o] = "void" => dep[o] \in Landed \cup calls[s].ops

\* A parent in the same call is queued for as long as its child is.
TravelTogether(s) ==
    \A o \in calls[s].ops \cap Queued :
        dep[o] \in calls[s].ops => dep[o] \in Queued \cup Landed

\* A call still on its way that holds a parked row will be refused for it.
WillBeRefused(s) ==
    calls[s].step = "sent" /\ ~(calls[s].ops \subseteq Queued \cup Landed) =>
        \E p \in calls[s].ops \ Landed :
            Condemned(p) /\ (p \in Poison \/ dep[p] \notin calls[s].ops)

\* Only a condemned op is refused alone, or a desk write that met its own
\* earlier call in the receipts.
VerdictIsDue(s) ==
    \A o \in calls[s].ops : calls[s].step = "refused" /\ calls[s].ops = {o} =>
        IF o \in Landed THEN kind[o] = "rpc" ELSE Condemned(o)

\* The device's row: scan batches run one at a time and know what has landed.
OneScanBatch(s) ==
    calls[s].step = "running" /\ IsScanCall(s) =>
        /\ calls[s].ops \cap Landed \subseteq calls[s].dups
        /\ \A t \in Slots \ {s} : calls[t].step = "running" => ~IsScanCall(t)

CallFair(s) ==
    /\ HeldInRun(s) /\ TravelTogether(s) /\ WillBeRefused(s)
    /\ VerdictIsDue(s) /\ OneScanBatch(s)

ParkedUnlanded == \A o \in Landed \cap Parked : kind[o] = "rpc"
FailedFairly ==
    \A o \in Ops : state[o] = "failed" =>
        (kind[o] = "rpc" /\ o \in Landed) \/ Condemned(o)

FairInv ==
    /\ \A s \in Slots : CallFair(s)
    /\ ParkedUnlanded /\ FailedFairly

PromiseInv == SessionInv /\ KindsInv /\ FairInv

-----------------------------------------------------------------------------
(* Rows that move without a new verdict, and calls that are let go.        *)

LEMMA RowsMoveFair ==
    ASSUME TypeOK, IInv, FairInv, LetGo, effects' = effects,
           \A o \in Born : kind'[o] = kind[o] /\ dep'[o] = dep[o],
           \A o \in Born : Gone(o) => Gone(o)',
           \A o \in Queued : o \in Queued' \/ o \in Landed,
           \A o \in Born : o \in Queued' => o \in Queued,
           \A o \in Parked' : o \in Parked,
           \A o \in Ops : state'[o] = "failed" => state[o] = "failed"
    PROVE  FairInv'
<1>1. Landed' = Landed /\ Landed \subseteq Born
    BY DEF Landed, IInv, RowsInv
<1>2. \A o \in Born : o \in Ops /\ (dep[o] # NoOp => dep[o] \in Born)
  <2>1. lastSeq \in 0..MaxOps /\ \A o \in Ops : dep[o] \in 0..MaxOps
      BY DEF TypeOK, OutboxTypeOK
  <2>2. \A o \in Ops : dep[o] < o
      BY DEF IInv, RowsInv
  <2> QED BY <2>1, <2>2, OutboxAssumption DEF Born
<1>3. \A s \in Slots : calls[s].ops \subseteq Born
    BY DEF IInv, CallsInv
<1>4. Born \cap Dropped \subseteq Dropped'
    BY <1>1, <1>2 DEF Dropped
<1>5. \A o \in Born : Condemned(o) => Condemned(o)'
    BY <1>2, <1>4 DEF Condemned, Dropped
<1>6. \A s \in Slots : \/ calls'[s].ops = {} /\ calls'[s].step = "idle"
                       \/ /\ calls'[s].ops = calls[s].ops
                          /\ calls'[s].step = calls[s].step
                          /\ calls'[s].dups = calls[s].dups
  <2> SUFFICES ASSUME NEW s \in Slots
               PROVE  \/ calls'[s].ops = {} /\ calls'[s].step = "idle"
                      \/ /\ calls'[s].ops = calls[s].ops
                         /\ calls'[s].step = calls[s].step
                         /\ calls'[s].dups = calls[s].dups
      OBVIOUS
  <2>1. calls[s] \in Call
      BY DEF TypeOK, ServerTypeOK
  <2>2. CASE calls'[s] = IdleCall
      BY <2>2 DEF IdleCall
  <2>3. CASE calls'[s] = [calls[s] EXCEPT !.open = FALSE]
      BY <2>1, <2>3 DEF Call
  <2> QED BY <2>2, <2>3 DEF LetGo
<1>7. \A s \in Slots : calls'[s].ops \subseteq calls[s].ops
                       /\ (calls'[s].step = "running" => calls[s].step = "running"
                                                          /\ calls'[s].ops = calls[s].ops)
    BY <1>6
<1>8. \A s \in Slots : calls'[s].ops = calls[s].ops => (IsScanCall(s)' <=> IsScanCall(s))
    BY <1>3 DEF IsScanCall
<1>9. ASSUME NEW s \in Slots PROVE CallFair(s)'
  <2>1. CallFair(s) /\ calls[s].ops \subseteq Born
      BY <1>3 DEF FairInv
  <2>2. HeldInRun(s)'
      BY <1>1, <1>6, <2>1 DEF CallFair, HeldInRun
  <2>3. TravelTogether(s)'
      BY <1>1, <1>6, <2>1 DEF CallFair, TravelTogether
  <2>4. WillBeRefused(s)'
      BY <1>1, <1>5, <1>6, <2>1 DEF CallFair, WillBeRefused
  <2>5. VerdictIsDue(s)'
      BY <1>1, <1>5, <1>6, <2>1 DEF CallFair, VerdictIsDue
  <2>6. OneScanBatch(s)'
    <3> SUFFICES ASSUME calls'[s].step = "running", IsScanCall(s)'
                 PROVE  /\ calls'[s].ops \cap Landed' \subseteq calls'[s].dups
                        /\ \A t \in Slots \ {s} : calls'[t].step = "running" => ~IsScanCall(t)'
        BY DEF OneScanBatch
    <3>1. calls'[s].ops = calls[s].ops /\ calls'[s].dups = calls[s].dups
          /\ calls[s].step = "running" /\ IsScanCall(s)
        BY <1>6, <1>8
    <3>2. /\ calls[s].ops \cap Landed \subseteq calls[s].dups
          /\ \A t \in Slots \ {s} : calls[t].step = "running" => ~IsScanCall(t)
        BY <2>1, <3>1 DEF CallFair, OneScanBatch
    <3> QED BY <1>1, <1>7, <1>8, <3>1, <3>2
  <2> QED BY <2>2, <2>3, <2>4, <2>5, <2>6 DEF CallFair
<1>10. ParkedUnlanded'
    BY <1>1 DEF FairInv, ParkedUnlanded
<1>11. FailedFairly'
  <2>1. \A o \in Ops : state[o] = "failed" => o \in Born
      BY RowsAreBorn DEF Present, Parked, IInv
  <2> QED BY <1>1, <1>5, <2>1 DEF FairInv, FailedFairly
<1> QED BY <1>9, <1>10, <1>11 DEF FairInv

-----------------------------------------------------------------------------
(* What kind of op goes where.                                             *)

LEMMA BornParents ==
    ASSUME TypeOK, IInv, NEW o \in Born
    PROVE  o \in Ops /\ dep[o] \in 0..lastSeq /\ dep[o] # o
                      /\ (dep[o] # NoOp => dep[o] \in Born)
<1>1. lastSeq \in 0..MaxOps /\ \A p \in Ops : dep[p] \in 0..MaxOps
    BY DEF TypeOK, OutboxTypeOK
<1>2. \A p \in Ops : dep[p] < p
    BY DEF IInv, RowsInv
<1> QED BY <1>1, <1>2, OutboxAssumption DEF Born

LEMMA EnqueueKinds ==
    ASSUME TypeOK, IInv, KindsInv, NEW k \in Kinds, NEW d \in 0..lastSeq, Enqueue(k, d),
           UNCHANGED <<serverVars, todo>>,
           d # NoOp => (k = "rpc" <=> kind[d] = "rpc"),
           k = "void" => d # NoOp,
           \A a \in Assets : \/ lastOp'[a] = lastOp[a]
                             \/ k = "scan" /\ lastOp'[a] = lastSeq + 1
    PROVE  KindsInv'
<1> DEFINE n == lastSeq + 1
<1>1. n \in Ops /\ lastSeq \in Nat /\ lastSeq' = n /\ Born' = Born \cup {n} /\ n \notin Born
    BY OutboxAssumption DEF TypeOK, OutboxTypeOK, Enqueue, Born
<1>2. kind'[n] = k /\ dep'[n] = d
      /\ \A o \in Ops \ {n} : kind'[o] = kind[o] /\ dep'[o] = dep[o]
    BY <1>1 DEF TypeOK, OutboxTypeOK, Enqueue
<1>3. \A o \in Born : /\ o \in Ops /\ kind'[o] = kind[o] /\ dep'[o] = dep[o]
                      /\ dep[o] # NoOp => dep[o] \in Born
    BY <1>1, <1>2, BornParents
<1>4. d # NoOp => d \in Born
    BY DEF Born
<1>5. \A o \in Born' : /\ dep'[o] # NoOp => (kind'[o] = "rpc" <=> kind'[dep'[o]] = "rpc")
                       /\ kind'[o] = "void" => dep'[o] # NoOp
    BY <1>1, <1>2, <1>3, <1>4 DEF KindsInv
<1>6. \A a \in Assets : lastOp'[a] # NoOp => kind'[lastOp'[a]] = "scan"
  <2>1. \A a \in Assets : lastOp[a] # NoOp => lastOp[a] \in Born
      BY OutboxAssumption DEF TypeOK, OutboxTypeOK, IInv, RowsInv, Born
  <2> QED BY <1>2, <1>3, <2>1 DEF KindsInv
<1>7. \A S \in todo' : \A o \in S : kind'[o] = "rpc" => S = {o}
  <2>1. \A S \in todo : S \subseteq Born
      BY DEF IInv, TodoInv
  <2> QED BY <1>3, <2>1 DEF KindsInv
<1>8. \A s \in Slots : \A o \in calls'[s].ops : kind'[o] = "rpc" => calls'[s].ops = {o}
  <2>1. \A s \in Slots : calls[s].ops \subseteq Born
      BY DEF IInv, CallsInv
  <2> QED BY <1>3, <2>1 DEF KindsInv, serverVars
<1> QED BY <1>5, <1>6, <1>7, <1>8 DEF KindsInv

LEMMA KindsStay ==
    ASSUME KindsInv, UNCHANGED <<kind, dep, lastSeq>>,
           \A a \in Assets : lastOp'[a] \in {lastOp[a], NoOp},
           \A S \in todo' : S \in todo \/ \A o \in S : kind[o] = "rpc" => S = {o},
           \A s \in Slots : \/ calls'[s].ops = calls[s].ops
                            \/ \A o \in calls'[s].ops : kind[o] = "rpc" => calls'[s].ops = {o}
    PROVE  KindsInv'
BY DEF KindsInv, Born

LEMMA PersonKinds == TypeOK /\ IInv /\ KindsInv /\ Person => KindsInv'
<1> SUFFICES ASSUME TypeOK, IInv, KindsInv, Person PROVE KindsInv'
    OBVIOUS
<1>1. UNCHANGED <<serverVars, todo>>
    BY DEF Person
<1>2. lastSeq \in Nat /\ \A a \in Assets : lastOp[a] \in 0..lastSeq
    BY OutboxAssumption DEF TypeOK, OutboxTypeOK, IInv, RowsInv
<1>3. Present \subseteq 0..lastSeq /\ \A o \in Present : o # NoOp
    BY RowsAreBorn DEF IInv, Born
<1>4. ASSUME NEW a \in Assets, NEW e \in Events, Scan(a, e) PROVE KindsInv'
  <2>1. \A b \in Assets : lastOp'[b] = lastOp[b] \/ lastOp'[b] = lastSeq + 1
      BY <1>4 DEF Scan, TypeOK, OutboxTypeOK
  <2>2. lastOp[a] # NoOp => kind[lastOp[a]] # "rpc"
      BY DEF KindsInv
  <2> QED BY <1>1, <1>2, <1>4, <2>1, <2>2, EnqueueKinds DEF Scan
<1>5. CASE ScanUnresolved
    BY <1>1, <1>2, <1>5, EnqueueKinds DEF ScanUnresolved, sessionVars
<1>6. ASSUME NEW o \in Ops, VoidScan(o) PROVE KindsInv'
    BY <1>1, <1>2, <1>3, <1>6, EnqueueKinds DEF VoidScan, sessionVars
<1>7. CASE EnqueueOp
  <2>1. PICK d \in {NoOp} \cup {o \in Queued : kind[o] = "rpc"} : Enqueue("rpc", d)
      BY <1>7 DEF EnqueueOp
  <2>2. d \in 0..lastSeq
      BY <1>2, <1>3 DEF Present
  <2> QED BY <1>1, <1>7, <2>1, <2>2, EnqueueKinds DEF EnqueueOp, sessionVars
<1>8. CASE NewSession
    BY <1>1, <1>8, KindsStay DEF NewSession, outboxVars, serverVars
<1>9. CASE \E o \in Ops : DismissCard(o) \/ BackoffElapses(o)
    BY <1>1, <1>9, KindsStay DEF DismissCard, BackoffElapses, sessionVars, serverVars
<1> QED BY <1>4, <1>5, <1>6, <1>7, <1>8, <1>9 DEF Person

LEMMA SendKinds == TypeOK /\ IInv /\ KindsInv /\ SendNext => KindsInv'
<1> SUFFICES ASSUME TypeOK, IInv, KindsInv, SendNext PROVE KindsInv'
    OBVIOUS
<1>1. PICK S \in todo :
        /\ todo' = todo \ {S}
        /\ IF Live(S) = {}
           THEN UNCHANGED <<outboxVars, serverVars>>
           ELSE /\ MarkInflight(Live(S))
                /\ \E s \in Slots : calls' = [calls EXCEPT ![s] =
                            [IdleCall EXCEPT !.step = "sent", !.ops = Live(S), !.open = TRUE]]
                /\ UNCHANGED <<effects, session>>
    BY DEF SendNext
<1>2. UNCHANGED <<kind, dep, lastSeq, lastOp>>
    BY <1>1 DEF SendNext, MarkInflight, outboxVars, sessionVars
<1>3. \A o \in Live(S) : kind[o] = "rpc" => Live(S) = {o}
    BY DEF KindsInv, Live
<1>4. \A s \in Slots : \/ calls'[s] = calls[s]
                       \/ calls'[s].ops = Live(S)
    BY <1>1 DEF IdleCall, serverVars, TypeOK, ServerTypeOK
<1>5. \A s \in Slots : \/ calls'[s].ops = calls[s].ops
                       \/ \A o \in calls'[s].ops : kind[o] = "rpc" => calls'[s].ops = {o}
    BY <1>3, <1>4
<1> QED BY <1>1, <1>2, <1>5, KindsStay

LEMMA VerdictKinds ==
    ASSUME TypeOK, IInv, KindsInv, NEW s \in Slots, ReceiveVerdict(s)
    PROVE  KindsInv'
<1> DEFINE B == calls[s].ops
<1>1. B \in SUBSET Ops
    BY DEF TypeOK, ServerTypeOK, Call
<1>2. FirstHalf(B) \subseteq B
    BY <1>1, HalvesInOrder
<1>3. \A o \in B : kind[o] = "rpc" => B = {o}
    BY DEF KindsInv
<1>4. \A S \in todo' : S \in todo \/ S = FirstHalf(B) \/ S = B \ FirstHalf(B)
    BY DEF ReceiveVerdict
<1> HIDE DEF B
<1>5. \A S \in todo' : S \in todo \/ \A o \in S : kind[o] = "rpc" => S = {o}
    BY <1>2, <1>3, <1>4
<1>6. \A t \in Slots : \/ calls'[t].ops = calls[t].ops
                       \/ calls'[t].ops = {}
    BY DEF ReceiveVerdict, HangUp, IdleCall, TypeOK, ServerTypeOK
<1>7. UNCHANGED <<kind, dep, lastSeq, lastOp>>
    BY DEF ReceiveVerdict, Fail, outboxVars, sessionVars
<1> QED BY <1>5, <1>6, <1>7, KindsStay

LEMMA KindsStep == TypeOK /\ IInv /\ KindsInv /\ [Next]_vars => KindsInv'
<1> SUFFICES ASSUME TypeOK, IInv, KindsInv, [Next]_vars PROVE KindsInv'
    OBVIOUS
<1>1. \A s \in Slots : calls[s] \in Call
    BY DEF TypeOK, ServerTypeOK
<1>2. \A s \in Slots : Abandoned(s).ops = calls[s].ops \/ Abandoned(s).ops = {}
    BY <1>1 DEF Abandoned, IdleCall, Call
<1>3. CASE Person
    BY <1>3, PersonKinds
<1>4. CASE StartFlush
  <2>1. \A S \in todo' : \A o \in S : kind[o] = "rpc" => S = {o}
    <3>1. \A p \in NextBatch : p \in Int
        BY OutboxAssumption DEF NextBatch, Queued
    <3> QED BY <1>4, <3>1 DEF StartFlush, Segments, SegmentOf
  <2> QED BY <1>4, <2>1, KindsStay DEF StartFlush, outboxVars, sessionVars, serverVars
<1>5. CASE SendNext
    BY <1>5, SendKinds
<1>6. ASSUME NEW s \in Slots, ReceiveAnswer(s) PROVE KindsInv'
  <2>1. \A t \in Slots : calls'[t] = calls[t] \/ calls'[t] = IdleCall
      BY <1>6 DEF ReceiveAnswer, HangUp, TypeOK, ServerTypeOK
  <2> QED BY <1>6, <2>1, KindsStay DEF ReceiveAnswer, Ack, sessionVars, IdleCall
<1>7. ASSUME NEW s \in Slots, ReceiveVerdict(s) PROVE KindsInv'
    BY <1>7, VerdictKinds
<1>8. ASSUME NEW s \in Slots, ReceiveNothing(s) PROVE KindsInv'
  <2>1. \A t \in Slots : calls'[t] = calls[t] \/ calls'[t] = Abandoned(t)
      BY <1>8 DEF ReceiveNothing, TypeOK, ServerTypeOK
  <2>2. \A t \in Slots : calls'[t].ops = calls[t].ops \/ calls'[t].ops = {}
      BY <1>2, <2>1
  <2> QED BY <1>8, <2>2, KindsStay DEF ReceiveNothing, RetryLater, sessionVars
<1>9. CASE Crash
  <2>1. \A t \in Slots : calls'[t] = calls[t] \/ calls'[t] = Abandoned(t)
      BY <1>9 DEF Crash
  <2>2. \A t \in Slots : calls'[t].ops = calls[t].ops \/ calls'[t].ops = {}
      BY <1>2, <2>1
  <2> QED BY <1>9, <2>2, KindsStay DEF Crash, outboxVars
<1>10. ASSUME NEW s \in Slots, NEW c, calls' = [calls EXCEPT ![s] = c],
              c.ops \in {calls[s].ops, {}},
              UNCHANGED <<outboxVars, sessionVars, todo>>
       PROVE  KindsInv'
  <2>1. \A t \in Slots : calls'[t].ops = calls[t].ops \/ calls'[t].ops = {}
      BY <1>10 DEF TypeOK, ServerTypeOK
  <2> QED BY <1>10, <2>1, KindsStay DEF outboxVars, sessionVars
<1>11. \A s \in Slots : \A x, n : Answered(s, x, n).ops \in {calls[s].ops, {}}
    BY <1>1 DEF Answered, IdleCall, Call
<1>12. ASSUME NEW s \in Slots, UNCHANGED <<outboxVars, sessionVars, todo>>,
              CallLost(s) \/ ServerTurnsAway(s) \/ ServerCommit(s)
       PROVE  KindsInv'
    BY <1>10, <1>11, <1>12 DEF CallLost, ServerTurnsAway, ServerCommit
<1>13. ASSUME NEW s \in Slots, UNCHANGED <<outboxVars, sessionVars, todo>>, ServerBegin(s)
       PROVE  KindsInv'
  <2>1. \A c : c = [calls[s] EXCEPT !.step = "running", !.dups = calls[s].ops \cap Landed]
                => c.ops = calls[s].ops
      BY <1>1 DEF Call
  <2>2. CASE Refused(calls[s].ops) = {}
    <3>1. calls' = [calls EXCEPT ![s] =
                [calls[s] EXCEPT !.step = "running", !.dups = calls[s].ops \cap Landed]]
        BY <1>1, <1>13, <2>2 DEF ServerBegin, TypeOK, ServerTypeOK
    <3> QED BY <1>10, <1>13, <2>1, <3>1
  <2>3. CASE Refused(calls[s].ops) # {}
      BY <1>10, <1>11, <1>13, <2>3 DEF ServerBegin
  <2> QED BY <2>2, <2>3
<1>14. CASE Environment
    BY <1>14, KindsStay DEF Environment, SessionChanges, outboxVars, sessionVars
<1>15. CASE UNCHANGED vars
    BY <1>15, KindsStay DEF vars
<1> QED BY <1>3, <1>4, <1>5, <1>6, <1>7, <1>8, <1>9, <1>12, <1>13, <1>14, <1>15
        DEF Next, Phone, Outage, Server

-----------------------------------------------------------------------------
(* What a verdict takes with it.                                           *)

LEMMA SoleSuspect ==
    ASSUME TypeOK, IInv, Naming = FALSE, NEW s \in Slots, ReceiveVerdict(s), NEW r \in Guilty(s)
    PROVE  calls[s].ops = {r} /\ r \in Ops /\ r \in Queued
<1>1. calls[s] \in Call /\ calls[s].open
    BY DEF ReceiveVerdict, TypeOK, ServerTypeOK
<1>2. calls[s].culprit = NoOp /\ calls[s].ops \subseteq Queued
    BY <1>1 DEF IInv, CallsInv
<1>3. Cardinality(calls[s].ops) = 1 /\ r \in calls[s].ops
    BY <1>2 DEF Guilty
<1>4. IsFiniteSet(calls[s].ops)
  <2>1. MaxOps \in Int /\ 1 \in Int
      BY OutboxAssumption
  <2>2. IsFiniteSet(Ops)
      BY <2>1, FS_Interval
  <2>3. calls[s].ops \in SUBSET Ops
      BY <1>1 DEF Call
  <2> QED BY <2>2, <2>3, FS_Subset
<1>5. PICK x : calls[s].ops = {x}
    BY <1>3, <1>4, FS_Singleton
<1> QED BY <1>2, <1>3, <1>5 DEF Queued

LEMMA CascadeLeast ==
    ASSUME NEW r \in Ops, NEW S \in SUBSET Ops, r \in S, ClosedIn(Present, S)
    PROVE  Cascade(r) \subseteq S
BY DEF Cascade, ClosureIn

(* fail takes no op that has landed, save desk writes behind a desk write   *)
(* that did, and nothing a running call may land, unless the call holds the *)
(* refused op itself.                                                       *)
LEMMA CascadeFair ==
    ASSUME TypeOK, IInv, KindsInv, Naming = FALSE, NEW r \in Queued,
           r \in Landed => kind[r] = "rpc"
    PROVE  /\ \A o \in Cascade(r) \cap Landed : kind[o] = "rpc"
           /\ \A t \in Slots : r \notin calls[t].ops \ Landed =>
                \A o \in calls[t].ops \ Landed : o \notin Cascade(r)
<1>1. r \in Ops /\ r \in Present /\ Present \in SUBSET Ops /\ Present \subseteq Born
    BY RowsAreBorn DEF Present, Queued, Parked, IInv
<1>2. \A c \in Present : /\ ~Gone(c)
                         /\ dep[c] # c
                         /\ dep[c] \in Present => dep[c] # NoOp /\ ~Gone(dep[c])
    BY <1>1, BornParents DEF Gone, Present, Queued, Parked
<1>3. CASE r \notin Landed
  <2>1. ASSUME NEW c \in Present, dep[c] \in Present \ Landed PROVE c \notin Landed
      BY <1>2, <2>1 DEF IInv, ParentFirst, Gone
  <2>2. ClosedIn(Present, Present \ Landed)
      BY <2>1 DEF ClosedIn
  <2>3. Cascade(r) \subseteq Present \ Landed
      BY <1>1, <1>3, <2>2, CascadeLeast
  <2>4. ASSUME NEW t \in Slots, r \notin calls[t].ops \ Landed
        PROVE  Cascade(r) \subseteq (Present \ Landed) \ calls[t].ops
    <3>1. ASSUME NEW c \in Present, dep[c] \in (Present \ Landed) \ calls[t].ops
          PROVE  c \in (Present \ Landed) \ calls[t].ops
      <4>1. c \in calls[t].ops => dep[c] \in calls[t].ops \/ Gone(dep[c])
          BY <1>2, <3>1 DEF IInv, ParentsInCalls
      <4> QED BY <1>2, <2>1, <3>1, <4>1
    <3>2. ClosedIn(Present, (Present \ Landed) \ calls[t].ops)
        BY <3>1 DEF ClosedIn
    <3> QED BY <1>1, <1>3, <2>4, <3>2, CascadeLeast
  <2> QED BY <2>3, <2>4
<1>4. CASE r \in Landed
  <2> DEFINE W == {o \in Present : kind[o] = "rpc"}
  <2>1. ASSUME NEW c \in Present, dep[c] \in W PROVE c \in W
      BY <1>1, <1>2, <2>1 DEF KindsInv
  <2>2. ClosedIn(Present, W)
      BY <2>1 DEF ClosedIn
  <2>3. r \in W /\ W \in SUBSET Ops
      BY <1>1, <1>4
  <2>4. Cascade(r) \subseteq W
    <3> HIDE DEF W
    <3> QED BY <1>1, <2>2, <2>3, CascadeLeast
  <2>5. ASSUME NEW t \in Slots, r \notin calls[t].ops \ Landed
        PROVE  Cascade(r) \subseteq W \ (calls[t].ops \ Landed)
    <3>1. ASSUME NEW c \in Present, dep[c] \in W \ (calls[t].ops \ Landed)
          PROVE  c \in W \ (calls[t].ops \ Landed)
      <4>1. c \in W
          BY <2>1, <3>1
      <4>2. c \in calls[t].ops => dep[c] \in calls[t].ops \/ Gone(dep[c])
          BY <1>2, <3>1 DEF IInv, ParentsInCalls
      <4>3. c \in calls[t].ops => calls[t].ops = {c}
          BY <4>1 DEF KindsInv
      <4>4. c \notin calls[t].ops
          BY <1>2, <3>1, <4>2, <4>3
      <4> QED BY <4>1, <4>4
    <3>2. ClosedIn(Present, W \ (calls[t].ops \ Landed))
        BY <3>1 DEF ClosedIn
    <3>3. r \in W \ (calls[t].ops \ Landed) /\ W \ (calls[t].ops \ Landed) \in SUBSET Ops
        BY <2>3, <2>5
    <3> HIDE DEF W
    <3> QED BY <1>1, <3>2, <3>3, CascadeLeast
  <2> QED BY <2>4, <2>5
<1> QED BY <1>3, <1>4

LEMMA HeldNotCondemned ==
    ASSUME NEW t \in Slots, HeldInRun(t), calls[t].step = "running",
           NEW o \in calls[t].ops \ Landed
    PROVE  ~Condemned(o) /\ o \notin Dropped /\ o \in Queued /\ o \notin Parked
<1>1. /\ o \in Queued /\ o \notin Poison
      /\ kind[o] = "void" => dep[o] \in Landed \cup calls[t].ops
    BY DEF HeldInRun
<1>2. \A d \in calls[t].ops \ Landed : ~Gone(d)
    BY DEF HeldInRun, Gone, Queued
<1>3. o \notin Parked
    BY <1>1 DEF Queued, Parked
<1> QED BY <1>1, <1>2, <1>3 DEF Condemned, Dropped

LEMMA ParkFair ==
    ASSUME TypeOK, IInv, KindsInv, FairInv, Naming = FALSE,
           NEW s \in Slots, ReceiveVerdict(s), NEW r \in Guilty(s), Fail(r)
    PROVE  FairInv'
<1>1. calls[s].ops = {r} /\ r \in Ops /\ r \in Queued /\ calls[s].step = "refused"
    BY SoleSuspect DEF ReceiveVerdict
<1>2. IF r \in Landed THEN kind[r] = "rpc" ELSE Condemned(r)
    BY <1>1 DEF FairInv, CallFair, VerdictIsDue
<1>3. /\ \A o \in Cascade(r) \cap Landed : kind[o] = "rpc"
      /\ \A t \in Slots : r \notin calls[t].ops \ Landed =>
           \A o \in calls[t].ops \ Landed : o \notin Cascade(r)
    BY <1>1, <1>2, CascadeFair
<1>4. /\ \A o \in Ops : state'[o] = IF o \notin Cascade(r) \cap Present THEN state[o]
                                    ELSE IF o = r THEN "failed" ELSE "blocked"
      /\ UNCHANGED <<kind, dep, effects, Landed>>
    BY DEF ReceiveVerdict, Fail, Landed
<1>5. \A o \in Ops : /\ o \in Queued' <=> o \in Queued /\ o \notin Cascade(r)
                     /\ o \in Parked' => o \in Parked \/ o \in Cascade(r)
                     /\ Gone(o)' <=> Gone(o)
    BY <1>4 DEF Queued, Parked, Present, Gone
<1>6. Dropped' = Dropped /\ \A o : Condemned(o)' <=> Condemned(o)
  <2>1. Dropped' = Dropped
      BY <1>4, <1>5 DEF Dropped
  <2> QED BY <1>4, <2>1 DEF Condemned
<1>7. calls'[s] = IdleCall /\ \A t \in Slots \ {s} : calls'[t] = calls[t]
    BY DEF ReceiveVerdict, HangUp, TypeOK, ServerTypeOK
<1>8. ASSUME NEW t \in Slots, t # s PROVE CallFair(t)'
  <2>1. calls'[t] = calls[t] /\ calls[t].ops \subseteq Ops /\ CallFair(t)
      BY <1>7, <1>8 DEF FairInv, TypeOK, ServerTypeOK, Call
  <2>2. HeldInRun(t)'
    <3> SUFFICES ASSUME calls[t].step = "running", NEW o \in calls[t].ops \ Landed
                 PROVE  /\ o \in Queued' /\ o \notin Poison
                        /\ kind[o] = "void" => dep[o] \in Landed \cup calls[t].ops
        BY <1>4, <2>1 DEF HeldInRun
    <3>1. r \notin calls[t].ops \ Landed
        BY <1>2, <2>1, HeldNotCondemned DEF CallFair
    <3> QED BY <1>3, <1>5, <2>1, <3>1 DEF CallFair, HeldInRun
  <2>3. TravelTogether(t)'
    <3> SUFFICES ASSUME NEW o \in calls[t].ops \cap Queued', dep[o] \in calls[t].ops
                 PROVE  dep[o] \in Queued' \cup Landed
        BY <1>4, <2>1 DEF TravelTogether
    <3>1. o \in Queued /\ o \in Present /\ o \notin Cascade(r)
        BY <1>5, <2>1 DEF Present
    <3>2. dep[o] \notin Cascade(r)
        BY <1>1, <3>1, CascadeClosed
    <3> QED BY <1>5, <2>1, <3>1, <3>2 DEF CallFair, TravelTogether
  <2>4. WillBeRefused(t)'
    <3> SUFFICES ASSUME calls[t].step = "sent", ~(calls[t].ops \subseteq Queued' \cup Landed)
                 PROVE  \E p \in calls[t].ops \ Landed :
                            Condemned(p) /\ (p \in Poison \/ dep[p] \notin calls[t].ops)
        BY <1>4, <1>6, <2>1 DEF WillBeRefused
    <3>1. CASE ~(calls[t].ops \subseteq Queued \cup Landed)
        BY <2>1, <3>1 DEF CallFair, WillBeRefused
    <3>2. CASE calls[t].ops \subseteq Queued \cup Landed
      <4>1. PICK o \in calls[t].ops \ Landed : o \notin Queued'
          OBVIOUS
      <4>2. o \in Cascade(r)
          BY <1>5, <2>1, <3>2, <4>1
      <4>3. r \in calls[t].ops \ Landed /\ Condemned(r)
          BY <1>2, <1>3, <4>1, <4>2
      <4>4. dep[r] \in Dropped => dep[r] \notin calls[t].ops
          BY <3>2 DEF Dropped, Gone, Queued
      <4> QED BY <4>3, <4>4 DEF Condemned
    <3> QED BY <3>1, <3>2
  <2>5. VerdictIsDue(t)'
      BY <1>4, <1>6, <2>1 DEF CallFair, VerdictIsDue
  <2>6. OneScanBatch(t)'
      BY <1>4, <1>7, <2>1 DEF CallFair, OneScanBatch, IsScanCall, IdleCall
  <2> QED BY <2>2, <2>3, <2>4, <2>5, <2>6 DEF CallFair
<1>9. CallFair(s)'
    BY <1>7 DEF CallFair, HeldInRun, TravelTogether, WillBeRefused, VerdictIsDue,
       OneScanBatch, IdleCall
<1>10. ParkedUnlanded'
    BY <1>3, <1>4, <1>5 DEF FairInv, ParkedUnlanded, Landed
<1>11. FailedFairly'
    BY <1>2, <1>4, <1>6 DEF FairInv, FailedFairly
<1> QED BY <1>8, <1>9, <1>10, <1>11 DEF FairInv

-----------------------------------------------------------------------------
(* The calls: sent, run, answered.                                         *)

LEMMA SendFair ==
    ASSUME TypeOK, IInv, FairInv, SendNext
    PROVE  FairInv'
<1>1. PICK S \in todo :
        IF Live(S) = {}
           THEN UNCHANGED <<outboxVars, serverVars>>
           ELSE /\ MarkInflight(Live(S))
                /\ \E s \in Slots : calls' = [calls EXCEPT ![s] =
                            [IdleCall EXCEPT !.step = "sent", !.ops = Live(S), !.open = TRUE]]
                /\ UNCHANGED <<effects, session>>
    BY DEF SendNext
<1>2. CASE Live(S) = {}
    BY <1>1, <1>2, RowsMoveFair DEF outboxVars, serverVars, LetGo, Gone, Queued, Parked, Born
<1>3. CASE Live(S) # {}
  <2>1. PICK s \in Slots : calls' = [calls EXCEPT ![s] =
                [IdleCall EXCEPT !.step = "sent", !.ops = Live(S), !.open = TRUE]]
      BY <1>1, <1>3
  <2>2. /\ calls'[s].step = "sent" /\ calls'[s].ops = Live(S)
        /\ \A t \in Slots \ {s} : calls'[t] = calls[t]
      BY <2>1 DEF IdleCall, TypeOK, ServerTypeOK
  <2>3. /\ \A o \in Ops : state'[o] = IF o \in Live(S) \cap Present THEN "inflight" ELSE state[o]
        /\ UNCHANGED <<kind, dep, effects, Landed>>
      BY <1>1, <1>3 DEF MarkInflight, Landed
  <2>4. Live(S) \subseteq Queued
      BY DEF Live
  <2>5. \A o \in Ops : /\ o \in Queued' <=> o \in Queued
                       /\ o \in Parked' <=> o \in Parked
                       /\ Gone(o)' <=> Gone(o)
                       /\ state'[o] = "failed" <=> state[o] = "failed"
      BY <2>3, <2>4 DEF Queued, Parked, Gone
  <2>6. UNCHANGED <<Queued, Parked, Dropped>>
      BY <2>3, <2>5 DEF Queued, Parked, Dropped
  <2>7. \A o : Condemned(o)' <=> Condemned(o)
      BY <2>3, <2>6 DEF Condemned
  <2>8. CallFair(s)'
      BY <2>2, <2>4, <2>6 DEF CallFair, HeldInRun, TravelTogether, WillBeRefused,
         VerdictIsDue, OneScanBatch
  <2>9. ASSUME NEW t \in Slots, t # s PROVE CallFair(t)'
    <3>1. calls'[t] = calls[t] /\ CallFair(t)
        BY <2>2, <2>9 DEF FairInv
    <3>2. HeldInRun(t)' /\ TravelTogether(t)' /\ WillBeRefused(t)' /\ VerdictIsDue(t)'
        BY <2>3, <2>6, <2>7, <3>1 DEF CallFair, HeldInRun, TravelTogether, WillBeRefused, VerdictIsDue
    <3>3. OneScanBatch(t)'
        BY <2>2, <2>3, <3>1 DEF CallFair, OneScanBatch, IsScanCall
    <3> QED BY <3>2, <3>3 DEF CallFair
  <2>10. ParkedUnlanded' /\ FailedFairly'
      BY <2>3, <2>5, <2>6, <2>7 DEF FairInv, ParkedUnlanded, FailedFairly
  <2> QED BY <2>8, <2>9, <2>10 DEF FairInv
<1> QED BY <1>2, <1>3

(* The rows stand still and one call moves on. *)
LEMMA CallStepFair ==
    ASSUME TypeOK, IInv, FairInv, NEW s \in Slots, NEW c, calls' = [calls EXCEPT ![s] = c],
           UNCHANGED <<outboxVars, effects>>,
           \/ c = IdleCall
           \/ /\ c.ops = calls[s].ops
              /\ CallFair(s)',
           c.step = "running" => DeviceRowFree(s)
    PROVE  FairInv'
<1>1. calls'[s] = c /\ \A t \in Slots \ {s} : calls'[t] = calls[t]
    BY DEF TypeOK, ServerTypeOK
<1>2. UNCHANGED <<state, kind, dep, Landed, Queued, Parked, Dropped>>
    BY DEF outboxVars, Landed, Queued, Parked, Dropped, Gone
<1>3. \A o : Condemned(o)' <=> Condemned(o)
    BY <1>2 DEF Condemned
<1>4. CallFair(s)'
  <2>1. CASE c = IdleCall
      BY <1>1, <2>1 DEF CallFair, HeldInRun, TravelTogether, WillBeRefused,
         VerdictIsDue, OneScanBatch, IdleCall
  <2> QED BY <2>1
<1>5. ASSUME NEW t \in Slots, t # s PROVE CallFair(t)'
  <2>1. calls'[t] = calls[t] /\ CallFair(t)
      BY <1>1, <1>5 DEF FairInv
  <2>2. HeldInRun(t)' /\ TravelTogether(t)' /\ WillBeRefused(t)' /\ VerdictIsDue(t)'
      BY <1>2, <1>3, <2>1 DEF CallFair, HeldInRun, TravelTogether, WillBeRefused, VerdictIsDue
  <2>3. IsScanCall(t)' <=> IsScanCall(t)
      BY <1>2, <2>1 DEF IsScanCall
  <2>4. c.step = "running" => (IsScanCall(s)' <=> IsScanCall(s))
      BY <1>1, <1>2 DEF IsScanCall, IdleCall
  <2>5. OneScanBatch(t)'
    <3> SUFFICES ASSUME calls[t].step = "running", IsScanCall(t)
                 PROVE  /\ calls[t].ops \cap Landed \subseteq calls[t].dups
                        /\ \A u \in Slots \ {t} : calls'[u].step = "running" => ~IsScanCall(u)'
        BY <1>2, <2>1, <2>3 DEF OneScanBatch
    <3>1. /\ calls[t].ops \cap Landed \subseteq calls[t].dups
          /\ \A u \in Slots \ {t} : calls[u].step = "running" => ~IsScanCall(u)
        BY <2>1 DEF CallFair, OneScanBatch
    <3>2. c.step = "running" => ~IsScanCall(s)'
        BY <1>5, <2>4 DEF DeviceRowFree
    <3>3. \A u \in Slots \ {s, t} : calls'[u].step = "running" => ~IsScanCall(u)'
        BY <1>1, <1>2, <3>1 DEF IsScanCall
    <3> QED BY <1>1, <3>1, <3>2, <3>3
  <2> QED BY <2>2, <2>5 DEF CallFair
<1>6. ParkedUnlanded' /\ FailedFairly'
    BY <1>2, <1>3 DEF FairInv, ParkedUnlanded, FailedFairly
<1> QED BY <1>4, <1>5, <1>6 DEF FairInv

(* An answer that is not a fresh landing: a refusal is due, or it is none. *)
LEMMA AnsweredFair ==
    ASSUME TypeOK, IInv, FairInv, NEW s \in Slots, NEW x \in {"refused", "lost"}, NEW n,
           calls' = [calls EXCEPT ![s] = Answered(s, x, n)],
           UNCHANGED <<outboxVars, effects>>,
           x = "refused" => \A o \in calls[s].ops : calls[s].ops = {o} =>
                               IF o \in Landed THEN kind[o] = "rpc" ELSE Condemned(o)
    PROVE  FairInv'
<1> DEFINE c == Answered(s, x, n)
<1>1. c = IdleCall \/ (c.ops = calls[s].ops /\ c.step = x)
    BY AnsweredShape
<1>2. calls'[s] = c
    BY DEF TypeOK, ServerTypeOK
<1>3. UNCHANGED <<state, kind, dep, Landed, Queued, Dropped>>
    BY DEF outboxVars, Landed, Queued, Dropped, Gone
<1>4. \A o : Condemned(o)' <=> Condemned(o)
    BY <1>3 DEF Condemned
<1>5. CallFair(s)
    BY DEF FairInv
<1>6. c # IdleCall => CallFair(s)'
    BY <1>1, <1>2, <1>3, <1>4, <1>5 DEF CallFair, HeldInRun, TravelTogether, WillBeRefused,
       VerdictIsDue, OneScanBatch
<1>7. c.step = "running" => DeviceRowFree(s)
    BY <1>1 DEF IdleCall
<1> HIDE DEF c
<1>8. calls' = [calls EXCEPT ![s] = c]
    BY DEF c
<1> QED BY <1>1, <1>6, <1>7, <1>8, CallStepFair

LEMMA BeginFair ==
    ASSUME TypeOK, IInv, SessionInv, KindsInv, FairInv, Naming = FALSE, BearerKeeps,
           NEW s \in Slots, ServerBegin(s), UNCHANGED outboxVars
    PROVE  FairInv'
<1> DEFINE B == calls[s].ops
<1>1. calls[s] \in Call /\ B \subseteq Born /\ CallFair(s)
    BY DEF TypeOK, ServerTypeOK, IInv, CallsInv, FairInv
<1>2. \A o \in B : RuleRefuses(o, B) => o \in Refused(B)
    BY DEF Refused
<1>3. CASE Refused(B) = {}
  <2> DEFINE c == [calls[s] EXCEPT !.step = "running", !.dups = B \cap Landed]
  <2>1. calls' = [calls EXCEPT ![s] = c]
      BY <1>1, <1>3 DEF ServerBegin, TypeOK, ServerTypeOK
  <2>2. c.ops = B /\ c.step = "running" /\ c.dups = B \cap Landed
      BY <1>1 DEF Call
  <2> HIDE DEF c
  <2>3. calls'[s] = c
      BY <2>1 DEF TypeOK, ServerTypeOK
  <2>4. UNCHANGED <<state, kind, dep, Landed, Queued, Dropped>>
      BY DEF ServerBegin, outboxVars, Landed, Queued, Dropped, Gone
  <2>5. \A o \in B \ Landed : o \notin Poison /\ (kind[o] = "void" => dep[o] \in Landed \cup B)
      BY <1>2, <1>3 DEF RuleRefuses
  <2>6. B \subseteq Queued \cup Landed
    <3>1. calls[s].step = "sent"
        BY DEF ServerBegin
    <3> QED BY <1>1, <2>5, <3>1 DEF CallFair, WillBeRefused, Condemned, Dropped
  <2>7. HeldInRun(s)'
      BY <2>2, <2>3, <2>4, <2>5, <2>6 DEF HeldInRun
  <2>8. TravelTogether(s)'
      BY <1>1, <2>2, <2>3, <2>4 DEF CallFair, TravelTogether
  <2>9. WillBeRefused(s)' /\ VerdictIsDue(s)'
      BY <2>2, <2>3 DEF WillBeRefused, VerdictIsDue
  <2>10. OneScanBatch(s)'
    <3>1. \A t \in Slots \ {s} : calls'[t] = calls[t]
        BY <2>1 DEF TypeOK, ServerTypeOK
    <3>2. DeviceRowFree(s)
        BY DEF ServerBegin
    <3> QED BY <2>2, <2>3, <2>4, <3>1, <3>2 DEF OneScanBatch, IsScanCall, DeviceRowFree
  <2> QED BY <2>1, <2>2, <2>7, <2>8, <2>9, <2>10, CallStepFair DEF CallFair, ServerBegin
<1>4. CASE Refused(B) # {}
  <2>1. PICK named : calls' = [calls EXCEPT ![s] = Answered(s, "refused", named)]
      BY <1>4 DEF ServerBegin
  <2>2. ASSUME NEW o \in B, B = {o} PROVE o \notin Landed /\ Condemned(o)
    <3>1. GateRefuses(o) \/ RuleRefuses(o, B)
        BY <1>4, <2>2 DEF Refused
    <3>2. ~GateRefuses(o)
        BY DEF GateRefuses, SessionInv, BearerKeeps
    <3>3. o \notin Landed /\ (o \in Poison \/ (kind[o] = "void" /\ dep[o] \notin Landed \cup B))
        BY <3>1, <3>2 DEF RuleRefuses
    <3>4. o \in Born /\ (dep[o] # NoOp => dep[o] \in B \/ Gone(dep[o]))
        BY <1>1 DEF IInv, ParentsInCalls
    <3>5. dep[o] # NoOp => dep[o] \in Ops
        BY <3>4, BornParents
    <3>6. kind[o] = "void" => dep[o] # NoOp
        BY <3>4 DEF KindsInv
    <3> QED BY <3>3, <3>4, <3>5, <3>6 DEF Condemned, Dropped
  <2> QED BY <2>1, <2>2, AnsweredFair DEF ServerBegin
<1> QED BY <1>3, <1>4

LEMMA CommitFair ==
    ASSUME TypeOK, IInv, KindsInv, FairInv,
           NEW s \in Slots, ServerCommit(s), UNCHANGED outboxVars
    PROVE  FairInv'
<1> DEFINE B == calls[s].ops
<1>1. /\ calls[s] \in Call /\ calls[s].dups \subseteq Landed /\ CallFair(s)
      /\ calls[s].step = "running"
    BY DEF TypeOK, ServerTypeOK, IInv, CallsInv, FairInv, ServerCommit
<1>2. CASE Clash(s) = {}
  <2>1. \A o \in Ops : effects[o] \in Nat
      BY DEF TypeOK, ServerTypeOK
  <2>2. \A o \in Ops : effects'[o] = IF o \in B \ calls[s].dups
                                     THEN effects[o] + 1 ELSE effects[o]
      BY <1>2 DEF ServerCommit
  <2>3. \A o \in Ops : o \in Landed' <=> o \in Landed \/ o \in B
      BY <1>1, <2>1, <2>2 DEF Landed
  <2>4. Landed' = Landed \cup B
      BY <1>1, <2>3 DEF Landed, Call
  <2>5. \A o \in B \ Landed : ~Condemned(o) /\ o \notin Dropped /\ o \in Queued /\ o \notin Parked
      BY <1>1, HeldNotCondemned DEF CallFair
  <2>6. UNCHANGED <<state, kind, dep, Queued, Parked, Dropped>>
    <3>1. UNCHANGED <<state, kind, dep, Queued, Parked>>
        BY DEF outboxVars, Queued, Parked
    <3>2. Dropped' = Dropped
        BY <2>4, <2>5, <3>1 DEF Dropped, Gone
    <3> QED BY <3>1, <3>2
  <2>7. \A o : Condemned(o)' <=> Condemned(o)
      BY <2>6 DEF Condemned
  <2>8. calls' = [calls EXCEPT ![s] = Answered(s, "done", NoOp)]
      BY <1>2 DEF ServerCommit
  <2>9. /\ calls'[s] = IdleCall \/ (calls'[s].ops = B /\ calls'[s].step = "done")
        /\ \A t \in Slots \ {s} : calls'[t] = calls[t]
      BY <2>8, AnsweredShape DEF TypeOK, ServerTypeOK
  <2>10. CallFair(s)'
      BY <1>1, <2>4, <2>6, <2>9 DEF CallFair, HeldInRun, TravelTogether, WillBeRefused,
         VerdictIsDue, OneScanBatch, IdleCall
  <2>11. ASSUME NEW t \in Slots, t # s PROVE CallFair(t)'
    <3>1. calls'[t] = calls[t] /\ CallFair(t)
        BY <2>9, <2>11 DEF FairInv
    <3>2. HeldInRun(t)'
        BY <2>4, <2>6, <3>1 DEF CallFair, HeldInRun
    <3>3. TravelTogether(t)'
        BY <2>4, <2>6, <3>1 DEF CallFair, TravelTogether
    <3>4. WillBeRefused(t)'
        BY <2>4, <2>5, <2>6, <2>7, <3>1 DEF CallFair, WillBeRefused
    <3>5. VerdictIsDue(t)'
        BY <2>4, <2>5, <2>6, <2>7, <3>1 DEF CallFair, VerdictIsDue
    <3>6. OneScanBatch(t)'
      <4> SUFFICES ASSUME calls[t].step = "running", IsScanCall(t)
                   PROVE  /\ calls[t].ops \cap Landed' \subseteq calls[t].dups
                          /\ \A u \in Slots \ {t} : calls'[u].step = "running" => ~IsScanCall(u)'
          BY <2>6, <3>1 DEF OneScanBatch, IsScanCall
      <4>1. /\ calls[t].ops \cap Landed \subseteq calls[t].dups
            /\ \A u \in Slots \ {t} : calls[u].step = "running" => ~IsScanCall(u)
          BY <3>1 DEF CallFair, OneScanBatch
      <4>2. PICK w \in B : kind[w] = "rpc"
          BY <1>1, <2>11, <4>1 DEF IsScanCall
      <4>3. B = {w} /\ w \notin calls[t].ops
          BY <4>2 DEF KindsInv, IsScanCall
      <4>4. \A u \in Slots \ {t} : calls'[u].step = "running" => ~IsScanCall(u)'
          BY <2>6, <2>9, <4>1 DEF IsScanCall, IdleCall
      <4> QED BY <2>4, <4>1, <4>3, <4>4
    <3> QED BY <3>2, <3>3, <3>4, <3>5, <3>6 DEF CallFair
  <2>12. ParkedUnlanded' /\ FailedFairly'
      BY <2>4, <2>5, <2>6, <2>7 DEF FairInv, ParkedUnlanded, FailedFairly
  <2> QED BY <2>10, <2>11, <2>12 DEF FairInv
<1>3. CASE Clash(s) # {}
  <2>1. calls' = [calls EXCEPT ![s] = Answered(s, "refused", NoOp)] /\ UNCHANGED effects
      BY <1>3 DEF ServerCommit
  <2>2. ASSUME NEW o \in B, B = {o} PROVE o \in Landed /\ kind[o] = "rpc"
      BY <1>1, <1>3, <2>2 DEF Clash, CallFair, OneScanBatch, IsScanCall
  <2> QED BY <2>1, <2>2, AnsweredFair
<1> QED BY <1>2, <1>3

-----------------------------------------------------------------------------
(* Step by step.                                                           *)

(* Everything a person does, and everything that happens to a call that is  *)
(* not a verdict on it.                                                     *)
LEMMA PersonFair == TypeOK /\ IInv /\ FairInv /\ Person => FairInv'
<1> SUFFICES ASSUME TypeOK, IInv, FairInv, Person PROVE FairInv'
    OBVIOUS
<1>1. LetGo /\ UNCHANGED <<effects, Landed>>
    BY DEF Person, LetGo, serverVars, Landed
<1>2. CASE UNCHANGED <<state, kind, dep>>
    BY <1>1, <1>2, RowsMoveFair DEF Gone, Queued, Parked
<1>3. ASSUME NEW k, NEW d, Enqueue(k, d) PROVE FairInv'
  <2> DEFINE n == lastSeq + 1
  <2>1. n \in Ops /\ n \notin Born /\ Born \subseteq Ops /\ state[n] = "unborn"
      BY <1>3, OutboxAssumption DEF TypeOK, OutboxTypeOK, Enqueue, Born, IInv, RowsInv
  <2>2. /\ state'[n] = "pending"
        /\ \A o \in Ops \ {n} : state'[o] = state[o] /\ kind'[o] = kind[o] /\ dep'[o] = dep[o]
      BY <1>3, <2>1 DEF TypeOK, OutboxTypeOK, Enqueue
  <2>3. \A o \in Born : /\ kind'[o] = kind[o] /\ dep'[o] = dep[o]
                        /\ Gone(o) => Gone(o)'
                        /\ o \in Queued' => o \in Queued
      BY <2>1, <2>2 DEF Gone, Queued
  <2>4. /\ \A o \in Queued : o \in Queued'
        /\ \A o \in Parked' : o \in Parked
        /\ \A o \in Ops : state'[o] = "failed" => state[o] = "failed"
      BY <2>1, <2>2 DEF Queued, Parked
  <2> QED BY <1>1, <2>3, <2>4, RowsMoveFair
<1>4. ASSUME NEW o \in Ops, DismissCard(o) PROVE FairInv'
  <2>1. \A p \in Ops : state'[p] = state[p] \/ (p \in Parked /\ state'[p] = "gone")
      BY <1>4 DEF DismissCard, Doomed
  <2>2. UNCHANGED <<kind, dep>> /\ Queued' = Queued
      BY <1>4, <2>1 DEF DismissCard, Queued, Parked
  <2>3. \A p \in Born : p \in Ops
      BY BornParents
  <2>4. /\ \A p \in Born : Gone(p) => Gone(p)'
        /\ \A p \in Parked' : p \in Parked
        /\ \A p \in Ops : state'[p] = "failed" => state[p] = "failed"
      BY <2>1, <2>3 DEF Gone, Parked
  <2> QED BY <1>1, <2>2, <2>4, RowsMoveFair
<1> QED BY <1>2, <1>3, <1>4 DEF Person, Scan, ScanUnresolved, VoidScan, EnqueueOp,
           NewSession, BackoffElapses, outboxVars

LEMMA PhoneFair ==
    TypeOK /\ IInv /\ KindsInv /\ FairInv /\ Naming = FALSE /\ Phone => FairInv'
<1> SUFFICES ASSUME TypeOK, IInv, KindsInv, FairInv, Naming = FALSE, Phone PROVE FairInv'
    OBVIOUS
<1>1. CASE StartFlush
    BY <1>1, RowsMoveFair DEF StartFlush, outboxVars, serverVars, LetGo, Gone, Queued, Parked
<1>2. CASE SendNext
    BY <1>2, SendFair
<1>3. ASSUME NEW s \in Slots, ReceiveAnswer(s) PROVE FairInv'
  <2>1. LetGo /\ UNCHANGED <<kind, dep, effects>>
      BY <1>3, LettingGo DEF ReceiveAnswer, HangUp, IInv, Ack
  <2>2. calls[s].ops \subseteq Landed
      BY <1>3 DEF ReceiveAnswer, IInv, CallsInv
  <2>3. \A o \in Ops : state'[o] = state[o] \/ (o \in Landed /\ state'[o] = "gone")
      BY <1>3, <2>2 DEF ReceiveAnswer, Ack, Acked
  <2>4. \A o \in Born : o \in Ops
      BY BornParents
  <2>5. /\ \A o \in Born : Gone(o) => Gone(o)'
        /\ \A o \in Queued : o \in Queued' \/ o \in Landed
        /\ \A o \in Born : o \in Queued' => o \in Queued
        /\ \A o \in Parked' : o \in Parked
        /\ \A o \in Ops : state'[o] = "failed" => state[o] = "failed"
      BY <2>3, <2>4 DEF Gone, Queued, Parked
  <2> QED BY <2>1, <2>5, RowsMoveFair
<1>4. ASSUME NEW s \in Slots, ReceiveVerdict(s) PROVE FairInv'
  <2>1. CASE Guilty(s) # {}
      BY <1>4, <2>1, ParkFair DEF ReceiveVerdict
  <2>2. CASE Guilty(s) = {}
    <3>1. LetGo /\ UNCHANGED <<outboxVars, effects>>
        BY <1>4, <2>2, LettingGo DEF ReceiveVerdict, HangUp, IInv
    <3> QED BY <3>1, RowsMoveFair DEF outboxVars, Gone, Queued, Parked
  <2> QED BY <2>1, <2>2
<1> QED BY <1>1, <1>2, <1>3, <1>4 DEF Phone

LEMMA OutageFair == TypeOK /\ IInv /\ FairInv /\ Outage => FairInv'
<1> SUFFICES ASSUME TypeOK, IInv, FairInv, Outage PROVE FairInv'
    OBVIOUS
<1>1. ASSUME NEW s \in Slots, ReceiveNothing(s) PROVE FairInv'
  <2>1. LetGo /\ UNCHANGED <<kind, dep, effects>>
      BY <1>1, LettingGo DEF ReceiveNothing, Abandoned, IInv, RetryLater
  <2>2. calls[s].ops \subseteq Queued
      BY <1>1 DEF ReceiveNothing, IInv, CallsInv
  <2>3. \A o \in Ops : state'[o] = state[o] \/ (o \in Queued /\ state'[o] = "pending")
      BY <1>1, <2>2 DEF ReceiveNothing, RetryLater
  <2>4. \A o \in Born : o \in Ops
      BY BornParents
  <2>5. /\ \A o \in Born : Gone(o) => Gone(o)'
        /\ \A o \in Ops : o \in Queued' <=> o \in Queued
        /\ \A o \in Ops : o \in Parked' <=> o \in Parked
        /\ \A o \in Ops : state'[o] = "failed" => state[o] = "failed"
      BY <2>3, <2>4 DEF Gone, Queued, Parked
  <2> QED BY <2>1, <2>4, <2>5, RowsMoveFair DEF Queued, Parked
<1>2. ASSUME NEW s \in Slots, CallLost(s), UNCHANGED <<outboxVars, sessionVars, todo>>
      PROVE  FairInv'
    BY <1>2, AnsweredFair DEF CallLost
<1>3. CASE Crash
  <2>1. \A s \in Slots : calls'[s] = IF calls[s].open THEN Abandoned(s) ELSE calls[s]
      BY <1>3 DEF Crash
  <2>2. LetGo
      BY <2>1 DEF LetGo, Abandoned
  <2> QED BY <1>3, <2>2, RowsMoveFair DEF Crash, outboxVars, Gone, Queued, Parked
<1> QED BY <1>1, <1>2, <1>3 DEF Outage

LEMMA ServerFair ==
    /\ TypeOK /\ IInv /\ SessionInv /\ KindsInv /\ FairInv
    /\ Naming = FALSE /\ BearerKeeps /\ Server
    => FairInv'
<1> SUFFICES ASSUME TypeOK, IInv, SessionInv, KindsInv, FairInv,
                    Naming = FALSE, BearerKeeps, Server
             PROVE  FairInv'
    OBVIOUS
<1>1. UNCHANGED outboxVars
    BY DEF Server
<1>2. ASSUME NEW s \in Slots, ServerTurnsAway(s) PROVE FALSE
    BY <1>2 DEF ServerTurnsAway, SessionInv, BearerKeeps
<1> QED BY <1>1, <1>2, BeginFair, CommitFair DEF Server

LEMMA PromiseStep ==
    /\ TypeOK /\ IInv /\ PromiseInv /\ Naming = FALSE /\ BearerKeeps /\ [Next]_vars
    => PromiseInv'
<1> SUFFICES ASSUME TypeOK, IInv, SessionInv, KindsInv, FairInv,
                    Naming = FALSE, BearerKeeps, [Next]_vars
             PROVE  PromiseInv'
    BY DEF PromiseInv
<1>1. KindsInv'
    BY KindsStep
<1>2. SessionInv'
  <2>1. session' = session \/ session' \in Sessions
      BY DEF Next, Person, Phone, Outage, Server, Environment, StartFlush, SendNext,
         ReceiveAnswer, ReceiveVerdict, ReceiveNothing, CallLost, Crash, ServerBegin,
         ServerTurnsAway, ServerCommit, SessionChanges, serverVars, vars
  <2> QED BY <2>1, SMTT(30) DEF SessionInv
<1>3. FairInv'
  <2>1. CASE Environment \/ UNCHANGED vars
    <3>1. UNCHANGED <<outboxVars, calls, effects>>
        BY <2>1 DEF Environment, SessionChanges, vars, outboxVars
    <3> QED BY <3>1, RowsMoveFair DEF outboxVars, LetGo, Gone, Queued, Parked
  <2> QED BY <2>1, PersonFair, PhoneFair, OutageFair, ServerFair DEF Next
<1> QED BY <1>1, <1>2, <1>3 DEF PromiseInv

LEMMA PromiseInit == Init => PromiseInv
BY OutboxAssumption DEF Init, OutboxInit, ServerInit, IdleCall, PromiseInv, SessionInv, KindsInv,
   FairInv, CallFair, HeldInRun, TravelTogether, WillBeRefused, VerdictIsDue, OneScanBatch,
   ParkedUnlanded, FailedFairly, Born, Landed, Queued, Parked

LEMMA PromiseInvHolds == Naming = FALSE /\ BearerKeeps /\ Spec => []PromiseInv
<1>1. CASE Naming = FALSE /\ BearerKeeps
  <2>1. TypeOK /\ IInv /\ PromiseInv /\ [Next]_vars => PromiseInv'
      BY <1>1, PromiseStep
  <2> QED BY <2>1, PromiseInit, TypeCorrect, IInvHolds, PTL DEF Spec
<1>2. CASE ~(Naming = FALSE /\ BearerKeeps)
    BY <1>2
<1> QED BY <1>1, <1>2

-----------------------------------------------------------------------------
(* What follows from it.                                                   *)

(* THEOREM ParkedScansNeverLanded: whatever the "needs attention" list      *)
(* shows, the server never took, desk writes that met their own earlier     *)
(* call in the receipts excepted.                                           *)
THEOREM ParkedScansNeverLanded ==
    Naming = FALSE /\ BearerKeeps /\ Spec => []ParkedNeverLanded
<1>1. PromiseInv => ParkedNeverLanded
    BY DEF ParkedNeverLanded, PromiseInv, FairInv, ParkedUnlanded
<1> QED BY <1>1, PromiseInvHolds, PTL

(* THEOREM VerdictsCostTheGuilty: bisection finds the op a verdict is about *)
(* and no other pays for it: what is refused in its own right breaks a rule *)
(* of its own, corrects a scan that never landed, or is a desk write the    *)
(* server already took.                                                     *)
THEOREM VerdictsCostTheGuilty ==
    Naming = FALSE /\ BearerKeeps /\ Spec => []OnlyTheGuiltyFail
<1>1. PromiseInv => OnlyTheGuiltyFail
    BY DEF OnlyTheGuiltyFail, PromiseInv, FairInv, FailedFairly, Condemned, Dropped
<1> QED BY <1>1, PromiseInvHolds, PTL

-----------------------------------------------------------------------------
(* The queue, the flush and the server implement ExactlyOnce.              *)

LEMMA FateMoves ==
    ASSUME NEW S \in SUBSET Ops, NEW from, NEW to,
           \A o \in S : Fate[o] = from,
           \A o \in Ops : Fate'[o] = IF o \in S THEN to ELSE Fate[o]
    PROVE  S = {} \/ Promise!Move(S, from, to)
<1>1. Fate' = [o \in Ops |-> Fate'[o]]
    BY DEF Fate
<1>2. Fate' = [o \in Ops |-> IF o \in S THEN to ELSE Fate[o]]
    BY <1>1
<1> QED BY <1>2 DEF Promise!Move

LEMMA FateStays ==
    ASSUME UNCHANGED effects,
           \A o \in Ops : o \in Landed \/ (/\ o \in Queued' <=> o \in Queued
                                           /\ o \in Parked' <=> o \in Parked
                                           /\ Gone(o)' <=> Gone(o))
    PROVE  UNCHANGED Fate
BY DEF Fate, Landed, Gone

LEMMA PersonPromise ==
    ASSUME TypeOK, IInv, Person
    PROVE  [Promise!Next]_Fate
<1>1. UNCHANGED <<effects, Landed>>
    BY DEF Person, serverVars, Landed
<1>2. ASSUME NEW k, NEW d, Enqueue(k, d) PROVE [Promise!Next]_Fate
  <2> DEFINE n == lastSeq + 1
  <2>1. n \in Ops /\ n \notin Landed /\ state[n] = "unborn"
      BY <1>2, OutboxAssumption DEF TypeOK, OutboxTypeOK, Enqueue, Born, IInv, RowsInv
  <2>2. state'[n] = "pending" /\ \A o \in Ops \ {n} : state'[o] = state[o]
      BY <1>2, <2>1 DEF TypeOK, OutboxTypeOK, Enqueue
  <2>3. Fate[n] = "unborn" /\ Fate'[n] = "held" /\ \A o \in Ops \ {n} : Fate'[o] = Fate[o]
      BY <1>1, <2>1, <2>2 DEF Fate, Queued, Parked
  <2>4. Promise!Move({n}, "unborn", "held")
    <3> HIDE DEF n
    <3> QED BY <2>1, <2>3, FateMoves
  <2> QED BY <2>1, <2>4 DEF Promise!Next, Promise!Record
<1>3. ASSUME NEW r \in Ops, DismissCard(r) PROVE [Promise!Next]_Fate
  <2> DEFINE S == Doomed(r) \ Landed
  <2>1. Doomed(r) \subseteq Parked /\ Parked \subseteq Ops
      BY DEF Doomed, Parked
  <2>2. \A o \in Ops : state'[o] = IF o \in Doomed(r) THEN "gone" ELSE state[o]
      BY <1>3 DEF DismissCard
  <2>3. \A o \in S : Fate[o] = "refused"
      BY <2>1 DEF Fate, Queued, Parked
  <2>4. \A o \in Ops : Fate'[o] = IF o \in S THEN "dropped" ELSE Fate[o]
      BY <1>1, <2>2 DEF Fate, Queued, Parked
  <2>5. S \in SUBSET Ops
      BY <2>1
  <2>6. S = {} \/ Promise!Move(S, "refused", "dropped")
    <3> HIDE DEF S
    <3> QED BY <2>3, <2>4, <2>5, FateMoves
  <2>7. S = {} => UNCHANGED Fate
      BY <2>4 DEF Fate
  <2> QED BY <2>5, <2>6, <2>7 DEF Promise!Next, Promise!Drop
<1>4. CASE UNCHANGED state
    BY <1>1, <1>4, FateStays DEF Queued, Parked, Gone
<1> QED BY <1>2, <1>3, <1>4 DEF Person, Scan, ScanUnresolved, VoidScan, EnqueueOp,
           NewSession, BackoffElapses, outboxVars

LEMMA VerdictPromise ==
    ASSUME TypeOK, IInv, PromiseInv, Naming = FALSE, NEW s \in Slots, ReceiveVerdict(s)
    PROVE  [Promise!Next]_Fate
<1>1. UNCHANGED <<effects, Landed>>
    BY DEF ReceiveVerdict, Landed
<1>2. CASE Guilty(s) = {}
    BY <1>1, <1>2, FateStays DEF ReceiveVerdict, outboxVars, Queued, Parked, Gone
<1>3. CASE Guilty(s) # {}
  <2>1. PICK r \in Guilty(s) : Fail(r)
      BY <1>3 DEF ReceiveVerdict
  <2> DEFINE S == (Cascade(r) \cap Queued) \ Landed
  <2>2. \A o \in Ops : state'[o] = IF o \notin Cascade(r) \cap Present THEN state[o]
                                   ELSE IF o = r THEN "failed" ELSE "blocked"
      BY <2>1 DEF Fail
  <2>3. \A o \in S : Fate[o] = "held"
      BY DEF Fate, Queued
  <2>4. \A o \in Ops : Fate'[o] = IF o \in S THEN "refused" ELSE Fate[o]
      BY <1>1, <2>2 DEF Fate, Queued, Parked, Present
  <2>5. S \in SUBSET Ops
      BY DEF Queued
  <2>6. S = {} \/ Promise!Move(S, "held", "refused")
    <3> HIDE DEF S
    <3> QED BY <2>3, <2>4, <2>5, FateMoves
  <2>7. S = {} => UNCHANGED Fate
      BY <2>4 DEF Fate
  <2> QED BY <2>5, <2>6, <2>7 DEF Promise!Next, Promise!Refuse
<1> QED BY <1>2, <1>3

LEMMA CommitPromise ==
    ASSUME TypeOK, IInv, PromiseInv, NEW s \in Slots, ServerCommit(s), UNCHANGED outboxVars
    PROVE  [Promise!Next]_Fate
<1>1. UNCHANGED <<Queued, Parked, state>>
    BY DEF outboxVars, Queued, Parked
<1>2. CASE Clash(s) # {}
    BY <1>1, <1>2, FateStays DEF ServerCommit, Gone
<1>3. CASE Clash(s) = {}
  <2> DEFINE S == calls[s].ops \ Landed
  <2>1. S \in SUBSET Ops /\ calls[s].dups \subseteq Landed /\ \A o \in Ops : effects[o] \in Nat
      BY DEF TypeOK, ServerTypeOK, Call, IInv, CallsInv
  <2>2. \A o \in S : o \in Queued
      BY DEF ServerCommit, PromiseInv, FairInv, CallFair, HeldInRun
  <2>3. \A o \in Ops : effects'[o] = IF o \in calls[s].ops \ calls[s].dups
                                     THEN effects[o] + 1 ELSE effects[o]
      BY <1>3 DEF ServerCommit
  <2>4. \A o \in Ops : o \in Landed' <=> o \in Landed \/ o \in S
      BY <2>1, <2>3 DEF Landed
  <2>5. \A o \in S : Fate[o] = "held"
      BY <2>1, <2>2 DEF Fate
  <2>6. \A o \in Ops : Fate'[o] = IF o \in S THEN "landed" ELSE Fate[o]
    <3> HIDE DEF S
    <3> QED BY <1>1, <2>4 DEF Fate
  <2>7. S = {} \/ Promise!Move(S, "held", "landed")
    <3> HIDE DEF S
    <3> QED BY <2>1, <2>5, <2>6, FateMoves
  <2>8. S = {} => UNCHANGED Fate
      BY <2>6 DEF Fate
  <2> QED BY <2>1, <2>7, <2>8 DEF Promise!Next, Promise!Land
<1> QED BY <1>2, <1>3

LEMMA PromiseKept ==
    /\ TypeOK /\ IInv /\ PromiseInv /\ Naming = FALSE /\ [Next]_vars
    => [Promise!Next]_Fate
<1> SUFFICES ASSUME TypeOK, IInv, PromiseInv, Naming = FALSE, [Next]_vars
             PROVE  [Promise!Next]_Fate
    OBVIOUS
<1>1. CASE UNCHANGED <<state, effects>>
    BY <1>1, FateStays DEF Queued, Parked, Gone
<1>2. CASE SendNext
  <2>1. PICK S \in todo :
          IF Live(S) = {} THEN UNCHANGED <<outboxVars, serverVars>>
          ELSE MarkInflight(Live(S)) /\ UNCHANGED <<effects, session>>
      BY <1>2 DEF SendNext
  <2>2. CASE Live(S) = {}
      BY <1>1, <2>1, <2>2 DEF outboxVars, serverVars
  <2>3. CASE Live(S) # {}
    <3>1. \A o \in Ops : state'[o] = state[o] \/ (o \in Queued /\ state'[o] = "inflight")
        BY <2>1, <2>3 DEF MarkInflight, Live
    <3> QED BY <2>1, <2>3, <3>1, FateStays DEF Queued, Parked, Gone
  <2> QED BY <2>2, <2>3
<1>3. ASSUME NEW s \in Slots, ReceiveAnswer(s) PROVE [Promise!Next]_Fate
  <2>1. calls[s].ops \subseteq Landed
      BY <1>3 DEF ReceiveAnswer, IInv, CallsInv
  <2>2. \A o \in Ops : o \in Landed \/ state'[o] = state[o]
      BY <1>3, <2>1 DEF ReceiveAnswer, Ack, Acked
  <2> QED BY <1>3, <2>2, FateStays DEF ReceiveAnswer, Queued, Parked, Gone
<1>4. ASSUME NEW s \in Slots, ReceiveNothing(s) PROVE [Promise!Next]_Fate
  <2>1. calls[s].ops \subseteq Queued
      BY <1>4 DEF ReceiveNothing, IInv, CallsInv
  <2>2. \A o \in Ops : state'[o] = state[o] \/ (o \in Queued /\ state'[o] = "pending")
      BY <1>4, <2>1 DEF ReceiveNothing, RetryLater
  <2> QED BY <1>4, <2>2, FateStays DEF ReceiveNothing, Queued, Parked, Gone
<1>5. CASE Phone
    BY <1>1, <1>2, <1>3, <1>5, VerdictPromise DEF Phone, StartFlush, outboxVars, serverVars
<1>6. CASE Outage
    BY <1>1, <1>4, <1>6 DEF Outage, CallLost, Crash, outboxVars
<1>7. CASE Server
    BY <1>1, <1>7, CommitPromise DEF Server, ServerBegin, ServerTurnsAway, outboxVars
<1>8. CASE Environment \/ UNCHANGED vars
    BY <1>1, <1>8 DEF Environment, SessionChanges, outboxVars, vars
<1> QED BY <1>5, <1>6, <1>7, <1>8, PersonPromise DEF Next

(* THEOREM PromiseIsKept: through any loss, resend, crash and bisection the *)
(* phone's queue and the server do what ExactlyOnce promises a person: a    *)
(* recorded write is held until it lands or is refused; it lands once; what *)
(* was refused never lands, and goes only when the person drops it.         *)
THEOREM PromiseIsKept == Naming = FALSE /\ BearerKeeps /\ Spec => KeepsThePromise
<1>1. Init => Promise!Init
    BY OutboxAssumption DEF Init, OutboxInit, ServerInit, Promise!Init, Fate, Landed, Queued, Parked
<1>2. CASE Naming = FALSE /\ BearerKeeps
  <2>1. TypeOK /\ IInv /\ PromiseInv /\ [Next]_vars => [Promise!Next]_Fate
      BY <1>2, PromiseKept
  <2>2. Spec => []PromiseInv
      BY <1>2, PromiseInvHolds
  <2> QED BY <1>1, <2>1, <2>2, TypeCorrect, IInvHolds, PTL DEF Spec, KeepsThePromise, Promise!Spec
<1>3. CASE ~(Naming = FALSE /\ BearerKeeps)
    BY <1>3
<1> QED BY <1>2, <1>3

-----------------------------------------------------------------------------
(***************************************************************************)
(* The other direction: what holds of the cursor pull for every number of  *)
(* rows, tables, writers, roles and page sizes.                            *)
(***************************************************************************)
USE NobodyAssumption, BoundsAssumption, PageLimitAssumption

(* Every step of the server's log keeps its variables typed.               *)

LogTypeOK ==
    /\ row \in [Rows -> [seq : Nat, xid : Nat]]
    /\ pend \in [Rows -> [seq : Nat, by : Writers \cup {Nobody}]]
    /\ tx \in [Writers -> [xid : Nat, at : {"closed", "between", "statement"}]]
    /\ holder \in Writers \cup {Nobody}
    /\ mark \in Nat /\ nextSeq \in Nat \ {0} /\ nextXid \in Nat /\ horizon \in Nat

LEMMA LogType == LogTypeOK /\ LogNext => LogTypeOK'
<1> SUFFICES ASSUME LogTypeOK, LogNext PROVE LogTypeOK'
    OBVIOUS
<1> USE DEF LogTypeOK
<1>1. ASSUME NEW t \in Writers, Begin(t) PROVE LogTypeOK'
    BY <1>1 DEF Begin
<1>2. ASSUME NEW t \in Writers, BumpWatermark(t) PROVE LogTypeOK'
    BY <1>2 DEF BumpWatermark
<1>3. ASSUME NEW t \in Writers, Commit(t) PROVE LogTypeOK'
  <2>1. row' \in [Rows -> [seq : Nat, xid : Nat]]
      BY <1>3 DEF Commit, WrittenBy
  <2>2. pend' \in [Rows -> [seq : Nat, by : Writers \cup {Nobody}]]
      BY <1>3 DEF Commit, NotPending
  <2>3. mark' \in Nat
      BY <1>3 DEF Commit
  <2> QED BY <1>3, <2>1, <2>2, <2>3 DEF Commit, Closed, Released
<1>4. ASSUME NEW t \in Writers, Abort(t) PROVE LogTypeOK'
  <2>1. pend' \in [Rows -> [seq : Nat, by : Writers \cup {Nobody}]]
      BY <1>4 DEF Abort, NotPending
  <2> QED BY <1>4, <2>1 DEF Abort, Closed, Released
<1>5. ASSUME NEW t \in Writers, NEW r \in Rows, WriteRow(t, r) PROVE LogTypeOK'
    BY <1>5 DEF WriteRow
<1>6. CASE Age
    BY <1>6 DEF Age
<1> QED BY <1>1, <1>2, <1>3, <1>4, <1>5, <1>6 DEF LogNext

(* What AnswerPage makes of a page with the rows S and the cursor c.       *)
PageOf(S, c) ==
    call' = [at |-> "answered",
             since |-> call.since,
             rows |-> [r \in Rows |-> IF r \in S THEN row[r].seq ELSE 0],
             cursor |-> c,
             more |-> \/ \E T \in Tables : Full(T, S)
                      \/ \A r \in S : row[r].seq < mark,
             blind |-> Blind(c)]

(* Every variable of the log and of the phone keeps its type.              *)
THEOREM PullTypeCorrect == PullSpec => []PullTypeOK
<1>1. PullInit => PullTypeOK
    BY DEF PullInit, LogInit, PullTypeOK, NoVersion, NotPending, Closed, NoCall, NoRows
<1>2. PullTypeOK /\ [PullNext]_pullVars => PullTypeOK'
  <2> SUFFICES ASSUME PullTypeOK, [PullNext]_pullVars PROVE PullTypeOK'
      OBVIOUS
  <2>1. CASE LogNext /\ UNCHANGED phoneVars
    <3>1. LogTypeOK'
        BY <2>1, LogType DEF PullTypeOK, LogTypeOK
    <3> QED BY <2>1, <3>1 DEF PullTypeOK, LogTypeOK, phoneVars
  <2>2. CASE Ask
      BY <2>2 DEF Ask, NoCall, NoRows, PullTypeOK, logVars
  <2>3. CASE AnswerNothing
      BY <2>3 DEF AnswerNothing, NoCall, NoRows, PullTypeOK, logVars
  <2>4. CASE AnswerPage
    <3>1. \A c : Blind(c) \subseteq Nat
        BY DEF Blind
    <3>2. \A s \in Nat : \A S : Allowed(S, s) \subseteq Nat
        BY DEF Allowed
    <3>3. PICK S \in SUBSET Waiting(call.since) :
            \E c \in Allowed(S, call.since) : PageOf(S, c)
        BY <2>4 DEF AnswerPage, PageOf
    <3>9. PICK c \in Allowed(S, call.since) : PageOf(S, c)
        BY <3>3
    <3>4. c \in Nat /\ Blind(c) \in SUBSET Nat
        BY <3>1, <3>2 DEF PullTypeOK
    <3>5. [r \in Rows |-> IF r \in S THEN row[r].seq ELSE 0] \in [Rows -> Nat]
        BY DEF PullTypeOK
    <3> DEFINE m == \/ \E T \in Tables : Full(T, S)
                    \/ \A r \in S : row[r].seq < mark
    <3>6. m \in BOOLEAN
        BY DEF m
    <3> HIDE DEF m
    <3>7. call' \in [at : {"none", "asked", "answered"}, since : Nat, rows : [Rows -> Nat],
                     cursor : Nat, more : BOOLEAN, blind : SUBSET Nat]
        BY <3>9, <3>4, <3>5, <3>6 DEF PullTypeOK, PageOf, m
    <3> QED BY <2>4, <3>7 DEF AnswerPage, PullTypeOK, logVars
  <2>5. CASE ApplyPage
      BY <2>5 DEF ApplyPage, NoCall, NoRows, PullTypeOK, logVars
  <2>6. CASE LosePage
      BY <2>6 DEF LosePage, NoCall, NoRows, PullTypeOK, logVars
  <2>7. CASE SwitchUser
      BY <2>7 DEF SwitchUser, PullTypeOK, logVars
  <2>8. CASE UNCHANGED pullVars
      BY <2>8 DEF pullVars, logVars, PullTypeOK
  <2> QED BY <2>1, <2>2, <2>3, <2>4, <2>5, <2>6, <2>7, <2>8 DEF PullNext
<1> QED BY <1>1, <1>2, PTL DEF PullSpec

-----------------------------------------------------------------------------
(* The server's steps.                                                     *)

USE TablesAssumption

(* Nothing PullInv speaks of changes.                                      *)
LEMMA QuietKeeps ==
    ASSUME PullInv, UNCHANGED <<row, pend, mark, nextSeq, call, cursor, mirror, unseen>>
    PROVE  PullInv'
BY DEF PullInv, NumbersDrawn, WatermarkCovers, CursorSound, OvertakenIsUnseen, MirrorBehind,
       PageSound, InFlight

LEMMA WriteKeeps ==
    ASSUME PullTypeOK, PullInv, NEW t \in Writers, NEW r \in Rows, WriteRow(t, r),
           UNCHANGED phoneVars
    PROVE  PullInv'
<1> USE DEF PullTypeOK, phoneVars
<1>1. /\ UNCHANGED <<row, mark>>
      /\ nextSeq' = nextSeq + 1
      /\ pend'[r].seq = nextSeq
      /\ \A q \in Rows \ {r} : pend'[q] = pend[q]
      /\ InFlight' \subseteq InFlight \cup {r}
    BY DEF WriteRow, InFlight
<1>2. nextSeq \in Nat /\ \A q \in Rows : row[q].seq \in Nat /\ pend[q].seq \in Nat
    OBVIOUS
<1>3. NumbersDrawn'
  <2>1. /\ \A q \in Rows : row[q].seq < nextSeq /\ pend[q].seq < nextSeq
        /\ \A q \in InFlight : row[q].seq < pend[q].seq
        /\ mark < nextSeq /\ cursor < nextSeq /\ call.cursor < nextSeq
      BY DEF PullInv, NumbersDrawn
  <2>2. \A q \in Rows : row'[q].seq < nextSeq' /\ pend'[q].seq < nextSeq'
      BY <1>1, <1>2, <2>1
  <2>3. \A q \in InFlight' : row'[q].seq < pend'[q].seq
    <3> SUFFICES ASSUME NEW q \in InFlight' PROVE row'[q].seq < pend'[q].seq
        OBVIOUS
    <3>1. CASE q = r
        BY <1>1, <2>1, <3>1
    <3>2. CASE q # r
      <4>1. q \in InFlight /\ q \in Rows \ {r}
          BY <1>1, <3>2 DEF InFlight
      <4> QED BY <1>1, <2>1, <4>1
    <3> QED BY <3>1, <3>2
  <2>4. mark' < nextSeq' /\ cursor' < nextSeq' /\ call'.cursor < nextSeq'
    <3>1. mark \in Nat /\ cursor \in Nat /\ call.cursor \in Nat
        OBVIOUS
    <3> QED BY <1>1, <1>2, <2>1, <3>1
  <2> QED BY <2>2, <2>3, <2>4 DEF NumbersDrawn
<1>4. (WatermarkCovers /\ CursorSound /\ MirrorBehind)'
    BY <1>1 DEF PullInv, WatermarkCovers, CursorSound, MirrorBehind
<1>5. \A q \in InFlight' : \/ q \in InFlight /\ pend'[q] = pend[q]
                           \/ pend'[q].seq > cursor /\ pend'[q].seq > call.cursor
  <2> SUFFICES ASSUME NEW q \in InFlight', q = r \/ q \in InFlight \ {r}
               PROVE  \/ q \in InFlight /\ pend'[q] = pend[q]
                      \/ pend'[q].seq > cursor /\ pend'[q].seq > call.cursor
      BY <1>1
  <2>1. CASE q = r
    <3>1. cursor < nextSeq /\ call.cursor < nextSeq
        BY DEF PullInv, NumbersDrawn
    <3>2. cursor \in Nat /\ call.cursor \in Nat
        OBVIOUS
    <3> QED BY <1>1, <1>2, <2>1, <3>1, <3>2
  <2>2. CASE q \in InFlight \ {r}
      BY <1>1, <2>2 DEF InFlight
  <2> QED BY <2>1, <2>2
<1>6. \A q \in InFlight' : q \in Rows /\ pend'[q].seq \in Nat
    BY <1>1, <1>2 DEF InFlight
<1>7. cursor \in Nat /\ call.cursor \in Nat
    OBVIOUS
<1>8. OvertakenIsUnseen'
  <2> SUFFICES ASSUME NEW q \in InFlight', pend'[q].seq <= cursor PROVE pend'[q].seq \in unseen
      BY DEF OvertakenIsUnseen
  <2> QED BY <1>5, <1>6, <1>7 DEF PullInv, OvertakenIsUnseen
<1>9. PageSound'
  <2> SUFFICES ASSUME NEW q \in InFlight', call.at = "answered",
                      pend'[q].seq \in (cursor + 1)..call.cursor
               PROVE  pend'[q].seq \in call.blind
      BY <1>1 DEF PullInv, PageSound
  <2> QED BY <1>5, <1>6, <1>7 DEF PullInv, PageSound
<1> QED BY <1>3, <1>4, <1>8, <1>9 DEF PullInv

LEMMA CommitKeeps ==
    ASSUME PullTypeOK, PullInv, NEW t \in Writers, Commit(t), UNCHANGED phoneVars
    PROVE  PullInv'
<1> USE DEF PullTypeOK, phoneVars
<1>1. \A r \in Rows : \/ r \in InFlight /\ row'[r].seq = pend[r].seq
                     \/ row'[r] = row[r]
    BY DEF Commit, WrittenBy, InFlight
<1>2. InFlight' \subseteq InFlight /\ \A r \in InFlight' : pend'[r] = pend[r] /\ row'[r] = row[r]
    BY DEF Commit, WrittenBy, InFlight, NotPending
<1>3. \A r \in Rows : pend'[r].seq \in {0, pend[r].seq}
    BY DEF Commit, NotPending
<1>4. nextSeq' = nextSeq
    BY DEF Commit
<1>5. mark' \in Nat /\ mark <= mark' /\ mark' < nextSeq
    BY DEF Commit, Greatest, WrittenBy, PullInv, NumbersDrawn
<1>6. NumbersDrawn'
  <2>1. \A q \in Rows : row[q].seq \in Nat /\ pend[q].seq \in Nat
      OBVIOUS
  <2>2. \A q \in Rows : row'[q].seq < nextSeq /\ pend'[q].seq < nextSeq
      BY <1>1, <1>3, <2>1 DEF PullInv, NumbersDrawn
  <2>3. \A q \in InFlight' : row'[q].seq < pend'[q].seq
      BY <1>2 DEF PullInv, NumbersDrawn
  <2> QED BY <1>4, <1>5, <2>2, <2>3 DEF PullInv, NumbersDrawn
<1>7. WatermarkCovers'
  <2> SUFFICES ASSUME NEW r \in Rows PROVE row'[r].seq <= mark'
      BY DEF WatermarkCovers
  <2>1. CASE r \in WrittenBy(t)
      BY <2>1 DEF Commit, Greatest
  <2>2. CASE r \notin WrittenBy(t)
      BY <1>5, <2>2 DEF Commit, PullInv, WatermarkCovers
  <2> QED BY <2>1, <2>2
<1>8. CursorSound'
    BY <1>1 DEF PullInv, CursorSound, OvertakenIsUnseen
<1>9. OvertakenIsUnseen'
    BY <1>2 DEF PullInv, OvertakenIsUnseen
<1>10. MirrorBehind'
    BY <1>1 DEF PullInv, MirrorBehind, NumbersDrawn
<1>11. PageSound'
  <2>1. \A r \in Rows : row[r].seq <= row'[r].seq
      BY <1>1 DEF PullInv, NumbersDrawn
  <2> QED BY <1>1, <1>2, <2>1, SMTT(30) DEF PullInv, PageSound
<1> QED BY <1>6, <1>7, <1>8, <1>9, <1>10, <1>11 DEF PullInv

LEMMA AbortKeeps ==
    ASSUME PullTypeOK, PullInv, NEW t \in Writers, Abort(t), UNCHANGED phoneVars
    PROVE  PullInv'
<1> USE DEF PullTypeOK, phoneVars
<1>1. UNCHANGED <<row, mark, nextSeq>>
    BY DEF Abort
<1>2. InFlight' \subseteq InFlight /\ \A r \in InFlight' : pend'[r] = pend[r]
    BY DEF Abort, WrittenBy, InFlight, NotPending
<1>3. \A r \in Rows : pend'[r].seq \in {0, pend[r].seq}
    BY DEF Abort, NotPending
<1>4. NumbersDrawn'
    BY <1>1, <1>2, <1>3 DEF PullInv, NumbersDrawn
<1>5. (WatermarkCovers /\ CursorSound /\ MirrorBehind)'
    BY <1>1 DEF PullInv, WatermarkCovers, CursorSound, MirrorBehind
<1>6. (OvertakenIsUnseen /\ PageSound)'
    BY <1>1, <1>2 DEF PullInv, OvertakenIsUnseen, PageSound
<1> QED BY <1>4, <1>5, <1>6 DEF PullInv

-----------------------------------------------------------------------------
(* The phone's steps.                                                      *)

(* A page cut by the server misses nothing it could show below its cursor, *)
(* however the tables truncate.                                            *)
LEMMA PageMissesNothing ==
    ASSUME PullTypeOK,
           NEW S \in SUBSET Waiting(call.since), IsPage(S, call.since),
           NEW c \in Allowed(S, call.since),
           NEW r \in Rows, row[r].seq > call.since, row[r].seq <= c, ~Hidden(r)
    PROVE  r \in S
<1> SUFFICES ASSUME r \notin S PROVE FALSE
    OBVIOUS
<1> USE DEF PullTypeOK
<1>1. r \in Waiting(call.since)
    BY DEF Waiting
<1>2. PICK T \in Tables : r \in T
    OBVIOUS
<1>3. Full(T, S)
    BY <1>1, <1>2 DEF IsPage, Full
<1>4. PICK q \in S \cap T : c <= row[q].seq
    BY <1>3 DEF Allowed
<1>5. q \in Rows /\ row[q].seq < row[r].seq
    BY <1>1, <1>2, <1>4 DEF IsPage, Waiting
<1> QED BY <1>4, <1>5 DEF Allowed

LEMMA AnswerKeeps ==
    ASSUME PullTypeOK, PullInv, AnswerPage
    PROVE  PullInv'
<1> USE DEF PullTypeOK
<1>1. PICK S \in SUBSET Waiting(call.since) :
        IsPage(S, call.since) /\ \E c \in Allowed(S, call.since) : PageOf(S, c)
    BY DEF AnswerPage, PageOf
<1>2. PICK c \in Allowed(S, call.since) : PageOf(S, c)
    BY <1>1
<1>3. UNCHANGED <<row, pend, tx, holder, mark, nextSeq, nextXid, horizon, role, cursor,
                  mirror, unseen>>
    BY DEF AnswerPage, logVars
<1>4. call.since = cursor
    BY DEF AnswerPage, PullInv, PageSound
<1>5. c \in Nat /\ cursor <= c /\ c < nextSeq
  <2>1. \A r \in S : row[r].seq < nextSeq
      BY DEF Waiting, PullInv, NumbersDrawn
  <2>2. c \in Nat /\ cursor <= c /\ (c = cursor \/ \E r \in S : c <= row[r].seq)
      BY <1>4 DEF Allowed
  <2>3. cursor < nextSeq
      BY DEF PullInv, NumbersDrawn
  <2>4. \A r \in S : row[r].seq \in Nat
      BY DEF Waiting
  <2> QED BY <2>1, <2>2, <2>3, <2>4
<1>6. /\ call'.at = "answered" /\ call'.since = cursor /\ call'.cursor = c
      /\ call'.rows = [r \in Rows |-> IF r \in S THEN row[r].seq ELSE 0]
      /\ call'.blind = Blind(c)
    BY <1>2, <1>4 DEF PageOf
<1>7. NumbersDrawn'
    BY <1>3, <1>5, <1>6 DEF PullInv, NumbersDrawn, InFlight
<1>8. (WatermarkCovers /\ CursorSound /\ OvertakenIsUnseen /\ MirrorBehind)'
    BY <1>3 DEF PullInv, WatermarkCovers, CursorSound, OvertakenIsUnseen, MirrorBehind, InFlight
<1>9. \A r \in Rows : call'.rows[r] # 0 =>
        mirror[r] <= call'.rows[r] /\ call'.rows[r] <= row[r].seq
    BY <1>6 DEF PullInv, MirrorBehind
<1>10. ASSUME NEW r \in Rows, row[r].seq \in (cursor + 1)..c
       PROVE  row[r].seq \in Blind(c) \/ call'.rows[r] = row[r].seq
  <2>1. CASE Hidden(r)
      BY <1>5, <1>10, <2>1 DEF Blind
  <2>2. CASE ~Hidden(r)
    <3>1. r \in S
        BY <1>1, <1>4, <1>5, <1>10, <2>2, PageMissesNothing
    <3> QED BY <1>6, <3>1
  <2> QED BY <2>1, <2>2
<1>11. ASSUME NEW r \in InFlight, pend[r].seq \in (cursor + 1)..c
       PROVE  pend[r].seq \in Blind(c)
    BY <1>5, <1>11 DEF Blind, InFlight
<1>12. PageSound'
  <2>1. InFlight' = InFlight
      BY <1>3 DEF InFlight
  <2> QED BY <1>3, <1>5, <1>6, <1>9, <1>10, <1>11, <2>1 DEF PageSound
<1> QED BY <1>7, <1>8, <1>12 DEF PullInv

LEMMA ApplyKeeps ==
    ASSUME PullTypeOK, PullInv, ApplyPage
    PROVE  PullInv'
<1> USE DEF PullTypeOK
<1>1. UNCHANGED <<row, pend, mark, nextSeq>> /\ InFlight' = InFlight
    BY DEF ApplyPage, logVars, InFlight
<1>2. /\ cursor <= call.cursor /\ cursor' = call.cursor
      /\ unseen' = unseen \cup call.blind
      /\ call' = NoCall
    BY DEF ApplyPage, PullInv, PageSound
<1>3. \A r \in Rows : mirror'[r] = IF call.rows[r] # 0 THEN call.rows[r] ELSE mirror[r]
    BY DEF ApplyPage
<1>4. \A r \in Rows : mirror[r] <= mirror'[r] /\ mirror'[r] <= row[r].seq
    BY <1>3 DEF ApplyPage, PullInv, PageSound, MirrorBehind
<1>5. NumbersDrawn'
    BY <1>1, <1>2 DEF PullInv, NumbersDrawn, NoCall
<1>6. (WatermarkCovers /\ MirrorBehind)'
    BY <1>1, <1>4 DEF PullInv, WatermarkCovers, MirrorBehind
<1>7. CursorSound'
  <2> SUFFICES ASSUME NEW r \in Rows, row[r].seq \in 1..call.cursor,
                      row[r].seq \notin unseen, row[r].seq \notin call.blind
               PROVE  mirror'[r] = row[r].seq
      BY <1>1, <1>2 DEF CursorSound
  <2>1. mirror'[r] \in Nat /\ mirror[r] \in Nat /\ row[r].seq \in Nat
      BY <1>3
  <2>2. CASE row[r].seq <= cursor
    <3>1. mirror[r] = row[r].seq
        BY <2>2 DEF PullInv, CursorSound
    <3> QED BY <1>4, <2>1, <3>1
  <2>3. CASE row[r].seq > cursor
    <3>1. call.rows[r] = row[r].seq
        BY <2>3 DEF ApplyPage, PullInv, PageSound
    <3> QED BY <1>3, <3>1
  <2> QED BY <2>1, <2>2, <2>3
<1>8. OvertakenIsUnseen'
    BY <1>1, <1>2 DEF ApplyPage, PullInv, OvertakenIsUnseen, PageSound, InFlight
<1>9. PageSound'
    BY <1>2 DEF PageSound, NoCall
<1> QED BY <1>5, <1>6, <1>7, <1>8, <1>9 DEF PullInv

(* Asking, being turned away at the watermark, and losing a call.          *)
LEMMA CallKeeps ==
    ASSUME PullTypeOK, PullInv, Ask \/ AnswerNothing \/ LosePage
    PROVE  PullInv'
<1> USE DEF PullTypeOK
<1>1. UNCHANGED <<row, pend, mark, nextSeq, cursor, mirror, unseen>> /\ InFlight' = InFlight
    BY DEF Ask, AnswerNothing, LosePage, logVars, InFlight
<1>2. /\ call'.cursor \in {0, cursor}
      /\ call'.at # "none" => call'.since = cursor
      /\ call'.at = "answered" => call'.cursor = cursor /\ call'.rows = NoRows
  <2>1. CASE Ask
      BY <2>1 DEF Ask, NoCall
  <2>2. CASE AnswerNothing
    <3>1. call.since = cursor
        BY <2>2 DEF AnswerNothing, PullInv, PageSound
    <3>2. call' = [NoCall EXCEPT !.at = "answered", !.since = cursor, !.cursor = cursor]
        BY <2>2, <3>1 DEF AnswerNothing
    <3> QED BY <3>2 DEF NoCall
  <2>3. CASE LosePage
      BY <2>3 DEF LosePage, NoCall
  <2> QED BY <2>1, <2>2, <2>3
<1>4. NumbersDrawn'
    BY <1>1, <1>2 DEF PullInv, NumbersDrawn
<1>5. (WatermarkCovers /\ CursorSound /\ OvertakenIsUnseen /\ MirrorBehind)'
    BY <1>1 DEF PullInv, WatermarkCovers, CursorSound, OvertakenIsUnseen, MirrorBehind
<1>6. PageSound'
    BY <1>1, <1>2 DEF PageSound, NoRows
<1> QED BY <1>4, <1>5, <1>6 DEF PullInv

-----------------------------------------------------------------------------
LEMMA LogKeeps ==
    ASSUME PullTypeOK, PullInv, LogNext, UNCHANGED phoneVars
    PROVE  PullInv'
<1>1. ASSUME NEW t \in Writers, Begin(t) \/ BumpWatermark(t) PROVE PullInv'
    BY <1>1, QuietKeeps DEF Begin, BumpWatermark, phoneVars
<1>2. ASSUME NEW t \in Writers, Commit(t) PROVE PullInv'
    BY <1>2, CommitKeeps
<1>3. ASSUME NEW t \in Writers, Abort(t) PROVE PullInv'
    BY <1>3, AbortKeeps
<1>4. ASSUME NEW t \in Writers, NEW r \in Rows, WriteRow(t, r) PROVE PullInv'
    BY <1>4, WriteKeeps
<1>5. CASE Age
    BY <1>5, QuietKeeps DEF Age, phoneVars
<1> QED BY <1>1, <1>2, <1>3, <1>4, <1>5 DEF LogNext

(* The cursor invariant holds of every instance, with the facts about      *)
(* numbers, the watermark and the page under way that carry it.            *)
THEOREM PullInvHolds == PullSpec => []PullInv
<1>1. PullInit => PullInv
    BY DEF PullInit, LogInit, PullInv, NumbersDrawn, WatermarkCovers, CursorSound,
       OvertakenIsUnseen, MirrorBehind, PageSound, InFlight, NoVersion, NotPending, NoCall, NoRows
<1>2. PullTypeOK /\ PullInv /\ [PullNext]_pullVars => PullInv'
  <2> SUFFICES ASSUME PullTypeOK, PullInv, [PullNext]_pullVars PROVE PullInv'
      OBVIOUS
  <2>1. CASE LogNext /\ UNCHANGED phoneVars
      BY <2>1, LogKeeps
  <2>2. CASE Ask \/ AnswerNothing \/ LosePage
      BY <2>2, CallKeeps
  <2>3. CASE AnswerPage
      BY <2>3, AnswerKeeps
  <2>4. CASE ApplyPage
      BY <2>4, ApplyKeeps
  <2>5. CASE SwitchUser \/ UNCHANGED pullVars
      BY <2>5, QuietKeeps DEF SwitchUser, pullVars, logVars
  <2> QED BY <2>1, <2>2, <2>3, <2>4, <2>5 DEF PullNext
<1>3. PullSpec => []PullTypeOK
    BY PullTypeCorrect
<1> QED BY <1>1, <1>2, <1>3, PTL DEF PullSpec

(* For any tables, page size, writers and roles: a committed row at or     *)
(* below the cursor is on the phone at its committed version, unless its   *)
(* number was in flight or hidden when the cursor passed it.               *)
THEOREM CursorNeverSkips == PullSpec => []CursorSound
<1>1. PullInv => CursorSound
    BY DEF PullInv
<1> QED BY <1>1, PullInvHolds, PTL

(* The watermark row covers every committed version, whatever the order of *)
(* commits, so the early out never turns away a phone that has a row       *)
(* waiting.                                                                *)
THEOREM WatermarkNeverBehind == PullSpec => []WatermarkCovers
<1>1. PullInv => WatermarkCovers
    BY DEF PullInv
<1> QED BY <1>1, PullInvHolds, PTL

(* No step takes the cursor or a mirrored row back to an older version.    *)
THEOREM PhoneNeverBackwards == PullSpec => NeverBackwards
<1>1. PullTypeOK /\ PullInv /\ [PullNext]_pullVars =>
        cursor <= cursor' /\ \A r \in Rows : mirror[r] <= mirror'[r]
  <2> SUFFICES ASSUME PullTypeOK, PullInv, [PullNext]_pullVars
               PROVE  cursor <= cursor' /\ \A r \in Rows : mirror[r] <= mirror'[r]
      OBVIOUS
  <2> USE DEF PullTypeOK
  <2>1. CASE ApplyPage
    <3>1. \A r \in Rows : call.rows[r] # 0 => mirror[r] <= call.rows[r]
        BY <2>1 DEF ApplyPage, PullInv, PageSound
    <3> QED BY <2>1, <3>1 DEF ApplyPage
  <2>2. CASE UNCHANGED <<cursor, mirror>>
      BY <2>2
  <2>3. ApplyPage \/ UNCHANGED <<cursor, mirror>>
      BY DEF PullNext, phoneVars, Ask, AnswerNothing, AnswerPage, LosePage, SwitchUser, pullVars
  <2> QED BY <2>1, <2>2, <2>3
<1>2. PullTypeOK /\ PullInv /\ [PullNext]_pullVars =>
        [cursor <= cursor' /\ \A r \in Rows : mirror[r] <= mirror'[r]]_pullVars
    BY <1>1
<1> QED BY <1>2, PullTypeCorrect, PullInvHolds, PTL DEF PullSpec, NeverBackwards
=============================================================================
