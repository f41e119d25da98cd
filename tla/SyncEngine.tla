----------------------------- MODULE SyncEngine -----------------------------
(***************************************************************************)
(* The flush (packages/core/src/sync.ts) over the queue of Outbox and the  *)
(* server of ScanServer.  A flush is the set of sub-batches still to send  *)
(* (segments, then halves of a refused one) and at most one open call.     *)
(* They are disjoint intervals of the queue and go in seq order, so a set  *)
(* of sets keeps the order the code's recursion keeps.                     *)
(***************************************************************************)
EXTENDS ScanServer

VARIABLES todo    \* sub-batches of the running flush that are not sent yet

vars == <<state, kind, dep, backingOff, lastSeq, lastOp, seen,
          calls, effects, session, todo>>

TypeOK ==
    /\ OutboxTypeOK
    /\ ServerTypeOK
    /\ todo \subseteq SUBSET Ops

Init ==
    /\ OutboxInit
    /\ ServerInit
    /\ todo = {}

-----------------------------------------------------------------------------

Open == {s \in Slots : calls[s].open}

\* A segment: one desk op, or a run of scan-kind ops with no desk op between.
SegmentOf(o, batch) ==
    IF kind[o] = "rpc" THEN {o}
    ELSE {p \in batch : \A q \in batch :
            (p <= q /\ q <= o) \/ (o <= q /\ q <= p) => kind[q] # "rpc"}

Segments(batch) == {SegmentOf(o, batch) : o \in batch}

\* A cycle pulls before it flushes, so it mostly stops there once the session
\* is dead; but the session may die behind that pull's answer, and only the
\* first of the cycle's flushes has a pull before it.
StartFlush ==
    /\ todo = {}
    /\ Open = {}
    /\ NextBatch # {}
    /\ todo' = Segments(NextBatch)
    /\ UNCHANGED <<outboxVars, sessionVars, serverVars>>

IsFirst(S) == \A T \in todo \ {S} : \A o \in S, p \in T : o < p

Live_NotFiltered(S) == S \cap Present

\* Rows this flush has parked are skipped (report.failed; a parked row
\* leaves the queue's live states, and nothing else parks one).
Live(S) == S \cap Queued

SendNext ==
    /\ Open = {}
    /\ \E S \in todo :
         /\ IsFirst(S)
         /\ todo' = todo \ {S}
         /\ IF Live(S) = {}
            THEN UNCHANGED <<outboxVars, serverVars>>
            ELSE /\ MarkInflight(Live(S))
                 /\ \E s \in Slots :
                      /\ calls[s].step = "idle"
                      /\ calls' = [calls EXCEPT ![s] =
                            [IdleCall EXCEPT !.step = "sent", !.ops = Live(S), !.open = TRUE]]
                 /\ UNCHANGED <<effects, session>>
    /\ UNCHANGED sessionVars

HangUp(s) == calls' = [calls EXCEPT ![s] = IdleCall]

Acked_AllInflight(s) == {o \in Ops : state[o] = "inflight"}

\* The rows settle matches by client_seq: accepted and duplicate alike.
Acked(s) == calls[s].ops

\* settle, and dispatchOne's ack.
ReceiveAnswer(s) ==
    /\ calls[s].open /\ calls[s].step = "done"
    /\ Ack(Acked(s))
    /\ HangUp(s)
    /\ UNCHANGED <<sessionVars, effects, session, todo>>

Rank(o, S) == Cardinality({p \in S : p <= o})
FirstHalf(S) == {o \in S : Rank(o, S) <= (Cardinality(S) + 1) \div 2}

Guilty_FirstRow(s) == {o \in calls[s].ops : \A p \in calls[s].ops : o <= p}
Guilty_NamedOnly(s) == calls[s].ops \cap {calls[s].culprit}

\* The op a verdict names, or the only op there is.
Guilty(s) ==
    IF calls[s].culprit # NoOp THEN {calls[s].culprit}
    ELSE IF Cardinality(calls[s].ops) = 1 THEN calls[s].ops ELSE {}

\* parkOrBisect on a verdict: park the guilty op, else resend the halves.
ReceiveVerdict(s) ==
    /\ calls[s].open /\ calls[s].step = "refused"
    /\ IF Guilty(s) # {}
       THEN /\ \E o \in Guilty(s) : Fail(o)
            /\ UNCHANGED todo
       ELSE /\ todo' = todo \cup {FirstHalf(calls[s].ops),
                                 calls[s].ops \ FirstHalf(calls[s].ops)}
            /\ UNCHANGED outboxVars
    /\ HangUp(s)
    /\ UNCHANGED <<sessionVars, effects, session>>

\* The phone stops listening; whatever the server is doing goes on.
Abandoned(s) ==
    IF calls[s].step \in {"sent", "running"}
    THEN [calls[s] EXCEPT !.open = FALSE] ELSE IdleCall

\* Timeout, lost answer or retryable error: every row backs off, the flush ends.
ReceiveNothing(s) ==
    /\ calls[s].open
    /\ RetryLater(calls[s].ops)
    /\ calls' = [calls EXCEPT ![s] = Abandoned(s)]
    /\ todo' = {}
    /\ UNCHANGED <<sessionVars, effects, session>>

\* The app is killed: the rows, their retry times and the counter survive.
Crash ==
    /\ todo' = {}
    /\ calls' = [s \in Slots |-> IF calls[s].open THEN Abandoned(s) ELSE calls[s]]
    /\ lastOp' = [a \in Assets |-> NoOp]
    /\ seen' = {}
    /\ UNCHANGED <<outboxVars, effects, session>>

-----------------------------------------------------------------------------

Person ==
    /\ \/ \E a \in Assets, e \in Events : Scan(a, e)
       \/ ScanUnresolved
       \/ \E o \in Ops : VoidScan(o)
       \/ EnqueueOp
       \/ NewSession
       \/ \E o \in Ops : DismissCard(o)
       \/ \E o \in Ops : BackoffElapses(o)
    /\ UNCHANGED <<serverVars, todo>>

Phone ==
    \/ StartFlush
    \/ SendNext
    \/ \E s \in Slots : ReceiveAnswer(s) \/ ReceiveVerdict(s)

Outage ==
    \/ \E s \in Slots : ReceiveNothing(s)
    \/ \E s \in Slots : CallLost(s) /\ UNCHANGED <<outboxVars, sessionVars, todo>>
    \/ Crash

Server ==
    /\ \E s \in Slots : ServerBegin(s) \/ ServerTurnsAway(s) \/ ServerCommit(s)
    /\ UNCHANGED <<outboxVars, sessionVars, todo>>

Environment ==
    /\ \E x \in Sessions : SessionChanges(x)
    /\ UNCHANGED <<outboxVars, sessionVars, todo>>

Next == Person \/ Phone \/ Outage \/ Server \/ Environment

Spec == Init /\ [][Next]_vars

-----------------------------------------------------------------------------
(* Safety. *)

\* An op's effect is committed at most once, whatever was resent, however
\* many calls for it are running (submit_scan_batch's unique key, replay_op's
\* receipt).
AtMostOnce == \A o \in Ops : effects[o] <= 1

\* A scan or write waiting to be sent leaves the phone only when the server
\* has it: nothing but settle and dispatchOne's ack deletes a live row.
LeavesOnlyWhenLanded ==
    [][\A o \in Queued : state'[o] = "gone" => o \in Landed]_vars

\* An op takes effect only after the op it depends on, unless a person
\* dismissed that one ("checked in before it was checked out").
ParentFirst ==
    \A o \in Landed : dep[o] # NoOp =>
        dep[o] \in Landed \/ state[dep[o]] = "gone"

\* When the server refuses an op, every row chained behind it is parked in
\* the same step (fail's cascade).
FailureTakesTheSubtree ==
    [][\A c \in Present : dep[c] \in Parked' \ Parked => c \in Parked']_vars

\* A row parked for its parent stays behind a parked parent, so following the
\* chain always ends at a card a person can see and dismiss (attentionCards).
EveryParkedRowHasACard ==
    \A o \in Ops : state[o] = "blocked" => dep[o] \in Parked

\* An op takes effect only when every earlier op has, or is out of the queue:
\* the only ordering the queue promises is seq (sync.ts, TWO KINDS OF OP).
StrictSeqOrder ==
    [][\A o \in Landed' \ Landed : \A p \in Queued : p < o => p \in Landed']_vars

\* A row in "needs attention" is one the server never took (dismissCard).
ParkedNeverLanded == \A o \in Landed \cap Parked : kind[o] = "rpc"

\* A verdict costs the op that earned it, and bisection finds it: no op is
\* refused in its own right unless a rule refuses it or its target is missing.
OnlyTheGuiltyFail ==
    \A o \in Ops : state[o] = "failed" =>
        \/ o \in Poison
        \/ kind[o] = "void" /\ dep[o] \notin Landed
        \/ kind[o] = "rpc" /\ o \in Landed

-----------------------------------------------------------------------------
(***************************************************************************)
(* Why ParentFirst holds: the inductive invariant.  While the server names *)
(* no culprit, whatever a call or a waiting sub-batch holds, it holds the  *)
(* parent too, unless the parent has left the phone; waiting sub-batches    *)
(* are disjoint intervals after the open call, so the parent goes first;   *)
(* and a live row in hand never has a parked parent.                       *)
(***************************************************************************)
Born == 1..lastSeq
InHand == {o \in Ops : \/ \E S \in todo : o \in S
                       \/ \E s \in Open : o \in calls[s].ops}
Gone(d) == state[d] = "gone"
Before(S, T) == \A o \in S, p \in T : o < p

RowsInv ==
    /\ \A o \in Ops : state[o] = "unborn" <=> lastSeq < o
    /\ \A o \in Ops : dep[o] < o
    /\ \A a \in Assets : lastOp[a] <= lastSeq
    /\ Landed \subseteq Born

CallsInv ==
    /\ \A s \in Slots :
        /\ calls[s].ops \subseteq Born
        /\ calls[s].dups \subseteq Landed
        /\ calls[s].step = "done" => calls[s].ops \subseteq Landed
        /\ calls[s].open => calls[s].ops \subseteq Queued
        /\ calls[s].culprit # NoOp => Naming
    /\ \A s, t \in Open : s = t

TodoInv ==
    /\ \A S \in todo : S \subseteq Born
    /\ \A S, T \in todo : S # T => Before(S, T) \/ Before(T, S)
    /\ \A s \in Open, S \in todo : Before(calls[s].ops, S)

ParentsInCalls ==
    \A s \in Slots : \A o \in calls[s].ops :
        dep[o] # NoOp => dep[o] \in calls[s].ops \/ Gone(dep[o])

ParentsInHand ==
    \A o \in InHand \cap Queued :
        dep[o] # NoOp => /\ dep[o] \notin Parked
                         /\ dep[o] \in InHand \/ Gone(dep[o])

IInv ==
    /\ RowsInv
    /\ CallsInv
    /\ TodoInv
    /\ Naming = FALSE => ParentsInCalls /\ ParentsInHand /\ ParentFirst

-----------------------------------------------------------------------------
(* Liveness. *)

\* What the code's scheduling gives: the loop polls every 30 s, backoffs
\* pass, the server finishes what it starts, and an outage ends.
Fairness ==
    /\ WF_vars(Phone)
    /\ WF_vars(Server)
    /\ \A o \in Ops : WF_vars(BackoffElapses(o) /\ UNCHANGED <<serverVars, todo>>)
    /\ \A s \in Slots : WF_vars(ReceiveNothing(s) /\ calls[s].step = "lost")
    /\ <>[][~\E s \in Slots : ReceiveNothing(s) /\ calls[s].step # "lost"]_vars
    /\ <>[][~\E s \in Slots : CallLost(s)]_vars
    /\ <>[][~Crash]_vars

FairSpec == Spec /\ Fairness

\* A live row chained to a parked one, which nextBatch stops at.
Frozen == \E o \in Queued : dep[o] \in Parked

\* Every recorded op is delivered or parked in the end, unless the queue is
\* frozen behind an op recorded after its parent was parked.
QueueDrains == \A o \in Ops : o \in Queued ~> o \notin Queued \/ Frozen

\* One bad row never freezes the queue (sync.ts, parkOrBisect).
NeverFreezes == \A o \in Ops : o \in Queued ~> o \notin Queued

-----------------------------------------------------------------------------
(* Refinement. *)

\* What has become of a write: once it has landed nothing else counts.
Fate == [o \in Ops |->
    IF o \in Landed THEN "landed"
    ELSE IF o \in Queued THEN "held"
    ELSE IF o \in Parked THEN "refused"
    ELSE IF state[o] = "gone" THEN "dropped" ELSE "unborn"]

\* The queue, the flush and the server together keep the phone's promise.
Promise == INSTANCE ExactlyOnce WITH Writes <- Ops, fate <- Fate
KeepsThePromise == Promise!Spec
=============================================================================
