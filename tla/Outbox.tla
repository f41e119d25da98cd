------------------------------- MODULE Outbox -------------------------------
(***************************************************************************)
(* The phone's queue of unsent writes (packages/core/src/outbox.ts) and    *)
(* the two places that write it: a scan session (scan.ts) and the          *)
(* "needs attention" list (apps/app/src/demo/store.ts).                    *)
(*                                                                         *)
(* An op is named by its seq, which the code hands out once and never      *)
(* again; the uuid that goes with it carries no more information.  One     *)
(* action of a module that extends this one is one SQLite transaction or   *)
(* one stretch of JavaScript between two awaits.                           *)
(***************************************************************************)
EXTENDS Integers, FiniteSets

CONSTANTS
    MaxOps,   \* bound: ops the phone ever records
    Limit,    \* nextBatch's limit
    Assets,   \* items a label resolves to
    Events,   \* event types a session may record for an item
    Kinds     \* which kinds of op this instance records

ASSUME OutboxAssumption ==
    /\ MaxOps \in Nat
    /\ Limit \in Nat \ {0}
    /\ Kinds \subseteq {"scan", "void", "rpc"}

Ops == 1..MaxOps
NoOp == 0

VARIABLES
    state,       \* op -> where its row stands
    kind,        \* op -> what it is
    dep,         \* op -> depends_on, or NoOp
    backingOff,  \* ops whose next_retry_at is still in the future
    lastSeq,     \* sync_meta.outbox_seq
    lastOp,      \* item -> the session's latest op on it
    seen         \* the session's dedupe set

outboxVars == <<state, kind, dep, backingOff, lastSeq>>
sessionVars == <<lastOp, seen>>

(***************************************************************************)
(* "failed" is a row the server refused; "blocked" is a failed row whose   *)
(* error_code is blocked_by_dependency.  "unborn" has no row yet and       *)
(* "gone" has none any more.                                               *)
(***************************************************************************)
RowState == {"unborn", "pending", "inflight", "failed", "blocked", "gone"}

Queued  == {o \in Ops : state[o] \in {"pending", "inflight"}}
Parked  == {o \in Ops : state[o] \in {"failed", "blocked"}}
Present == Queued \cup Parked

OutboxTypeOK ==
    /\ state \in [Ops -> RowState]
    /\ kind \in [Ops -> Kinds \cup {"none"}]
    /\ dep \in [Ops -> 0..MaxOps]
    /\ backingOff \subseteq Ops
    /\ lastSeq \in 0..MaxOps
    /\ lastOp \in [Assets -> 0..MaxOps]
    /\ seen \subseteq Assets \X Events

OutboxInit ==
    /\ state = [o \in Ops |-> "unborn"]
    /\ kind = [o \in Ops |-> "none"]
    /\ dep = [o \in Ops |-> NoOp]
    /\ backingOff = {}
    /\ lastSeq = 0
    /\ lastOp = [a \in Assets |-> NoOp]
    /\ seen = {}

-----------------------------------------------------------------------------
(* The queue's operations. *)

Enqueue(k, d) ==
    /\ lastSeq < MaxOps
    /\ lastSeq' = lastSeq + 1
    /\ state' = [state EXCEPT ![lastSeq + 1] = "pending"]
    /\ kind' = [kind EXCEPT ![lastSeq + 1] = k]
    /\ dep' = [dep EXCEPT ![lastSeq + 1] = d]
    /\ UNCHANGED backingOff

UpTo(o) == {p \in Queued : p <= o}

\* The loop's two breaks: the row is backing off, or its dependency still
\* has a row and is not in the batch so far.
Ready(o) ==
    /\ o \notin backingOff
    /\ dep[o] = NoOp \/ dep[o] \in UpTo(o) \/ dep[o] \notin Present

NextBatch_SkipsGaps ==
    {o \in Queued : Cardinality(UpTo(o)) <= Limit /\ Ready(o)}

\* nextBatch: the longest ready prefix of the queue, at most Limit rows.
NextBatch ==
    {o \in Queued : /\ Cardinality(UpTo(o)) <= Limit
                    /\ \A p \in UpTo(o) : Ready(p)}

MarkInflight(S) ==
    /\ state' = [o \in Ops |-> IF o \in S \cap Present THEN "inflight" ELSE state[o]]
    /\ UNCHANGED <<kind, dep, backingOff, lastSeq>>

RetryLater_UnknownState(S) ==
    /\ state' = [o \in Ops |-> IF o \in S \cap Present THEN "retry" ELSE state[o]]
    /\ backingOff' = backingOff \cup (S \cap Present)
    /\ UNCHANGED <<kind, dep, lastSeq>>

Ack(S) ==
    /\ state' = [o \in Ops |-> IF o \in S \cap Present THEN "gone" ELSE state[o]]
    /\ backingOff' = backingOff \ S
    /\ UNCHANGED <<kind, dep, lastSeq>>

RetryLater(S) ==
    /\ state' = [o \in Ops |-> IF o \in S \cap Present THEN "pending" ELSE state[o]]
    /\ backingOff' = backingOff \cup (S \cap Present)
    /\ UNCHANGED <<kind, dep, lastSeq>>

\* Every row reached from root along depends_on through rows of R: the least
\* set that holds root and every row of R depending on a member.
ClosedIn(R, S) == \A c \in R : dep[c] \in S => c \in S
ClosureIn(R, root) ==
    {o \in Ops : \A S \in SUBSET Ops : root \in S /\ ClosedIn(R, S) => o \in S}

Cascade_NodeOnly(root) == {root}

\* fail: the breadth-first cascade over the whole table.
Cascade(root) == ClosureIn(Present, root)

Fail(root) ==
    /\ state' = [o \in Ops |->
                    IF o \notin Cascade(root) \cap Present THEN state[o]
                    ELSE IF o = root THEN "failed" ELSE "blocked"]
    /\ backingOff' = backingOff \ Cascade(root)
    /\ UNCHANGED <<kind, dep, lastSeq>>

-----------------------------------------------------------------------------
(* The people who write the queue. *)

\* A scan of a label that resolves to an item: deduped, chained behind the
\* session's last op on that item, even when that op has since been parked.
Scan(a, e) ==
    /\ "scan" \in Kinds
    /\ <<a, e>> \notin seen
    /\ Enqueue("scan", lastOp[a])
    /\ seen' = seen \cup {<<a, e>>}
    /\ lastOp' = [lastOp EXCEPT ![a] = lastSeq + 1]

\* A scan of an unknown or retired label is recorded by its tag only.
ScanUnresolved ==
    /\ "scan" \in Kinds
    /\ Enqueue("scan", NoOp)
    /\ UNCHANGED sessionVars

\* voidScan: any scan op that still has a row and no queued void.
VoidScan(o) ==
    /\ "void" \in Kinds
    /\ o \in Present
    /\ kind[o] = "scan"
    /\ \A v \in Present : kind[v] = "void" => dep[v] # o
    /\ Enqueue("void", o)
    /\ UNCHANGED sessionVars

\* enqueueOp: a desk write, chained behind the latest queued op that names
\* the same thing (lastOpNaming looks at pending and inflight rows only).
EnqueueOp ==
    /\ "rpc" \in Kinds
    /\ \E d \in {NoOp} \cup {o \in Queued : kind[o] = "rpc"} : Enqueue("rpc", d)
    /\ UNCHANGED sessionVars

NewSession ==
    /\ seen # {}
    /\ lastOp' = [a \in Assets |-> NoOp]
    /\ seen' = {}
    /\ UNCHANGED outboxVars

Doomed_CardOnly(root) == {root}
Doomed_AnyState(root) == ClosureIn(Present, root)

\* dismissCard: a card is a refused row; it goes with every failed row
\* behind it, and rows that are not failed stay.
Doomed(root) == ClosureIn(Parked, root) \cap Parked

DismissCard(root) ==
    /\ state[root] = "failed"
    /\ state' = [o \in Ops |-> IF o \in Doomed(root) THEN "gone" ELSE state[o]]
    /\ UNCHANGED <<kind, dep, backingOff, lastSeq>>
    /\ UNCHANGED sessionVars

\* A row's next_retry_at passes.
BackoffElapses(o) ==
    /\ o \in backingOff
    /\ backingOff' = backingOff \ {o}
    /\ UNCHANGED <<state, kind, dep, lastSeq>>
    /\ UNCHANGED sessionVars
=============================================================================
