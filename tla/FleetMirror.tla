---------------------------- MODULE FleetMirror ----------------------------
(***************************************************************************)
(* A phone's copy of the fleet: what a scan, a fleet verb, a swap and a    *)
(* void write to it at once (packages/core/src/scan.ts, fleet.ts,          *)
(* project.ts), what a page from the server does to it (pull.ts), and the  *)
(* sync loop that sends the queue and asks for the page (engine.ts,        *)
(* sync.ts), beside the other devices of the house.                        *)
(*                                                                         *)
(* Time is the number of scans made anywhere so far.                       *)
(***************************************************************************)
EXTENDS FleetServer

CONSTANTS
    OutAtFirst,   \* assets that are out before the run
    PhoneVerbs,   \* fleet verbs used on this phone
    OtherVerbs,   \* fleet verbs used on the others
    MaxActs,      \* bound: writes the person at the phone makes
    MaxOthers     \* bound: events other devices record

VARIABLES
    clock,      \* scans made anywhere
    queue,      \* the outbox rows, in seq order
    lastId,     \* the last op id handed out
    mirror,     \* the phone's assets table
    cursor,     \* sync_meta.pull_cursor
    session,    \* the scan session on screen
    cycle,      \* where the sync loop's cycle stands
    page,       \* the page on its way, or NoPage
    answer,     \* what is on its way for the rows being sent, or NoAnswer
    strayed     \* history: <<asset, why>> for what may set its row apart

vars == <<log, fleet, version, watermark, clock, queue, lastId, mirror,
          cursor, session, cycle, page, answer, strayed>>
netVars == <<cursor, cycle, page, answer>>

Foreign == 100   \* ids of other devices' events start above this
OthersActs == Cardinality({i \in DOMAIN log : log[i].id > Foreign}) - Cardinality(OutAtFirst)
MayAct == clock - 1 - OthersActs < MaxActs

NoPage == [rows |-> <<>>, cursor |-> -1]
NoAnswer == [sent |-> {}, refused |-> 0]

MayBeRefused == {"mark_lost", "serviced"}   \* require_role gates these
Void == "void_scan"

Ids(rows)  == {rows[i].id : i \in DOMAIN rows}
IsScan(r)  == r.op # Void
Live(q)    == SelectSeq(q, LAMBDA r : r.state \in {"pending", "inflight"})
Rows(q)    == ToSet(q)
VoidedIds(q) == {r.corrects : r \in Rows(q)} \ {0}

(* serviceDaysFor: the pair a check_in closes, in the queue's own order.   *)
(* Every scan row counts, the voided and the parked ones too.              *)
ServiceDaysFor(q, op) ==
    LET walk == SelectSeq(q, LAMBDA r : /\ IsScan(r) /\ r.asset = op.asset
                                        /\ r.job = op.job /\ r.op \in Movements)
    IN  IF /\ op.job # NoJob
           /\ \E k \in 2..Len(walk) : /\ walk[k].at = op.at
                                      /\ walk[k].op = "check_in"
                                      /\ walk[k - 1].op = "check_out"
        THEN 1 ELSE 0

(* projectOp, for the asset of op. *)
ProjectOp(row, q, op) ==
    CASE op.op \in Movements ->
            Move(row, op.op, op.job,
                 IF op.op = "check_in" THEN ServiceDaysFor(q, op) ELSE 0)
      [] op.op \in {"mark_lost", "found"} ->
            LET moved == Move(row, op.op, op.job, 0)
            IN  IF op.op = "found" THEN [moved EXCEPT !.health = "ok"] ELSE moved
      [] op.op = "serviced" -> [row EXCEPT !.days = 0]
      [] op.op \in DOMAIN HEALTH_FOR -> [row EXCEPT !.health = HEALTH_FOR[op.op]]
      [] OTHER -> row

(* The same, on a mirror. *)
Project(m, q, op) == [m EXCEPT ![op.asset] = ProjectOp(@, q, op)]

NewRow(id, op, a, j, at, dep) ==
    [id |-> id, op |-> op, event |-> op, asset |-> a, job |-> j, at |-> at,
     corrects |-> 0, dep |-> dep, state |-> "pending"]

(* Rows of one transaction: each is queued, then projected. *)
Record(rows) ==
    /\ MayAct
    /\ lastId' = lastId + Len(rows)
    /\ clock' = clock + 1
    /\ queue' = queue \o rows
    /\ mirror' = FoldLeft(LAMBDA m, r : Project(m, queue \o rows, r), mirror, rows)

Opened(j) == [job |-> j, seen |-> {}, lastOp |-> [a \in Assets |-> 0]]

----------------------------------------------------------------------------
(* The person holding the phone. *)

(* ScanSession.scan of a known label, addManually and confirmContents, in  *)
(* the session on screen or in a new one: a rescan of the same event       *)
(* writes nothing; an asset shown out on another job is a conflict,        *)
(* recorded all the same.                                                  *)
Scan(s, a, e) ==
    LET r == NewRow(lastId + 1, e, a, s.job, clock + 1, s.lastOp[a])
    IN  /\ <<a, e>> \notin s.seen
        /\ Record(<<r>>)
        /\ session' = [s EXCEPT !.seen = @ \cup {<<a, e>>}, !.lastOp[a] = r.id]
        /\ UNCHANGED <<fleetServerVars, netVars, strayed>>

(* enqueueScanOp: markTerminal, markFound, markHealth, recordServiced.  *)
FleetVerb(a, e) ==
    /\ e = "found" => mirror[a].lost
    /\ e = "mark_lost" => ~mirror[a].lost
    /\ Record(<<NewRow(lastId + 1, e, a, NoJob, clock + 1, 0)>>)
    /\ UNCHANGED <<fleetServerVars, netVars, session, strayed>>

(* swapAsset: the broken item comes off the job and is flagged, a fit      *)
(* substitute goes out on the same job.                                    *)
(* Mutant: the flag does not wait for the check_in. *)
SwapAsset_Unchained(broken, sub) ==
    LET j == mirror[broken].job
    IN  /\ broken # sub
        /\ j # NoJob
        /\ ~mirror[sub].lost
        /\ mirror[sub].presence = "here"
        /\ mirror[sub].health = "ok"
        /\ Record(<<NewRow(lastId + 1, "check_in", broken, j, clock + 1, 0),
                    NewRow(lastId + 2, "flag_damage", broken, j, clock + 1, 0),
                    NewRow(lastId + 3, "check_out", sub, j, clock + 1, lastId + 1)>>)
        /\ UNCHANGED <<fleetServerVars, netVars, session, strayed>>
SwapAsset(broken, sub) ==
    LET j == mirror[broken].job
    IN  /\ broken # sub
        /\ j # NoJob
        /\ ~mirror[sub].lost
        /\ mirror[sub].presence = "here"
        /\ mirror[sub].health = "ok"
        /\ Record(<<NewRow(lastId + 1, "check_in", broken, j, clock + 1, 0),
                    NewRow(lastId + 2, "flag_damage", broken, j, clock + 1, lastId + 1),
                    NewRow(lastId + 3, "check_out", sub, j, clock + 1, lastId + 1)>>)
        /\ UNCHANGED <<fleetServerVars, netVars, session, strayed>>

(* reprojectAsset: the last unvoided in or out the queue holds, or the     *)
(* shelf.                                                                  *)
Reprojected(m, q, a) ==
    LET moves == SelectSeq(q, LAMBDA r : /\ IsScan(r) /\ r.asset = a
                                         /\ r.op \in Movements
                                         /\ r.id \notin VoidedIds(q))
    IN  IF moves # <<>> THEN Project(m, q, Last(moves))
        ELSE [m EXCEPT ![a].presence = "here", ![a].job = NoJob]

VoidScan(r) ==
    LET v == [NewRow(lastId + 1, Void, r.asset, r.job, clock + 1, r.id)
                 EXCEPT !.corrects = r.id, !.event = r.op]
    IN  /\ r \in Rows(queue) /\ IsScan(r) /\ r.id \notin VoidedIds(queue)
        /\ MayAct
        /\ lastId' = lastId + 1
        /\ clock' = clock + 1
        /\ queue' = Append(queue, v)
        /\ mirror' = Reprojected(mirror, Append(queue, v), r.asset)
        /\ strayed' = strayed \cup {<<r.asset, "voided">>}
        /\ UNCHANGED <<fleetServerVars, netVars, session>>

(* The parked rows that wait on root, root included: a row's dep precedes it. *)
Behind(q, root) ==
    FoldLeft(LAMBDA ids, r : IF r.dep \in ids THEN ids \cup {r.id} ELSE ids,
             {root}, q)

(* store.dismissCard: a refused row and the parked rows behind it. *)
DismissCard(r) ==
    /\ r \in Rows(queue) /\ r.state = "failed"
    /\ LET doomed == Behind(SelectSeq(queue, LAMBDA x : x.state \in {"failed", "blocked"}), r.id)
       IN  queue' = SelectSeq(queue, LAMBDA x : x.id \notin doomed)
    /\ UNCHANGED <<fleetServerVars, netVars, clock, lastId, mirror, session, strayed>>

----------------------------------------------------------------------------
(* The sync loop: a cycle pulls, then flushes. *)

StartCycle ==
    /\ cycle = "idle"
    /\ cycle' = "pulling"
    /\ page' = PageAfter(cursor)
    /\ UNCHANGED <<fleetServerVars, clock, queue, lastId, mirror, cursor,
                   session, answer, strayed>>

PageLost ==
    /\ cycle = "pulling"
    /\ cycle' = "idle"
    /\ page' = NoPage
    /\ UNCHANGED <<fleetServerVars, clock, queue, lastId, mirror, cursor,
                   session, answer, strayed>>

(* PullApplier.apply: the page's rows, in the columns the phone mirrors    *)
(* (MIRROR_COLUMNS has no service meter), then every unsent op again.      *)
(* Mutant: current_job_id is not among the mirrored columns. *)
Upserted_KeepsJob(m, rows) ==
    [a \in Assets |-> IF a \in DOMAIN rows
                      THEN [rows[a] EXCEPT !.days = m[a].days, !.job = m[a].job]
                      ELSE m[a]]
Upserted(m, rows) ==
    [a \in Assets |-> IF a \in DOMAIN rows
                      THEN [rows[a] EXCEPT !.days = m[a].days] ELSE m[a]]

(* Mutant: the queue is replayed newest first. *)
ReplayPendingWrites_NewestFirst(m, q) ==
    FoldLeft(LAMBDA x, r : Project(x, q, r), m, Reverse(Live(q)))
ReplayPendingWrites(m, q) == FoldLeft(LAMBDA x, r : Project(x, q, r), m, Live(q))

ApplyPage ==
    /\ cycle = "pulling"
    /\ cycle' = "flushing"
    /\ mirror' = ReplayPendingWrites(Upserted(mirror, page.rows), queue)
    /\ cursor' = IF page.cursor > cursor THEN page.cursor ELSE cursor
    /\ page' = NoPage
    /\ strayed' = strayed \cup {<<r.asset, "replayed">> :
                        r \in {x \in Rows(Live(queue)) : x.id \in Ids(log)}}
    /\ UNCHANGED <<fleetServerVars, clock, queue, lastId, session, answer>>

(* Outbox.nextBatch: the unsent rows, up to one that waits on a parked row. *)
NextBatch ==
    LET live  == Live(queue)
        stuck == {i \in DOMAIN live : live[i].dep \in Ids(queue) \ Ids(live)}
    IN  SubSeq(live, 1, IF stuck = {} THEN Len(live)
                        ELSE (CHOOSE i \in stuck : \A k \in stuck : i <= k) - 1)

WithState(ids, st) ==
    [i \in DOMAIN queue |-> IF queue[i].id \in ids
                            THEN [queue[i] EXCEPT !.state = st] ELSE queue[i]]

(* The ops a server may refuse in a batch: one whose event a role gates,   *)
(* and the first whose row the constraint forbids.                         *)
Refusable(ops) ==
    {ops[i].id : i \in {k \in DOMAIN ops :
        \/ ops[k].event \in MayBeRefused
        \/ /\ Taken(SubSeq(ops, 1, k)).broken
           /\ ~Taken(SubSeq(ops, 1, k - 1)).broken}}

(* sendScans and isolate: a prefix of the unsent rows goes out.  A batch   *)
(* refused without the server naming the op leaves both sides as they      *)
(* were, and the bisection then sends shorter prefixes.                    *)
Send(k) ==
    LET ops == SubSeq(NextBatch, 1, k)
    IN  /\ cycle = "flushing" /\ answer = NoAnswer
        /\ queue' = WithState(Ids(ops), "inflight")
        /\ \/ /\ SubmitScanBatch(ops)
              /\ answer' = [sent |-> Ids(ops), refused |-> 0]
              /\ strayed' = strayed \cup (Taken(ops).late \X {"late"})
           \/ \E id \in Refusable(ops) :
              /\ answer' = [sent |-> Ids(ops), refused |-> id]
              /\ UNCHANGED <<fleetServerVars, strayed>>
        /\ UNCHANGED <<clock, lastId, mirror, cursor, session, cycle, page>>

(* settle: the rows the server has are deleted. *)
Acked ==
    /\ answer # NoAnswer /\ answer.refused = 0
    /\ queue' = SelectSeq(queue, LAMBDA r : r.id \notin answer.sent)
    /\ answer' = NoAnswer
    /\ UNCHANGED <<fleetServerVars, clock, lastId, mirror, cursor, session,
                   cycle, page, strayed>>

(* parkOrBisect with the op known: Outbox.fail parks its closure. *)
Parked ==
    LET parked == Behind(queue, answer.refused)
    IN  /\ answer # NoAnswer /\ answer.refused # 0
        /\ queue' = [i \in DOMAIN queue |->
                        CASE queue[i].id = answer.refused ->
                                [queue[i] EXCEPT !.state = "failed"]
                          [] queue[i].id \in parked \ {answer.refused} ->
                                [queue[i] EXCEPT !.state = "blocked"]
                          [] OTHER -> queue[i]]
        /\ strayed' = strayed \cup {<<r.asset, "parked">> : r \in {x \in Rows(queue) : x.id \in parked}}
        /\ answer' = NoAnswer
        /\ UNCHANGED <<fleetServerVars, clock, lastId, mirror, cursor, session,
                       cycle, page>>

(* retryLater, and recoverInflight after a kill: the answer never came. *)
AnswerLost ==
    /\ answer # NoAnswer
    /\ queue' = WithState(answer.sent, "pending")
    /\ answer' = NoAnswer
    /\ cycle' = "idle"
    /\ UNCHANGED <<fleetServerVars, clock, lastId, mirror, cursor, session,
                   page, strayed>>

CycleEnds ==
    /\ cycle = "flushing" /\ answer = NoAnswer
    /\ cycle' = "idle"
    /\ UNCHANGED <<fleetServerVars, clock, queue, lastId, mirror, cursor,
                   session, page, answer, strayed>>

----------------------------------------------------------------------------
(* Another device of the house, scanning online. *)
OtherScan(a, e, j) ==
    /\ OthersActs < MaxOthers
    /\ e = "found" => ServerRow(a).lost
    /\ clock' = clock + 1
    /\ SubmitScanBatch(<<[id |-> Foreign + clock, event |-> e, asset |-> a,
                          job |-> j, at |-> clock + 1, corrects |-> 0]>>)
    /\ UNCHANGED <<netVars, queue, lastId, mirror, session, strayed>>

Init ==
    /\ \E j \in Jobs : ServerInit(OutAtFirst, j, Foreign + 100)
    /\ clock = 1 /\ lastId = 0 /\ cursor = 1
    /\ queue = <<>>
    /\ mirror = [a \in Assets |-> ServerRow(a)]
    /\ session = Opened(NoJob)
    /\ cycle = "idle" /\ page = NoPage /\ answer = NoAnswer
    /\ strayed = {}

Next ==
    \/ \E s \in {session} \cup {Opened(j) : j \in Jobs \cup {NoJob}},
          a \in Assets, e \in Movements : Scan(s, a, e)
    \/ \E a \in Assets, e \in PhoneVerbs : FleetVerb(a, e)
    \/ \E a, b \in Assets : SwapAsset(a, b)
    \/ \E r \in Rows(queue) : VoidScan(r) \/ DismissCard(r)
    \/ StartCycle \/ PageLost \/ ApplyPage \/ CycleEnds
    \/ \E k \in 1..Len(NextBatch) : Send(k)
    \/ Acked \/ Parked \/ AnswerLost
    \/ \E a \in Assets, e \in Movements \cup OtherVerbs, j \in Jobs : OtherScan(a, e, j)

Spec == Init /\ [][Next]_vars

----------------------------------------------------------------------------
RowType == [id : 1..lastId, op : EventTypes \cup {Void}, event : EventTypes,
            asset : Assets, job : Jobs \cup {NoJob}, at : Nat, corrects : 0..lastId,
            dep : 0..lastId, state : {"pending", "inflight", "failed", "blocked"}]

(* Type correctness of the phone's queue and mirror and of the server's    *)
(* fleet; an op of the queue has one row and precedes what waits on it.    *)
MirrorTypeOK ==
    /\ \A i \in DOMAIN queue : /\ queue[i] \in RowType
                               /\ \A k \in DOMAIN queue : i < k => queue[i].id < queue[k].id
    /\ mirror \in [Assets -> AssetRow]
    /\ \A a \in Assets : ServerRow(a) \in AssetRow
    /\ cursor \in 0..watermark
    /\ cycle \in {"idle", "pulling", "flushing"}

Strayed(why) == {a \in Assets : \E w \in why : <<a, w>> \in strayed}
EveryReason == {"voided", "parked", "late", "replayed"}

(* "Your own scan undoes itself" never happens (pull.ts): while an op on   *)
(* an asset waits to be sent, whatever page arrives, the phone shows where *)
(* its last unsent movement put it and how its last unsent health verb     *)
(* left it.  Assets with a voided or parked op are excepted.               *)
LastUnsent(a, ops) ==
    LET rows == SelectSeq(Live(queue), LAMBDA r : r.asset = a /\ r.op \in ops)
    IN  IF rows = <<>> THEN {} ELSE {Last(rows)}

OwnScansStand ==
    \A a \in Assets \ Strayed({"voided", "parked"}) :
        /\ \A r \in LastUnsent(a, DOMAIN PRESENCE_FOR) :
              /\ mirror[a].presence = PRESENCE_FOR[r.op]
              /\ r.op = "check_out" => mirror[a].job = r.job
        /\ \A r \in LastUnsent(a, DOMAIN HEALTH_FOR) :
              mirror[a].health = HEALTH_FOR[r.op]

(* Where an asset is, and for which job. *)
Whereabouts(row) == <<row.presence, row.job, row.lost>>

CaughtUp == queue = <<>> /\ answer = NoAnswer /\ page = NoPage /\ cursor = watermark
Agrees(a) == Whereabouts(mirror[a]) = Whereabouts(ServerRow(a))

(* A phone with nothing unsent that has pulled everything shows every      *)
(* asset where the server has it, unless an op on it was voided, refused,  *)
(* late, or replayed over a page that already told of it.                  *)
CaughtUpAgrees == CaughtUp => \A a \in Assets \ Strayed(EveryReason) : Agrees(a)

(* Claimed: "The device's own unsent truth always wins locally until the   *)
(* server has actually seen it" (pull.ts:22), so once the server has seen  *)
(* it, and everything is pulled, the server's truth stands.                *)
SeenIsSettled ==
    CaughtUp => \A a \in Assets \ Strayed({"voided", "parked", "late"}) : Agrees(a)

(* The server's row does not depend on the order scans arrive in: an asset *)
(* stands where replaying its uncorrected log in effective-time order      *)
(* leaves it, and for that job when it is out, however late a phone        *)
(* reported (apply_scan_event's is_newer, rebuild_asset_projection).  This *)
(* is for the assets whose log holds nothing but moves.                    *)
StandsWhereItsLogSays(a) ==
    LET replayed == Last(Replay(log, a))
    IN  /\ ServerRow(a).presence = replayed.presence
        /\ replayed.presence = "out" => ServerRow(a).job = replayed.job

LateMovesCommute ==
    \A a \in Assets :
        (\A i \in DOMAIN log : log[i].asset = a => log[i].event \in DOMAIN PRESENCE_FOR)
            => StandsWhereItsLogSays(a)

(* Claimed of every asset (0003): current state is what the log, replayed, *)
(* says it is; a late arrival gives way to newer truth and to nothing else.*)
ArrivalOrderIsNothing == \A a \in Assets : StandsWhereItsLogSays(a)

(* "A parked check_in never lets its consequences ship alone" (fleet.ts:   *)
(* 381): whatever is refused, a swap's flag and its substitute's check_out *)
(* are in the log only with the check_in of the broken item before them.   *)
SwapLandsWhole ==
    \A i \in DOMAIN log :
        \/ /\ log[i].event = "flag_damage" /\ log[i].corrects = 0
           /\ log[i].job # NoJob /\ log[i].id < Foreign
        \/ \E k \in DOMAIN log \ {i} : log[k].at = log[i].at /\ log[i].id < Foreign
        => \E n \in 1..i : log[n].at = log[i].at /\ log[n].event = "check_in"

(* The scan log can be relied on: it says where each asset is, in whatever *)
(* order it was filled, and holds no part of a swap without the rest.      *)
LogStands == LateMovesCommute /\ SwapLandsWhole
=============================================================================
