---------------------------- MODULE FleetServer ----------------------------
(***************************************************************************)
(* What scans do to a house's fleet on the server: the append-only         *)
(* scan_events log, the reducer that projects an event on its asset and    *)
(* the rebuild that replays an asset's log after a correction              *)
(* (db/migrations/0025_network.sql, 0021_living_fleet.sql), with the rule  *)
(* for one event that the phone runs too (packages/core/src/project.ts).   *)
(*                                                                         *)
(* An event's `at` is its effective time.  A rental day pair adds one day  *)
(* to the service meter: dates are not modelled.                           *)
(***************************************************************************)
EXTENDS Integers, Sequences, FiniteSets, SequencesExt

CONSTANTS
    Assets,
    Jobs,
    NoJob,
    MaxDays    \* bound: the service meter stops counting here

ASSUME JobAssumption == NoJob \notin Jobs /\ MaxDays \in Nat

PRESENCE_FOR == [check_out |-> "out",  check_in |-> "here",
                 mark_lost |-> "gone", found    |-> "here"]

HEALTH_FOR == [quarantine          |-> "quarantined", release |-> "ok",
               send_to_service     |-> "servicing",   found   |-> "ok",
               return_from_service |-> "ok",  flag_damage |-> "quarantined"]

Movements == {"check_out", "check_in"}
EventTypes == DOMAIN PRESENCE_FOR \cup DOMAIN HEALTH_FOR \cup {"serviced"}

(* The mirrored columns of an asset; lost stands for its disposition. *)
AssetRow == [presence : {"here", "out", "gone"}, job : Jobs \cup {NoJob},
             health : {"ok", "quarantined", "servicing"}, lost : BOOLEAN,
             days : 0..MaxDays]

OnShelf == [presence |-> "here", job |-> NoJob, health |-> "ok",
            lost |-> FALSE, days |-> 0]

(* Where a movement or a fleet verb leaves an asset. *)
Move(row, event, job, days) ==
    [row EXCEPT !.presence = PRESENCE_FOR[event],
                !.job  = CASE event = "check_out" -> job
                           [] event = "found"     -> @
                           [] OTHER               -> NoJob,
                !.lost = IF event \in Movements THEN @ ELSE event = "mark_lost",
                !.days = IF @ + days > MaxDays THEN MaxDays ELSE @ + days]

VARIABLES
    log,        \* scan_events in server_seq order
    fleet,      \* assets: an AssetRow with its last applied (at, seq)
    version,    \* asset -> the change-log position of its latest update
    watermark   \* the house's latest change-log position

fleetServerVars == <<log, fleet, version, watermark>>

ServerRow(a) == fleet[a].row

Earlier(e, f) == e.at < f.at \/ (e.at = f.at /\ e.seq < f.seq)

(* The rental a check_in closes: the latest earlier in or out of the same  *)
(* asset on the same job is a check_out.  The log's corrections wear the   *)
(* event type they correct and are not told apart here.                    *)
PairDays(events, e) ==
    LET Before == {i \in DOMAIN events :
                      /\ events[i].asset = e.asset /\ events[i].job = e.job
                      /\ events[i].event \in Movements
                      /\ Earlier(events[i], e)}
    IN  IF /\ e.event = "check_in" /\ e.job # NoJob
           /\ \E i \in Before : /\ events[i].event = "check_out"
                                /\ \A k \in Before \ {i} :
                                      Earlier(events[k], events[i])
        THEN 1 ELSE 0

(* apply_scan_event's update of the row. *)
Reduce(row, events, e) ==
    CASE e.event \in DOMAIN PRESENCE_FOR -> Move(row, e.event, e.job, PairDays(events, e))
      [] e.event = "serviced"            -> [row EXCEPT !.days = 0]
      [] OTHER                           -> [row EXCEPT !.health = HEALTH_FOR[e.event]]

(* assets_disposition_gone_check: a disposition is a way of being gone. *)
Forbidden(row) == row.lost /\ row.presence # "gone"

Corrected(events) == {events[i].corrects : i \in DOMAIN events}

History(events, a) ==
    SortSeq(SelectSeq(events, LAMBDA e : /\ e.asset = a /\ e.corrects = 0
                                         /\ e.id \notin Corrected(events)),
            Earlier)

(* rebuild_asset_projection: the steps of the replay, the clean slate first. *)
Replay(events, a) ==
    LET Step(rows, e) == Append(rows, Reduce(Last(rows), events, e))
    IN  FoldLeft(Step, <<OnShelf>>, History(events, a))

Rebuilt(events, a) ==
    LET h == History(events, a)
    IN  [row |-> Last(Replay(events, a)),
         at  |-> IF h = <<>> THEN 0 ELSE Last(h).at,
         seq |-> IF h = <<>> THEN 0 ELSE Last(h).seq]

(* Mutant: every arrival is applied. *)
IsNewer_Always(f, a, e) == TRUE
IsNewer(f, a, e) == \/ e.at > f[a].at
                    \/ e.at = f[a].at /\ e.seq > f[a].seq

(* The asset after the AFTER INSERT trigger has seen event e. *)
Projected(f, events, e) ==
    CASE e.corrects # 0            -> Rebuilt(events, e.asset)
      [] IsNewer(f, e.asset, e)    -> [row |-> Reduce(f[e.asset].row, events, e),
                                       at |-> e.at, seq |-> e.seq]
      [] OTHER                     -> f[e.asset]

(* What makes the insert fail: a correction of an event the log has not    *)
(* got, or a row the constraint forbids, the replay's own included.        *)
Violates(f, events, e) ==
    IF e.corrects # 0
    THEN \/ e.corrects \notin {events[i].id : i \in DOMAIN events}
         \/ \E r \in ToSet(Replay(events, e.asset)) : Forbidden(r)
    ELSE Forbidden(Projected(f, events, e).row)

(***************************************************************************)
(* submit_scan_batch, one transaction: the events of ops are appended and  *)
(* projected in client_seq order; an op the log already has is answered    *)
(* duplicate.  w is the transaction so far.                                *)
(***************************************************************************)
TakeOp(w, op) ==
    IF \E i \in DOMAIN w.log : w.log[i].id = op.id THEN w
    ELSE LET e  == [id |-> op.id, asset |-> op.asset, event |-> op.event,
                    job |-> op.job, at |-> op.at, corrects |-> op.corrects,
                    seq |-> Len(w.log) + 1]
             l  == Append(w.log, e)
         IN  [log     |-> l,
              fleet   |-> [w.fleet EXCEPT ![e.asset] = Projected(w.fleet, l, e)],
              touched |-> w.touched \cup {e.asset},
              late    |-> w.late \cup (IF e.corrects # 0 \/ IsNewer(w.fleet, e.asset, e)
                                       THEN {} ELSE {e.asset}),
              broken  |-> w.broken \/ Violates(w.fleet, l, e)]

Taken(ops) == FoldLeft(TakeOp, [log |-> log, fleet |-> fleet,
                                touched |-> {}, late |-> {}, broken |-> FALSE], ops)

SubmitScanBatch(ops) ==
    LET w       == Taken(ops)
        changed == {a \in w.touched : w.fleet[a] # fleet[a]}
    IN  /\ ~w.broken
        /\ log' = w.log
        /\ fleet' = w.fleet
        /\ watermark' = watermark + (IF changed = {} THEN 0 ELSE 1)
        /\ version' = [a \in Assets |-> IF a \in changed THEN watermark + 1
                                                         ELSE version[a]]

(* The house before the run: the assets of out went out on a job, each by  *)
(* an event of its own.                                                    *)
ServerInit(out, job, firstId) ==
    LET list == SetToSeq(out)
        Sent(i) == [id |-> firstId + i, asset |-> list[i], event |-> "check_out",
                    job |-> job, at |-> 1, corrects |-> 0]
        w == FoldLeft(TakeOp,
                      [log |-> <<>>, touched |-> {}, late |-> {}, broken |-> FALSE,
                       fleet |-> [a \in Assets |-> [row |-> OnShelf, at |-> 0, seq |-> 0]]],
                      [i \in DOMAIN list |-> Sent(i)])
    IN  /\ log = w.log
        /\ fleet = w.fleet
        /\ version = [a \in Assets |-> 1]
        /\ watermark = 1

(* What 0005 sends for a cursor: the assets changed since. *)
(* Mutant: the cursor sent is one past the page. *)
PageAfter_OnePast(c) ==
    [rows   |-> [a \in {x \in Assets : version[x] > c} |-> ServerRow(a)],
     cursor |-> watermark + 1]
PageAfter(c) ==
    [rows   |-> [a \in {x \in Assets : version[x] > c} |-> ServerRow(a)],
     cursor |-> watermark]
=============================================================================
