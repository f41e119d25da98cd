------------------------------ MODULE Evidence ------------------------------
(***************************************************************************)
(* What exists only on the phone, and the database that keeps it: the      *)
(* device database (apps/app/src/db, packages/core/src/db), condition      *)
(* photos and voice notes (photos.ts, voice-notes.ts), scans with their    *)
(* queue rows (scan.ts, outbox.ts) and the uploader (upload.ts).           *)
(*                                                                         *)
(* JavaScript runs one call at a time, but a call is many statements, and  *)
(* Android may kill the app, or SQLite refuse, at any of them. So a call   *)
(* is a script of statements, one step each, and only a failure or a kill  *)
(* comes between; other calls come where the code awaits.                  *)
(*                                                                         *)
(* The app has no caller for Uploader.drain and CapacitorKeyProvider.wipe: *)
(* here they may be called at any time.                                    *)
(***************************************************************************)
EXTENDS Naturals, Sequences, SequencesExt, FiniteSets, FiniteSetsExt

CONSTANTS
    Scans, Photos, Notes,  \* what may be captured
    Weight,       \* bytes of each photo and note
    Budget,       \* bytes of photos, and of notes, that may wait on the phone
    Baseline,     \* the tables and columns of version 1
    Ladder,       \* LOCAL_MIGRATIONS: the statements of step v, at index v - 1
    Inherited,    \* the databases an earlier app may have left
    Drains,       \* upload drains that may overlap
    DrainLimit,   \* rows one drain takes
    Native,       \* the app runs on a phone, not in a browser
    MaxFaults     \* bound: kills, failed statements and broken builds

(* A statement of the ladder adds a table or a column.                     *)
Addition == [do : {"table"}, table : STRING]
            \cup [do : {"column"}, table : STRING, column : STRING]

ASSUME EvidenceAssumption ==
    /\ Native \in BOOLEAN /\ Scans \cap (Photos \cup Notes) = {}
    /\ \A i \in Photos \cup Notes : Weight[i] \in Nat
    /\ Ladder \in Seq(Seq(Addition)) /\ DrainLimit \in Nat

VARIABLES
    vault,      \* "empty", "sealed" (the file and its key) or "orphan" (no key)
    disk,       \* the committed database on the phone
    app,        \* "off", "opening", "open", "refused", "wiping", "gutted"
    store,      \* the open database is on the "device", in "memory", or "none"
    work,       \* the open database as its connection sees it
    undo,       \* what a rollback restores
    depth,      \* the driver's transaction depth
    script,     \* statements left of the running call
    call,       \* what the running call is for
    drains,     \* [rows left, sent: the head's bytes have left]
    host,       \* photos and notes the host has
    server,     \* scans the server has
    promised,   \* history: captures the app said it kept
    faults

dbVars == <<disk, work, undo, depth>>
worldVars == <<host, server, promised>>
vars == <<vault, app, store, dbVars, script, call, drains, worldVars, faults>>

Media == Photos \cup Notes
Idle == script = <<>>
NoCall == [does |-> "nothing"]
NoDrain == [rows |-> <<>>, sent |-> FALSE]
Blank == [schema |-> {}, stamp |-> 0, outbox |-> {}, effect |-> {},
          rows |-> {}, uploaded |-> {}, queue |-> <<>>, done |-> {}]

(* A database of finitely many rows, with the tables that evidence needs.  *)
Tables(db) ==
    [schema |-> db.schema, stamp |-> db.stamp, outbox |-> db.outbox, effect |-> db.effect,
     rows |-> db.rows, uploaded |-> db.uploaded, queue |-> db.queue, done |-> db.done]
IsDatabase(db) ==
    /\ db = Tables(db) /\ db.stamp \in Nat
    /\ IsFiniteSet(db.outbox) /\ IsFiniteSet(db.rows)
    /\ db.outbox \cup db.effect \subseteq Scans
    /\ db.rows \subseteq Media /\ db.queue \in Seq(Media)

(* Its pairs are whole, what the server had of it apart.                   *)
Paired(db, landed) ==
    /\ db.effect \cup db.outbox \subseteq (db.effect \cap db.outbox) \cup landed
    /\ db.rows = ToSet(db.queue)
    /\ db.uploaded = db.done

(* Earlier apps wrote in pairs too; what they had sent is not at stake.    *)
ASSUME InheritedAssumption ==
    \A db \in Inherited : IsDatabase(db) /\ Paired(db, {}) /\ db.uploaded = {}

-----------------------------------------------------------------------------
(* Statements and scripts.                                                 *)

Begin == [do |-> "begin"]
End   == [do |-> "end"]
Into(table, item) == [do |-> "insert", table |-> table, item |-> item]
Stamp(v) == [do |-> "stamp", version |-> v]
LocalSchema == [do |-> "schema"]
Transaction(statements) == <<Begin>> \o statements \o <<End>>

Latest == Len(Ladder) + 1
TheTable(t) == [table |-> t, column |-> "itself"]
Declared(statement) ==
    IF statement.do = "table" THEN TheTable(statement.table)
    ELSE [table |-> statement.table, column |-> statement.column]
Given(v) == Baseline \cup {Declared(st) : st \in UNION {ToSet(Ladder[n - 1]) : n \in 2..v}}
Current == Given(Latest)
Created(schema) ==   \* create table if not exists, for every table of LOCAL_SCHEMA
    schema \cup {c \in Current : TheTable(c.table) \notin schema}

(* A column or a table that is there already is skipped.                   *)
Applied(db, st) ==
    CASE st.do \in {"table", "column"} -> [db EXCEPT !.schema = @ \cup {Declared(st)}]
      [] st.do = "schema" -> [db EXCEPT !.schema = Created(@)]
      [] st.do = "stamp"  -> [db EXCEPT !.stamp = st.version]
      [] st.do = "insert" ->
            IF st.table = "queue" THEN [db EXCEPT !.queue = Append(@, st.item)]
            ELSE [db EXCEPT ![st.table] = @ \cup {st.item}]

(* migrateLocal: each step with its stamp, then the present.               *)
StepScript_StampFirst(v) == Transaction(<<Stamp(v)>>) \o Transaction(Ladder[v - 1])
StepScript(v) == Transaction(Append(Ladder[v - 1], Stamp(v)))
PresentScript == Transaction(<<LocalSchema, Stamp(Latest)>>)
SchemaVersion(db) ==
    IF db.schema = {} THEN 0 ELSE IF db.stamp = 0 THEN 1 ELSE db.stamp
MigrateScript(db) ==
    LET from == SchemaVersion(db)
        due  == IF from = 0 THEN <<>> ELSE [i \in 1..(Latest - from) |-> StepScript(from + i)]
    IN FlattenSeq(due) \o PresentScript

ScanScript(s)    == Transaction(Transaction(<<Into("outbox", s)>>) \o <<Into("effect", s)>>)
CaptureScript(i) == Transaction(<<Into("rows", i), Into("queue", i)>>)
UploadedScript(i) == Transaction(<<Into("done", i), Into("uploaded", i)>>)

-----------------------------------------------------------------------------
(* The driver. A transaction inside another joins it.                      *)

Joins_Never(d) == FALSE
Joins(d) == d > 0
Persisted(db) == IF store = "device" THEN db ELSE disk

Run(statements, purpose) ==
    /\ script' = statements
    /\ call' = purpose

RunBegin ==
    /\ ~Idle /\ Head(script).do = "begin"
    /\ depth' = depth + 1
    /\ IF Joins(depth) THEN UNCHANGED <<disk, undo>>
                       ELSE undo' = work /\ disk' = Persisted(work)
    /\ script' = Tail(script)
    /\ UNCHANGED <<vault, app, store, work, call, drains, worldVars, faults>>

RunStatement ==
    /\ ~Idle /\ Head(script).do \notin {"begin", "end"}
    /\ work' = Applied(work, Head(script))
    /\ script' = Tail(script)
    /\ UNCHANGED <<vault, app, store, disk, undo, depth, call, drains, worldVars, faults>>

(* The call returns when its last transaction has committed.               *)
Returned ==
    /\ app' = IF call.does = "open" THEN "open" ELSE app
    /\ promised' = IF call.does = "keep" THEN promised \cup {call.item} ELSE promised
    /\ call' = NoCall

RunEnd ==
    /\ ~Idle /\ Head(script).do = "end"
    /\ depth' = depth - 1
    /\ script' = Tail(script)
    /\ IF Joins(depth - 1)
       THEN UNCHANGED <<disk, undo>>
       ELSE disk' = Persisted(work) /\ undo' = work
    /\ IF Tail(script) = <<>> THEN Returned ELSE UNCHANGED <<app, promised, call>>
    /\ UNCHANGED <<vault, store, work, drains, host, server, faults>>

(* An error leaves every transaction it was thrown in and rolls back.      *)
Thrown ==
    /\ work' = undo /\ depth' = 0
    /\ script' = <<>> /\ call' = NoCall
    /\ app' = IF call.does = "open" THEN "refused" ELSE app
    /\ UNCHANGED <<vault, store, disk, undo, drains, worldVars>>

StatementFails ==
    /\ ~Idle /\ depth > 0 /\ faults < MaxFaults
    /\ faults' = faults + 1
    /\ Thrown

-----------------------------------------------------------------------------
(* boot.ts: which database this launch gets. Without a bridge a browser    *)
(* gets one in memory; a phone gets none.                                  *)

Backing(bridge) ==
    CASE bridge = "whole"   -> "device"
      [] bridge = "partial" -> "none"
      [] bridge = "absent"  -> IF Native THEN "none" ELSE "memory"

Opens(bridge) == /\ Backing(bridge) # "none"
                 /\ Backing(bridge) = "device" => vault # "orphan"

Launch ==
    /\ app = "off"
    /\ \E bridge \in {"whole", "partial", "absent"} :
        /\ bridge # "whole" => faults < MaxFaults
        /\ faults' = faults + IF bridge = "whole" THEN 0 ELSE 1
        /\ IF Opens(bridge)
           THEN LET found == IF Backing(bridge) = "device" THEN disk ELSE Blank IN
                /\ app' = "opening"
                /\ store' = Backing(bridge)
                /\ vault' = IF Backing(bridge) = "device" THEN "sealed" ELSE vault
                /\ work' = found /\ undo' = found
                /\ Run(MigrateScript(found), [does |-> "open"])
           ELSE /\ app' = "refused"
                /\ UNCHANGED <<store, vault, work, undo, script, call>>
    /\ UNCHANGED <<disk, depth, drains, worldVars>>

Gone ==   \* the process ends: memory, the open transaction, the drains
    /\ app' = "off" /\ store' = "none"
    /\ work' = Blank /\ undo' = Blank /\ depth' = 0
    /\ script' = <<>> /\ call' = NoCall
    /\ drains' = [d \in Drains |-> NoDrain]
    /\ UNCHANGED <<vault, disk, worldVars>>

Killed ==
    /\ ~Idle \/ app = "wiping"
    /\ faults < MaxFaults /\ faults' = faults + 1
    /\ Gone

Closed == app = "open" /\ Idle /\ Gone /\ UNCHANGED faults
Restarted == app \in {"refused", "gutted"} /\ Gone /\ UNCHANGED faults

-----------------------------------------------------------------------------
(* Captures.                                                               *)

Ready == app = "open" /\ Idle
Waiting(db, kind) == (db.rows \cap kind) \ db.uploaded
Bytes(items) == MapThenSumSet(LAMBDA i : Weight[i], items)
HasRoom(db, kind, i) == Bytes(Waiting(db, kind)) + Weight[i] <= Budget

Nothing == UNCHANGED <<vault, app, store, dbVars, drains, worldVars, faults>>

Scan(s) ==
    /\ Ready /\ s \notin work.effect
    /\ Run(ScanScript(s), [does |-> "keep", item |-> s])
    /\ Nothing

Capture(i, kind) ==
    /\ Ready /\ i \in kind \ work.rows
    /\ HasRoom(work, kind, i)   \* or the call answers device_full
    /\ Run(CaptureScript(i), [does |-> "keep", item |-> i])
    /\ Nothing

(* A queued write reaches the server and its row is retired (SyncEngine).  *)
OpLands(s) ==
    /\ Ready /\ s \in work.outbox
    /\ server' = server \cup {s}
    /\ work' = [work EXCEPT !.outbox = @ \ {s}]
    /\ undo' = work' /\ disk' = Persisted(work')
    /\ UNCHANGED <<vault, app, store, depth, script, call, drains, host, promised, faults>>

-----------------------------------------------------------------------------
(* Uploader.drain: the rows are read at the start, and each row is three   *)
(* awaits; captures, a wipe and another drain come between.                *)

Pending(db) ==
    LET upto[n \in 0..Len(db.queue)] ==
            IF n = 0 THEN <<>>
            ELSE IF db.queue[n] \in db.done THEN upto[n - 1]
            ELSE Append(upto[n - 1], db.queue[n])
    IN upto[Len(db.queue)]
Oldest(rows) == SubSeq(rows, 1, IF Len(rows) < DrainLimit THEN Len(rows) ELSE DrainLimit)
Onward(d) == drains' = [drains EXCEPT ![d] = [rows |-> Tail(@.rows), sent |-> FALSE]]

StartDrain(d) ==
    /\ Ready /\ drains[d].rows = <<>>
    /\ drains' = [drains EXCEPT ![d] = [rows |-> Oldest(Pending(work)), sent |-> FALSE]]
    /\ UNCHANGED <<vault, app, store, dbVars, script, call, worldVars, faults>>

BytesArrive(d) ==
    /\ Idle /\ drains[d].rows # <<>> /\ ~drains[d].sent
    /\ host' = host \cup {Head(drains[d].rows)}
    /\ drains' = [drains EXCEPT ![d] = [rows |-> @.rows, sent |-> TRUE]]
    /\ UNCHANGED <<vault, app, store, dbVars, script, call, server, promised, faults>>

(* 2xx: the host has the bytes. The photo and its row change together.     *)
MarkUploaded(d) ==
    /\ Ready /\ drains[d].sent
    /\ Run(UploadedScript(Head(drains[d].rows)), [does |-> "mark"])
    /\ Onward(d)
    /\ UNCHANGED <<vault, app, store, dbVars, worldVars, faults>>

(* No target, no bytes, no answer, a refusal, or no database any more: the *)
(* row stays pending.                                                      *)
UploadDeferred(d) ==
    /\ Idle /\ drains[d].rows # <<>>
    /\ Onward(d)
    /\ UNCHANGED <<vault, app, store, dbVars, script, call, worldVars, faults>>

-----------------------------------------------------------------------------
(* The wipe. The count is refused, or unknown, or a number; a missing      *)
(* table counts nothing.                                                   *)

UnsentEvidence(db) == Cardinality(db.outbox) + Cardinality(db.rows \ db.uploaded)
MayWipe_UnknownIsNothing(db, counted) == counted => UnsentEvidence(db) = 0
MayWipe(db, counted) == counted /\ UnsentEvidence(db) = 0

Wipe ==
    /\ app \in {"open", "refused"} /\ Idle /\ store = "device"
    /\ \E force, counted \in BOOLEAN :
        /\ force \/ MayWipe(work, counted)
        /\ promised' = IF force THEN {} ELSE promised   \* abandoned knowingly
    /\ vault' = "orphan" /\ app' = "wiping"
    /\ UNCHANGED <<store, dbVars, script, call, drains, host, server, faults>>

WipeFile ==
    /\ app = "wiping"
    /\ vault' = "empty" /\ app' = "gutted" /\ store' = "none"
    /\ disk' = Blank /\ work' = Blank /\ undo' = Blank
    /\ UNCHANGED <<depth, script, call, drains, worldVars, faults>>

-----------------------------------------------------------------------------
Init ==
    /\ \/ vault = "empty" /\ disk = Blank
       \/ vault = "sealed" /\ disk \in Inherited
    /\ promised = disk.effect \cup disk.rows
    /\ app = "off" /\ store = "none"
    /\ work = Blank /\ undo = Blank /\ depth = 0
    /\ script = <<>> /\ call = NoCall
    /\ drains = [d \in Drains |-> NoDrain]
    /\ host = {} /\ server = {} /\ faults = 0

Runs == RunBegin \/ RunStatement \/ RunEnd
Faults == StatementFails \/ Killed
Captures == (\E s \in Scans : Scan(s) \/ OpLands(s))
    \/ (\E i \in Photos : Capture(i, Photos)) \/ (\E i \in Notes : Capture(i, Notes))
Uploads == \E d \in Drains :
    StartDrain(d) \/ BytesArrive(d) \/ MarkUploaded(d) \/ UploadDeferred(d)

Next == Runs \/ Faults \/ Launch \/ Closed \/ Restarted \/ Captures \/ Uploads
    \/ Wipe \/ WipeFile

(* Someone opens the app again, and an app that runs goes on running.      *)
Spec == Init /\ [][Next]_vars
    /\ WF_vars(Launch) /\ WF_vars(Runs)
    /\ WF_vars(Restarted) /\ WF_vars(WipeFile)

-----------------------------------------------------------------------------
Kept(i) == IF i \in Scans THEN i \in disk.outbox \cap disk.effect
           ELSE i \in disk.rows \ disk.uploaded /\ i \in ToSet(disk.queue) \ disk.done

(* Every scan, photo and note the app said it kept is on the phone's disk, *)
(* under a key the phone still has and in the queue that will send it, or  *)
(* the other side has it: through every kill, failed statement, wrong      *)
(* build, lost answer, second drain and unforced wipe.                     *)
EvidenceKept ==
    \A i \in promised : i \in host \cup server \/ (vault = "sealed" /\ Kept(i))

(* What was written together is committed together: no scan's effect       *)
(* without its queue row or the server, no photo without its upload row,   *)
(* none that reads as uploaded while its queue row would send it again.    *)
PairsWhole == Paired(disk, server)

(* However often the app was killed on the ladder, and whatever database   *)
(* it found, the phone comes back to an open app over every table and      *)
(* column of the present; only a wipe cut off after the key leaves a file  *)
(* nobody can open.                                                        *)
PhoneComesBack ==
    []<>((app = "open" /\ Current \subseteq disk.schema) \/ vault = "orphan")
=============================================================================
