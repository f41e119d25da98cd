------------------------------ MODULE ScanFloor ------------------------------
(***************************************************************************)
(* The scan floor of one phone: jobs going out and coming back, the open   *)
(* sessions behind them (sessions.ts), the screens that show them and the  *)
(* camera that feeds them.  A person goes from any screen to any other by  *)
(* links, by "back" and by the hash; photos and camera chains finish when  *)
(* they like; the app is killed.  What is recorded is in the queue at once *)
(* and leaves it when it is sent; the sessions live in memory only, but    *)
(* for the row written when each opens (scan_sessions).                    *)
(***************************************************************************)
EXTENDS QrCamera, Sequences, FiniteSets, SequencesExt

CONSTANTS
    Jobs, NoJob,
    Items, NoItem,
    Listed,                 \* what every job was promised (job_expected)
    Case, Kit,              \* a container and what is packed inside
    Labels, Stuck,          \* printed labels; the item each is on at first
    Away,                   \* items out on some job at first
    Days                    \* the bounds of the days looked at

ASSUME FloorAssumption ==
    /\ NoJob \notin Jobs /\ NoItem \notin Items
    /\ Listed \subseteq Items /\ Case \in Items
    /\ Kit \subseteq Items \ {Case} /\ IsFiniteSet(Kit)
    /\ Stuck \in [Labels -> Items \cup {NoItem}] /\ Away \subseteq Items
    /\ Days \subseteq [cameras: SUBSET Eyes, sessions: Nat, rows: Nat,
                       moves: Nat, kills: Nat, sheets: Nat]

Dirs == {"out", "in"}
Keys == Jobs \X Dirs
NoKey == <<NoJob, "none">>

VARIABLES
    rows,       \* every scan queued, oldest first
    log,        \* scan_sessions: one record for each session opened
    out,        \* the job each item is out on (assets.current_job_id)
    tag,        \* asset_tags
    open,       \* jobs that are open
    photos,     \* the session each was taken in and filed under; its screen stood
    entry,      \* memory: the session of each (job, direction), or 0
    current,    \* memory: the entry most recently opened
    lastDir,    \* memory: the direction most recently opened per job
    recorded,   \* memory: what each session's object has recorded
    view,       \* the hash
    sheet,      \* the sheet over the scan screen and what it is about
    shot,       \* a photo being encoded
    finished,   \* ghost: sessions completed, or lost with the app
    day         \* what the instance still allows of screens, sheets and kills

registryVars == <<entry, current, lastDir>>
queueVars == <<rows, out, recorded>>
screenVars == <<view, sheet, shot, day>>
storedVars == <<log, tag, open, photos, finished>>
floorVars == <<cameraVars, registryVars, queueVars, screenVars, storedVars>>

Home == [name |-> "jobs", job |-> NoJob, dir |-> "none"]
Elsewhere == [Home EXCEPT !.name = "elsewhere"]
Lookup == [Home EXCEPT !.name = "lookup"]
Card(j) == [name |-> "session", job |-> j, dir |-> "none"]
ScanView(k) == [name |-> "scan", job |-> k[1], dir |-> k[2]]
Still == {Home, Elsewhere} \cup {Card(j) : j \in Jobs}
KeyOf(v) == <<v.job, v.dir>>
OnScan == view.name = "scan"

NoSheet == [kind |-> "none", about |-> NoItem]
NoShot == [key |-> NoKey, here |-> FALSE]

FloorInit ==
    /\ day \in Days
    /\ CameraInit
    /\ rows = <<>> /\ log = <<>>
    /\ \E j \in Jobs : out = [i \in Items |-> IF i \in Away THEN j ELSE NoJob]
    /\ tag = Stuck /\ open = Jobs /\ photos = {}
    /\ entry = [k \in Keys |-> 0] /\ current = NoKey
    /\ lastDir = [j \in Jobs |-> "none"]
    /\ recorded = [s \in 1..day.sessions |-> {}]
    /\ view = Home /\ sheet = NoSheet /\ shot = NoShot
    /\ finished = {}

-----------------------------------------------------------------------------
(* The sessions: opened on first use and then kept.                        *)

OutOn(j) == {i \in Items : out[i] = j}

(* Going out, what was promised; coming back, what is out on the job.      *)
ExpectedFor_Promised(j, dir) == IF j \in open THEN Listed ELSE {}
ExpectedFor(j, dir) ==
    IF dir = "in" THEN OutOn(j) ELSE IF j \in open THEN Listed ELSE {}

CurrentSession == IF current = NoKey THEN 0 ELSE entry[current]

Opened_Unstamped(k) ==
    /\ current' = IF entry[k] = 0 THEN k ELSE current
    /\ lastDir' = [lastDir EXCEPT ![k[1]] = k[2]]
Opened(k) ==
    /\ current' = k
    /\ lastDir' = [lastDir EXCEPT ![k[1]] = k[2]]

(* Written as it opens, with what it is looking for; at: how many scans    *)
(* were queued by then.                                                    *)
SessionStart(k) ==
    [job |-> k[1], dir |-> k[2], at |-> Len(rows), expected |-> ExpectedFor(k[1], k[2])]

OpenSession(k) ==
    /\ Opened(k)
    /\ \/ entry[k] # 0 /\ UNCHANGED <<entry, log>>
       \/ /\ entry[k] = 0 /\ Len(log) < day.sessions
          /\ log' = Append(log, SessionStart(k))
          /\ entry' = [entry EXCEPT ![k] = Len(log')]

(* "Done": the entry most recently opened is completed, and only that one. *)
WithoutCurrent_All == [k \in Keys |-> 0]
WithoutCurrent == [k \in Keys |-> IF k = current THEN 0 ELSE entry[k]]

EndSession ==
    /\ entry' = WithoutCurrent
    /\ lastDir' = IF current # NoKey /\ entry[current] # 0 /\ lastDir[current[1]] = current[2]
                    THEN [lastDir EXCEPT ![current[1]] = "none"] ELSE lastDir
    /\ current' = NoKey
    /\ finished' = finished \cup ({CurrentSession} \ {0})

(* The session a job's handover card is about: the live one opened last,   *)
(* else the newest on record; a closed job has none.                       *)
LastRecorded(j) == Max({0} \cup {s \in DOMAIN log : log[s].job = j})
Peeked(j) == IF lastDir[j] = "none" THEN 0 ELSE entry[<<j, lastDir[j]>>]
CardSession_Newest(j) == IF j \in open THEN LastRecorded(j) ELSE 0
CardSession(j) ==
    IF j \notin open THEN 0 ELSE IF Peeked(j) # 0 THEN Peeked(j) ELSE LastRecorded(j)

(* What a session recorded, read back from the queue, and what is missing  *)
(* by it: the card, the challan and the message to the client.             *)
SessionScans(s) == {rows[n].item : n \in {n \in DOMAIN rows : rows[n].sess = s}}
Missing(s) == log[s].expected \ SessionScans(s)

(* The scan screen's own list counts by the session in memory. *)
Outstanding(s) == log[s].expected \ recorded[s]

(* The board's number: the session's in memory, or the mirror's.           *)
PackedProgress(j) == {i \in Listed : out[i] = j}
Progress(j) ==
    LET s == entry[<<j, "out">>] IN IF s # 0 THEN recorded[s] ELSE PackedProgress(j)

-----------------------------------------------------------------------------
(* A scan: nothing twice in one session; the queue row and the phone's own *)
(* projection in one transaction.                                          *)

Row(s, item) == [sess |-> s, job |-> log[s].job, dir |-> log[s].dir, item |-> item]

RecordScans(s, new) ==
    LET fresh == new \ recorded[s] IN
    /\ Len(rows) + Cardinality(fresh) <= day.rows
    /\ rows' = rows \o [n \in 1..Cardinality(fresh) |-> Row(s, SetToSeq(fresh)[n])]
    /\ out' = [i \in Items |->
                  IF i \notin fresh THEN out[i]
                  ELSE IF log[s].dir = "out" THEN log[s].job ELSE NoJob]
    /\ recorded' = [recorded EXCEPT ![s] = @ \cup new]

-----------------------------------------------------------------------------
(* Screens: a change of hash unmounts what was there, sheets and list with *)
(* it, and a scan screen opens or resumes its session as it renders.       *)

Leave(v, new, aim) ==
    /\ day.moves > 0 /\ day' = [day EXCEPT !.moves = @ - 1]
    /\ view' = v /\ sheet' = NoSheet
    /\ shot' = [shot EXCEPT !.here = FALSE]
    /\ Remount(new, aim, sheet.kind # "none")

(* The camera a scan screen mounts; none on a day worked by hand. *)
Cameras == IF day.cameras = {} THEN {{}} ELSE {{e} : e \in day.cameras}

ToScan(k) ==
    /\ view # ScanView(k)
    /\ OpenSession(k)
    /\ \E new \in Cameras : Leave(ScanView(k), new, entry'[k])
    /\ UNCHANGED <<queueVars, tag, open, photos, finished>>

ToLookup ==
    /\ view # Lookup
    /\ \E new \in Cameras : Leave(Lookup, new, 0)
    /\ UNCHANGED <<registryVars, queueVars, storedVars>>

ToStill(v) ==
    /\ view # v
    /\ Leave(v, {}, 0)
    /\ UNCHANGED <<registryVars, queueVars, storedVars>>

(* "Hold to finish" leads to the card; the session stays open behind it.   *)
Finish == OnScan /\ sheet = NoSheet /\ ToStill(Card(view.job))

(* "Back to scanning", from whichever session the card was about.          *)
KeepScanning == view.name = "session" /\ CardSession(view.job) # 0 /\ ToScan(<<view.job, "out">>)

Done ==
    /\ view.name = "session" /\ CardSession(view.job) # 0
    /\ EndSession
    /\ Leave(Home, {}, 0)
    /\ UNCHANGED <<queueVars, log, tag, open, photos>>

(* Close job, under the card: allowed once nothing is out on the job.      *)
CloseFromCard ==
    /\ view.name = "session" /\ CardSession(view.job) # 0 /\ OutOn(view.job) = {}
    /\ open' = open \ {view.job}
    /\ EndSession
    /\ Leave(Home, {}, 0)
    /\ UNCHANGED <<queueVars, log, tag, photos>>

(* The same on the board leaves the job's session as it is. *)
CloseFromBoard(j) ==
    /\ view = Home /\ j \in open /\ OutOn(j) = {}
    /\ open' = open \ {j}
    /\ UNCHANGED <<cameraVars, registryVars, queueVars, screenVars>>
    /\ UNCHANGED <<log, tag, photos, finished>>

ReopenJob(j) ==
    /\ view = Elsewhere /\ j \notin open
    /\ open' = open \cup {j}
    /\ UNCHANGED <<cameraVars, registryVars, queueVars, screenVars>>
    /\ UNCHANGED <<log, tag, photos, finished>>

-----------------------------------------------------------------------------
(* What the camera sees.  A listener goes on hearing after its screen has  *)
(* gone, until the chain that removes it has run.                          *)

Hears(e) ==
    /\ e \in ears /\ lens
    /\ IF eye[e].mounted THEN sheet = NoSheet ELSE ~eye[e].paused

(* What a case is believed to hold. *)
Packed(i) == IF i = Case THEN Kit ELSE {}
HasContents(i) == Packed(i) # {}

(* onDecode of a session's screen: record, list, open a case's manifest.   *)
HearForSession(e, l) ==
    /\ Hears(e) /\ eye[e].aim # 0 /\ tag[l] # NoItem
    /\ RecordScans(eye[e].aim, {tag[l]})
    /\ sheet' = IF eye[e].mounted /\ HasContents(tag[l])
                  THEN [kind |-> "case", about |-> tag[l]] ELSE sheet
    /\ UNCHANGED <<cameraVars, registryVars, storedVars, view, shot, day>>

(* The asking mode writes nothing: a known label leads to its item's page. *)
Found(l) == tag[l] # NoItem
HearForLookup(e, l) ==
    /\ Hears(e) /\ eye[e].aim = 0 /\ Found(l)
    /\ ToStill(Elsewhere)

-----------------------------------------------------------------------------
(* The scan screen's sheets: one at a time, the camera paused under it.    *)

(* The row of a label nobody knew stays on the list once it is attached.   *)
OpenSheet ==
    /\ OnScan /\ sheet = NoSheet /\ day.sheets > 0
    /\ day' = [day EXCEPT !.sheets = @ - 1]
    /\ \/ sheet' = [kind |-> "manual", about |-> NoItem]
       \/ \E l \in {l \in Labels : Stuck[l] = NoItem} : sheet' = [kind |-> "bind", about |-> l]
       \/ /\ recorded[entry[KeyOf(view)]] # {}
          /\ sheet' = [kind |-> "photo", about |-> NoItem]
    /\ UNCHANGED <<cameraVars, registryVars, queueVars, storedVars, view, shot>>

CloseSheet ==
    /\ sheet # NoSheet
    /\ sheet' = NoSheet
    /\ UNCHANGED <<cameraVars, registryVars, queueVars, storedVars, view, shot, day>>

ManualPick(i) ==
    /\ sheet.kind = "manual"
    /\ RecordScans(entry[KeyOf(view)], {i})
    /\ sheet' = NoSheet
    /\ UNCHANGED <<cameraVars, registryVars, storedVars, view, shot, day>>

(* A label in use is never moved.  Either way the sheet stays open, as the *)
(* one for what cannot be scanned.                                         *)
Bound(l, i) == IF tag[l] \in {NoItem, i} THEN [tag EXCEPT ![l] = i] ELSE tag
BindPick(i) ==
    /\ sheet.kind = "bind"
    /\ tag' = Bound(sheet.about, i)
    /\ sheet' = [kind |-> "manual", about |-> NoItem]
    /\ UNCHANGED <<cameraVars, registryVars, queueVars, view, shot, day>>
    /\ UNCHANGED <<log, open, photos, finished>>

(* "Take the case as packed", less what was marked "not in here".          *)
Confirmable(i, s) == Packed(i) \ recorded[s]
ConfirmCase(taken) ==
    LET s == entry[KeyOf(view)] IN
    /\ sheet.kind = "case" /\ taken # {} /\ taken \subseteq Confirmable(sheet.about, s)
    /\ RecordScans(s, taken)
    /\ sheet' = NoSheet
    /\ UNCHANGED <<cameraVars, registryVars, storedVars, view, shot, day>>

(* The picture is encoded and hashed while the screens go on; it is filed  *)
(* under the session that is current when it lands, or refused for want of *)
(* room, or cannot be encoded.                                             *)
TakePhoto ==
    /\ sheet.kind = "photo" /\ shot = NoShot
    /\ shot' = [key |-> KeyOf(view), here |-> TRUE]
    /\ UNCHANGED <<cameraVars, registryVars, queueVars, storedVars, view, sheet, day>>

Filed == [taken |-> entry[shot.key], filed |-> CurrentSession, here |-> shot.here]
PhotoLands(end) ==
    /\ shot # NoShot
    /\ photos' = IF end = "kept" THEN photos \cup {Filed} ELSE photos
    /\ sheet' = IF shot.here /\ sheet.kind = "photo" /\ end # "spoilt" THEN NoSheet ELSE sheet
    /\ shot' = NoShot
    /\ UNCHANGED <<cameraVars, registryVars, queueVars, view, day>>
    /\ UNCHANGED <<log, tag, open, finished>>

-----------------------------------------------------------------------------
(* The app is killed and opened again: memory and chains are gone. *)
Relaunch ==
    /\ day.kills > 0 /\ day' = [day EXCEPT !.kills = @ - 1]
    /\ finished' = finished \cup ({entry[k] : k \in Keys} \ {0})
    /\ entry' = [k \in Keys |-> 0] /\ current' = NoKey
    /\ lastDir' = [j \in Jobs |-> "none"]
    /\ recorded' = [s \in 1..day.sessions |-> {}]
    /\ view' = Home /\ sheet' = NoSheet /\ shot' = NoShot
    /\ eye' = [e \in Eyes |-> Gone] /\ ears' = {} /\ lens' = FALSE
    /\ UNCHANGED <<rows, out, log, tag, open, photos>>

FloorNext ==
    \/ CameraMoves /\ UNCHANGED <<registryVars, queueVars, screenVars, storedVars>>
    \/ \E k \in Keys : ToScan(k)
    \/ ToLookup
    \/ \E v \in Still : ToStill(v)
    \/ Finish \/ KeepScanning \/ Done \/ CloseFromCard
    \/ \E j \in Jobs : CloseFromBoard(j) \/ ReopenJob(j)
    \/ \E e \in Eyes, l \in Labels : HearForSession(e, l) \/ HearForLookup(e, l)
    \/ OpenSheet \/ CloseSheet
    \/ \E i \in Items : ManualPick(i) \/ BindPick(i)
    \/ \E taken \in SUBSET Kit : ConfirmCase(taken)
    \/ TakePhoto \/ \E end \in {"kept", "refused", "spoilt"} : PhotoLands(end)
    \/ Relaunch

FloorSpec == FloorInit /\ [][FloorNext]_floorVars

-----------------------------------------------------------------------------
(* Properties.                                                             *)

(* A rescan reads as one, and no morning is counted twice: two rows for    *)
(* one item going the same way on one job come from two sessions, one of   *)
(* them completed or lost with the app (sessions.ts: finishing one session *)
(* touches only that one, and switching jobs resumes).                     *)
RecordedOnce ==
    \A m, n \in DOMAIN rows :
        LET r == rows[m]
            q == rows[n]
        IN  m < n /\ r.item = q.item /\ r.dir = q.dir /\ r.job = q.job
            => r.sess # q.sess /\ {r.sess, q.sess} \cap finished # {}

(* Whatever is still out on a job when its return is on, and left before   *)
(* the return began, the return's card names as missing, on the job's list *)
(* or not (expectedFor: "did everything come home").                       *)
LeftSince(i, n) == \E m \in DOMAIN rows : m > n /\ rows[m].item = i /\ rows[m].dir = "out"
ReturnMissesNothing ==
    \A j \in Jobs :
        LET s == entry[<<j, "in">>]
        IN  s # 0 => {i \in OutOn(j) : ~LeftSince(i, log[s].at)} \subseteq Missing(s)

(* The sessions in memory, the queue, the card and the screen tell one     *)
(* story: a live session has recorded what its rows say, so the card and   *)
(* the list miss the same items; a scan screen's camera, its photos and    *)
(* the card its Finish leads to are of one session; and what the board     *)
(* counts for a live session and nothing moved since it counts again after *)
(* a reload.                                                               *)
LastMoved(i, s) ==
    \E n \in DOMAIN rows : /\ rows[n].item = i /\ rows[n].sess = s
                           /\ \A m \in DOMAIN rows : m > n => rows[m].item # i
OneStory ==
    /\ \A k \in Keys : entry[k] # 0 =>
          /\ recorded[entry[k]] = SessionScans(entry[k])
          /\ Outstanding(entry[k]) = Missing(entry[k])
    /\ OnScan =>
          LET s == entry[KeyOf(view)] IN
          /\ s # 0 /\ s = CurrentSession
          /\ view.job \in open => CardSession(view.job) = s
          /\ \A e \in Eyes : eye[e].mounted => eye[e].aim = s
    /\ \A p \in photos : p.here => p.filed = p.taken
    /\ \A j \in Jobs : LET s == entry[<<j, "out">>] IN
          s # 0 => {i \in Progress(j) \cap Listed : LastMoved(i, s)} \subseteq PackedProgress(j)
=============================================================================
