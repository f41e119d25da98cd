---------------------------- MODULE PhoneSession ----------------------------
(***************************************************************************)
(* A phone joining a house, changing hands, and leaving it                 *)
(* (packages/core/src/auth.ts, apps/app/src/demo/store.ts), while the sync *)
(* loop of engine.ts runs beneath: every step that waits for an answer is  *)
(* two actions, and anything else may happen between them.                 *)
(*                                                                         *)
(* issue_device_session (0016) refuses a device that another house knows,  *)
(* so a phone has one house for life, which it may leave and join again.   *)
(* Without a session it shows the pretend house of the demo.               *)
(***************************************************************************)
EXTENDS Integers, Sequences, FiniteSets, FiniteSetsExt

CONSTANTS
    People,       \* members of the house
    HasPin,       \* those who have a PIN
    NoOne,
    MaxScans,     \* bound: writes made on the phone
    MaxEnrols,    \* bound: sessions the server issues
    MaxRows,      \* bound: rows the house's change log reaches
    MaxRestarts   \* bound: times the app is killed

ASSUME SessionAssumption == HasPin \subseteq People /\ NoOne \notin People

VARIABLES
    sessions,   \* server: device_sessions, [user, live] in order of issue
    served,     \* server: the house's rows are 1..served
    landed,     \* server: the writes it has taken
    token,      \* phone: the session whose token it keeps, 0 for none
    holder,     \* phone: session_user_id, who the phone says is holding it
    echoes,     \* phone: those whose PIN it can check alone
    queue,      \* phone: the outbox
    mirror,     \* phone: the house's rows it has
    cursor,     \* phone: pull_cursor
    pretend,    \* phone: the demo house is in its tables
    mode,       \* app: "demo" or "live"
    locked,     \* app: the PIN gate is up
    loops,      \* app: every SyncLoop made since it was opened
    leaving,    \* app: how far a sign-out has got
    joining,    \* app: an enrolment under way
    switching,  \* app: a PIN switch under way
    made,       \* writes made on the phone
    restarts,
    left,       \* history: sessions the phone has forgotten
    vouched,    \* history: those the server has vouched for since it forgot
    halfway,    \* history: the app was killed inside an enrolment
    lost,       \* history: writes of the house deleted unsent
    uncounted   \* history: writes the sign-out under way has not counted

serverVars  == <<sessions, served, landed>>
dbVars      == <<token, holder, echoes, queue, mirror, cursor, pretend>>
callVars    == <<leaving, joining, switching>>
historyVars == <<left, vouched, halfway, lost, uncounted>>
vars == <<serverVars, dbVars, mode, locked, loops, callVars, made,
          restarts, historyVars>>

NoCall == [who |-> NoOne, token |-> 0, said |-> "nothing"]
Alive(k) == k # 0 /\ sessions[k].live
LiveRows == {r \in queue : r.state \in {"pending", "inflight"}}
Counted_PendingOnly == {r \in queue : r.state = "pending"}
Counted == LiveRows   \* what signOut counts
Hashing == joining.said = "stored"   \* too short for a call to the server

-----------------------------------------------------------------------------
(* SyncLoop. One cycle at a time: a kick during a cycle is remembered, and *)
(* the finaliser answers it. Stopping a loop does not end its cycle.       *)

NewLoop == [started |-> TRUE, again |-> FALSE,
            stage |-> "ask", from |-> 0, upTo |-> 0, batch |-> {}]
Idle(l)    == l.stage = "idle"
Kicked(l)  == IF Idle(l) THEN [l EXCEPT !.stage = "ask"] ELSE [l EXCEPT !.again = TRUE]
Stopped(l) == [l EXCEPT !.started = FALSE]
Finished(l) == [l EXCEPT !.again = FALSE, !.batch = {}, !.from = 0, !.upTo = 0,
                         !.stage = IF l.again THEN "ask" ELSE "idle"]

LoopsStopped == [i \in DOMAIN loops |-> Stopped(loops[i])]
Attached     == Append(LoopsStopped, NewLoop)

Upon(i, l) == loops' = [loops EXCEPT ![i] = l]
LoopOnly == UNCHANGED <<dbVars, mode, locked, callVars, made, restarts, historyVars>>

(* The poll, `online`, coming to the foreground, "Sync now".              *)
Wake(i) ==
    /\ loops[i].started
    /\ Upon(i, Kicked(loops[i]))
    /\ UNCHANGED serverVars /\ LoopOnly

(* The token and the cursor are read when the request is made.             *)
AskPage(i) ==
    /\ loops[i].stage = "ask"
    /\ Upon(i, IF Alive(token)
               THEN [loops[i] EXCEPT !.stage = "asked", !.from = cursor, !.upTo = served]
               ELSE [loops[i] EXCEPT !.stage = "turned_away"])
    /\ UNCHANGED serverVars /\ LoopOnly

PageArrives(i) ==
    /\ loops[i].stage = "asked"
    /\ mirror' = mirror \cup ((loops[i].from + 1)..loops[i].upTo)
    /\ cursor' = Max({cursor, loops[i].upTo})
    /\ Upon(i, [loops[i] EXCEPT !.stage = "flush", !.from = 0, !.upTo = 0])
    /\ UNCHANGED <<serverVars, token, holder, echoes, queue, pretend, mode,
                   locked, callVars, made, restarts, historyVars>>

(* No network, or a page that does not come, or the session is dead.       *)
PullFails(i) ==
    /\ loops[i].stage \in {"asked", "turned_away"}
    /\ Upon(i, Finished(loops[i]))
    /\ UNCHANGED serverVars /\ LoopOnly

InState(rows, state) == {[r EXCEPT !.state = state] : r \in rows}
Named(ns) == {r \in queue : r.n \in ns}
Marked(ns, state) == (queue \ Named(ns)) \cup InState(Named(ns), state)

NothingToSend(i) ==
    /\ loops[i].stage = "flush" /\ LiveRows = {}
    /\ Upon(i, Finished(loops[i]))
    /\ UNCHANGED serverVars /\ LoopOnly

(* The rows are in memory from here on, whatever becomes of the queue.     *)
SendBatch(i) ==
    /\ loops[i].stage = "flush" /\ LiveRows # {}
    /\ LET ns == {r.n : r \in LiveRows} IN
       /\ queue' = Marked(ns, "inflight")
       /\ \/ /\ landed' = IF Alive(token) 
                          THEN landed \cup {[n |-> r.n, house |-> r.house] : r \in LiveRows}
                          ELSE landed
             /\ Upon(i, [loops[i] EXCEPT !.batch = ns,
                           !.stage = IF Alive(token) THEN "taken" ELSE "refused"])
          \/ /\ landed' = landed   \* the request is lost
             /\ Upon(i, [loops[i] EXCEPT !.batch = ns, !.stage = "unheard"])
    /\ UNCHANGED <<sessions, served, token, holder, echoes, mirror, cursor,
                   pretend, mode, locked, callVars, made, restarts, historyVars>>

QueueAndLoop == UNCHANGED <<serverVars, token, holder, echoes, mirror, cursor,
                            pretend, mode, locked, callVars, made, restarts, historyVars>>

BatchTaken(i) ==
    /\ loops[i].stage = "taken"
    /\ queue' = queue \ Named(loops[i].batch)
    /\ Upon(i, [loops[i] EXCEPT !.stage = "flush", !.batch = {}])
    /\ QueueAndLoop

(* The server no longer knows the session: a verdict, so the rows park.    *)
BatchRefused(i) ==
    /\ loops[i].stage = "refused"
    /\ queue' = Marked(loops[i].batch, "failed")
    /\ Upon(i, Finished(loops[i]))
    /\ QueueAndLoop

BatchUnanswered_NewState(i) ==
    /\ loops[i].stage \in {"taken", "refused", "unheard"}
    /\ queue' = Marked(loops[i].batch, "retrying")
    /\ Upon(i, Finished(loops[i]))
    /\ QueueAndLoop
BatchUnanswered(i) ==
    /\ loops[i].stage \in {"taken", "refused", "unheard"}
    /\ queue' = Marked(loops[i].batch, "pending")
    /\ Upon(i, Finished(loops[i]))
    /\ QueueAndLoop

-----------------------------------------------------------------------------
(* People at the phone.                                                    *)

Record ==
    /\ ~locked /\ made < MaxScans
    /\ made' = made + 1
    /\ queue' = queue \cup {[n |-> made', house |-> mode = "live", state |-> "pending"]}
    /\ uncounted' = IF leaving = "no" THEN uncounted ELSE uncounted \cup {made'}
    /\ UNCHANGED <<serverVars, token, holder, echoes, mirror, cursor, pretend,
                   mode, locked, loops, callVars, restarts, left, vouched, halfway, lost>>

(* signOut counts what is queued, asks the server, and only then wipes.    *)
SignOutCounts ==
    /\ ~locked /\ mode = "live" /\ leaving = "no" /\ ~Hashing /\ Counted = {}
    /\ leaving' = "asked"
    /\ uncounted' = uncounted \cup {r.n : r \in queue \ LiveRows}   \* the parked ones
    /\ UNCHANGED <<serverVars, dbVars, mode, locked, loops, joining, switching,
                   made, restarts, left, vouched, halfway, lost>>

SignOutReaches_OfflineToo ==
    /\ leaving = "asked"
    /\ leaving' = "retired"
    /\ sessions' \in {sessions, IF Alive(token) THEN [sessions EXCEPT ![token].live = FALSE] ELSE sessions}
    /\ UNCHANGED <<served, landed, dbVars, mode, locked, loops, joining, switching,
                   made, restarts, historyVars>>
SignOutReaches ==
    /\ leaving = "asked"
    /\ leaving' = "retired"   \* a session already dead counts as signed out
    /\ sessions' = IF Alive(token) THEN [sessions EXCEPT ![token].live = FALSE] ELSE sessions
    /\ UNCHANGED <<served, landed, dbVars, mode, locked, loops, joining, switching,
                   made, restarts, historyVars>>

SignOutFails ==
    /\ leaving # "no"
    /\ leaving' = "no"
    /\ uncounted' = uncounted \ {r.n : r \in queue}
    /\ UNCHANGED <<serverVars, dbVars, mode, locked, loops, joining, switching,
                   made, restarts, left, vouched, halfway, lost>>

(* forgetSession leaves the outbox, but for the rows that were refused.    *)
ForgetSession_KeepsEchoes ==
    /\ mirror' = {} /\ cursor' = 0 /\ UNCHANGED echoes
    /\ token' = 0 /\ holder' = NoOne
    /\ queue' = {r \in queue : r.state # "failed"}
ForgetSession ==
    /\ mirror' = {} /\ cursor' = 0 /\ echoes' = {}
    /\ token' = 0 /\ holder' = NoOne
    /\ queue' = {r \in queue : r.state # "failed"}

SignOutEnds ==
    /\ leaving = "retired"
    /\ ForgetSession
    /\ mode' = "demo" /\ pretend' = TRUE   \* seedDemo
    /\ loops' = LoopsStopped
    /\ leaving' = "no"
    /\ left' = left \cup {token} /\ vouched' = {}
    /\ UNCHANGED <<serverVars, locked, joining, switching, made, restarts,
                   halfway, lost, uncounted>>

(* The server issues a session and supersedes the device's earlier ones.   *)
EnrolAsks(p) ==
    /\ ~locked /\ joining = NoCall /\ Len(sessions) < MaxEnrols
    /\ sessions' = Append([k \in DOMAIN sessions |-> [sessions[k] EXCEPT !.live = FALSE]],
                          [user |-> p, live |-> TRUE])
    /\ joining' = [who |-> p, token |-> Len(sessions'), said |-> "asked"]
    /\ UNCHANGED <<served, landed, dbVars, mode, locked, loops, leaving, switching,
                   made, restarts, historyVars>>

EnrolFails ==
    /\ joining.said = "asked"
    /\ joining' = NoCall
    /\ UNCHANGED <<serverVars, dbVars, mode, locked, loops, leaving, switching,
                   made, restarts, historyVars>>

(* Assumed of the network and the people: every other call has ended by    *)
(* the time somebody has typed a phone number and the code of an SMS.      *)
CallsHaveEnded ==
    /\ leaving = "no" /\ switching = NoCall
    /\ mode = "demo" => \A i \in DOMAIN loops : Idle(loops[i])

EnrolStores ==
    /\ joining.said = "asked" /\ CallsHaveEnded
    /\ token' = joining.token /\ holder' = joining.who
    /\ vouched' = vouched \cup {joining.who}
    /\ left' = IF token = 0 THEN left ELSE left \cup {token}
    /\ joining' = [joining EXCEPT !.said = "stored"]
    /\ UNCHANGED <<serverVars, echoes, queue, mirror, cursor, pretend, mode, locked,
                   loops, leaving, switching, made, restarts, halfway, lost, uncounted>>

DemoCleared_KeepsCursor ==
    /\ mirror' = {} /\ UNCHANGED cursor /\ queue' = {} /\ pretend' = FALSE
    /\ lost' = lost \cup {r.n : r \in {q \in LiveRows : q.house}}
DemoCleared_KeepsOutbox ==
    /\ mirror' = {} /\ cursor' = 0 /\ pretend' = FALSE
    /\ UNCHANGED <<queue, lost>>
DemoCleared ==
    /\ mirror' = {} /\ cursor' = 0 /\ queue' = {} /\ pretend' = FALSE
    /\ lost' = lost \cup {r.n : r \in {q \in LiveRows : q.house}}

(* rememberPinEcho has been waited for between the two.                    *)
GoLive ==
    /\ joining.said = "stored"
    /\ echoes' = echoes \cup ({joining.who} \cap HasPin)
    /\ IF mode = "demo" THEN DemoCleared ELSE UNCHANGED <<mirror, cursor, queue, pretend, lost>>
    /\ mode' = "live" /\ loops' = Attached
    /\ joining' = NoCall
    /\ UNCHANGED <<serverVars, token, holder, locked, leaving, switching, made,
                   restarts, left, vouched, halfway, uncounted>>

(* The gate, or "This phone": the PIN typed is the right one. The server   *)
(* repoints the session before anybody knows whether its answer arrives.   *)
SwitchAsks(p, reaches) ==
    /\ mode = "live" /\ switching = NoCall /\ ~Hashing
    /\ p \in HasPin /\ (locked \/ p # holder)
    /\ mirror # {}   \* the members are a mirrored table
    /\ reaches => Alive(token)
    /\ sessions' = IF reaches THEN [sessions EXCEPT ![token].user = p] ELSE sessions
    /\ switching' = [who |-> p, token |-> token, said |-> IF reaches THEN "yes" ELSE "nothing"]
    /\ UNCHANGED <<served, landed, dbVars, mode, locked, loops, leaving, joining,
                   made, restarts, historyVars>>

SwitchVerified ==
    /\ switching.said = "yes"
    /\ holder' = switching.who
    /\ echoes' = echoes \cup {switching.who} /\ vouched' = vouched \cup {switching.who}
    /\ locked' = FALSE /\ switching' = NoCall
    /\ UNCHANGED <<serverVars, token, queue, mirror, cursor, pretend, mode, loops,
                   leaving, joining, made, restarts, left, halfway, lost, uncounted>>

SwitchByEcho ==
    /\ switching # NoCall
    /\ switching' = NoCall
    /\ IF switching.who \in echoes
       THEN holder' = switching.who /\ locked' = FALSE
       ELSE UNCHANGED <<holder, locked>>
    /\ UNCHANGED <<serverVars, token, echoes, queue, mirror, cursor, pretend, mode,
                   loops, leaving, joining, made, restarts, historyVars>>

(* A member without a PIN opens the phone with a tap.                      *)
TapOpens ==
    /\ locked /\ People # HasPin
    /\ locked' = FALSE
    /\ UNCHANGED <<serverVars, dbVars, mode, loops, callVars, made, restarts, historyVars>>

(* The app is killed and opened again: the tables stay, the calls do not.  *)
Restart ==
    /\ restarts < MaxRestarts
    /\ restarts' = restarts + 1
    /\ mode' = IF token = 0 THEN "demo" ELSE "live"
    /\ pretend' = (pretend \/ token = 0)
    /\ locked' = (token # 0 /\ holder \in HasPin /\ mirror # {})
    /\ loops' = IF token = 0 THEN <<>> ELSE <<NewLoop>>
    /\ leaving' = "no" /\ joining' = NoCall /\ switching' = NoCall
    /\ halfway' = (halfway \/ (token # 0 /\ mode = "demo"))
    /\ uncounted' = IF token = 0 THEN uncounted ELSE uncounted \ {r.n : r \in queue}
    /\ UNCHANGED <<serverVars, token, holder, echoes, queue, mirror, cursor, made,
                   left, vouched, lost>>

(* The house's other devices write; its owner revokes this one.            *)
HouseMoves ==
    /\ served < MaxRows
    /\ served' = served + 1
    /\ UNCHANGED <<sessions, landed, dbVars, mode, locked, loops, callVars, made,
                   restarts, historyVars>>

Revoke(k) ==
    /\ sessions[k].live
    /\ sessions' = [sessions EXCEPT ![k].live = FALSE]
    /\ UNCHANGED <<served, landed, dbVars, mode, locked, loops, callVars, made,
                   restarts, historyVars>>

-----------------------------------------------------------------------------
Init ==
    /\ sessions = <<>> /\ served = 0 /\ landed = {}
    /\ token = 0 /\ holder = NoOne /\ echoes = {}
    /\ queue = {} /\ mirror = {} /\ cursor = 0 /\ pretend = TRUE
    /\ mode = "demo" /\ locked = FALSE /\ loops = <<>>
    /\ leaving = "no" /\ joining = NoCall /\ switching = NoCall
    /\ made = 0 /\ restarts = 0
    /\ left = {} /\ vouched = {} /\ halfway = FALSE /\ lost = {} /\ uncounted = {}

LoopStep(i) ==
    \/ Wake(i) \/ AskPage(i) \/ PageArrives(i) \/ PullFails(i)
    \/ NothingToSend(i) \/ SendBatch(i)
    \/ BatchTaken(i) \/ BatchRefused(i) \/ BatchUnanswered(i)

Next ==
    \/ \E i \in DOMAIN loops : LoopStep(i)
    \/ Record
    \/ SignOutCounts \/ SignOutReaches \/ SignOutFails \/ SignOutEnds
    \/ \E p \in People : EnrolAsks(p)
    \/ EnrolFails \/ EnrolStores \/ GoLive
    \/ \E p \in People, reaches \in BOOLEAN : SwitchAsks(p, reaches)
    \/ SwitchVerified \/ SwitchByEcho \/ TapOpens
    \/ Restart \/ HouseMoves
    \/ \E k \in DOMAIN sessions : Revoke(k)

Spec == Init /\ [][Next]_vars

-----------------------------------------------------------------------------
(* Types of the server's sessions, the phone's tables and the app's calls. *)
SessionTypeOK ==
    /\ sessions \in Seq([user : People, live : BOOLEAN])
    /\ served \in Nat /\ cursor \in 0..served /\ mirror \subseteq 1..served
    /\ landed \subseteq [n : 1..made, house : BOOLEAN]
    /\ token \in 0..Len(sessions) /\ holder \in People \cup {NoOne}
    /\ echoes \subseteq HasPin /\ vouched \subseteq People
    /\ queue \subseteq [n : 1..made, house : BOOLEAN, state : {"pending", "inflight", "failed"}]
    /\ mode \in {"demo", "live"} /\ mode = "live" => token # 0 /\ holder # NoOne
    /\ pretend \in BOOLEAN /\ locked \in BOOLEAN /\ halfway \in BOOLEAN
    /\ leaving \in {"no", "asked", "retired"}
    /\ lost \subseteq 1..made /\ uncounted \subseteq 1..made /\ left \subseteq 1..Len(sessions)

(* Principle 3: a write made in the house leaves the phone unsent only if  *)
(* it was parked when somebody signed out, or made after that sign-out had *)
(* counted the queue; never because the app was killed, the phone enrolled *)
(* again or the write was on its way.                                      *)
CountedIsKept == lost \subseteq uncounted

(* Nobody holds a live phone whom the server has not vouched for - by the  *)
(* code of an SMS or by a PIN it checked - since the phone last forgot the *)
(* house: no echo outlives the session it was kept for.                    *)
HolderVouched == token # 0 => holder \in vouched

(* What a live phone's cursor has passed it has, whatever page of an       *)
(* earlier stay in the house arrived after the phone had forgotten it.     *)
CursorHonest == mode = "live" /\ ~halfway => 1..cursor \subseteq mirror

(* Writes about pretend gear are never sent to the house, and its phone    *)
(* shows no pretend gear.                                                  *)
PretendStaysHome ==
    ~halfway => /\ \A w \in landed : w.house
                /\ mode = "live" => ~pretend

(* "Revocation is real, or it is not a sign-out": a session the phone has  *)
(* forgotten is dead on the server, whichever answers were lost.           *)
LeftIsRevoked == \A k \in left : ~sessions[k].live
=============================================================================
