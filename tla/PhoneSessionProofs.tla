------------------------ MODULE PhoneSessionProofs ------------------------
(***************************************************************************)
(* What holds of a phone that joins and leaves its house for any number of *)
(* people, writes, enrolments and restarts. Four inductive invariants:     *)
(* who is vouched for and which sessions are dead (VouchInv, and DoorInv,  *)
(* which needs how the calls under way relate to the token), which writes  *)
(* a sign-out may still cost (KeepInv), and what each loop had of the      *)
(* house when it asked for the page it is waiting for (PagesInv).          *)
(* The second half is the scan floor of the same phone: the lens, the      *)
(* sessions, the queue rows and the screens (CameraInv, FloorInv, ViewInv). *)
(***************************************************************************)
EXTENDS PhoneSession, ScanFloor, FiniteSetTheorems, SequenceTheorems, TLAPS

SessionRecord == [user : People, live : BOOLEAN]

(* The calls under way, and what they know of the session.                 *)
CallsInv ==
    /\ sessions \in Seq(SessionRecord)
    /\ token \in 0..Len(sessions)
    /\ mode \in {"demo", "live"} /\ (mode = "live" => token # 0)
    /\ leaving \in {"no", "asked", "retired"} /\ (leaving # "no" => mode = "live")
    /\ joining \in [who : People \cup {NoOne}, token : Nat,
                    said : {"nothing", "asked", "stored"}]
    /\ joining.said # "nothing" => joining.token = Len(sessions) /\ joining.token # 0
    /\ joining.said = "asked" => token < joining.token
    /\ joining.said = "stored" => token = joining.token /\ leaving = "no"
    /\ \A k \in 1..Len(sessions) : k # Len(sessions) => ~sessions[k].live
    /\ leaving = "retired" => ~sessions[token].live

RevokedInv == left \subseteq 1..Len(sessions) /\ LeftIsRevoked

DoorInv == CallsInv /\ RevokedInv

VouchInv ==
    /\ HolderVouched
    /\ echoes \subseteq vouched
    /\ joining.said = "stored" => joining.who \in vouched

KeepInv ==
    /\ made \in Nat
    /\ \A r \in queue : r.n \in 1..made /\ r.n \notin lost
    /\ lost \subseteq 1..made
    /\ leaving # "no" => \A r \in queue : r.n \in uncounted
    /\ mode = "demo" => \A r \in queue : r.house => r.n \in uncounted
    /\ CountedIsKept

(* A live session is the last one, so a token that is not the last is dead. *)
LEMMA LastAlone ==
    ASSUME CallsInv, NEW k \in 1..Len(sessions), sessions[k].live
    PROVE  k = Len(sessions)
BY DEF CallsInv

LEMMA RowRewritten ==
    ASSUME NEW s \in SessionRecord, NEW b \in BOOLEAN
    PROVE  [s EXCEPT !.live = b] \in SessionRecord /\ [s EXCEPT !.live = b].live = b
<1>1. s = [user |-> s.user, live |-> s.live] /\ s.user \in People /\ s.live \in BOOLEAN
    BY DEF SessionRecord
<1>2. [s EXCEPT !.live = b] = [user |-> s.user, live |-> b]
    BY <1>1
<1>3. [user |-> s.user, live |-> b].live = b
    OBVIOUS
<1>4. [user |-> s.user, live |-> b] \in SessionRecord
    BY <1>1 DEF SessionRecord
<1> QED BY <1>2, <1>3, <1>4, Zenon

LEMMA RowRevoked ==
    ASSUME NEW s \in SessionRecord
    PROVE  [s EXCEPT !.live = FALSE] \in SessionRecord /\ ~[s EXCEPT !.live = FALSE].live
BY RowRewritten, Zenon

LEMMA RowRepointed ==
    ASSUME NEW s \in SessionRecord, NEW p \in People
    PROVE  [s EXCEPT !.user = p] \in SessionRecord /\ [s EXCEPT !.user = p].live = s.live
<1>1. s = [user |-> s.user, live |-> s.live] /\ s.user \in People /\ s.live \in BOOLEAN
    BY DEF SessionRecord
<1>2. [s EXCEPT !.user = p] = [user |-> p, live |-> s.live]
    BY <1>1
<1>3. [user |-> p, live |-> s.live].live = s.live
    OBVIOUS
<1>4. [user |-> p, live |-> s.live] \in SessionRecord
    BY <1>1 DEF SessionRecord
<1> QED BY <1>2, <1>3, <1>4, Zenon

(* What writing one row of the sessions table does to the others.          *)
LEMMA RowWritten ==
    ASSUME NEW s \in Seq(SessionRecord), NEW k \in 1..Len(s), NEW r \in SessionRecord
    PROVE  /\ [s EXCEPT ![k] = r] \in Seq(SessionRecord)
           /\ Len([s EXCEPT ![k] = r]) = Len(s)
           /\ \A j \in 1..Len(s) : [s EXCEPT ![k] = r][j] = IF j = k THEN r ELSE s[j]
BY ExceptSeq

LEMMA InitDoor == Init => DoorInv
BY DEF Init, DoorInv, CallsInv, RevokedInv, LeftIsRevoked, NoCall, SessionRecord

(* The calls that leave the server's sessions and the phone's door alone.  *)
doorVars == <<sessions, token, mode, leaving, joining, left>>

LEMMA DoorStutters == DoorInv /\ UNCHANGED doorVars => DoorInv'
BY DEF DoorInv, CallsInv, RevokedInv, LeftIsRevoked, doorVars

LEMMA LoopsLeaveTheDoor ==
    ASSUME NEW i \in DOMAIN loops, LoopStep(i)
    PROVE  UNCHANGED doorVars /\ UNCHANGED <<made, lost, uncounted, holder, echoes, vouched>>
BY DEF LoopStep, Wake, AskPage, PageArrives, PullFails, NothingToSend, SendBatch,
       BatchTaken, BatchRefused, BatchUnanswered, LoopOnly, QueueAndLoop, serverVars,
       dbVars, callVars, historyVars, doorVars

LEMMA DoorStep == DoorInv /\ [Next]_vars => DoorInv'
<1> SUFFICES ASSUME DoorInv, [Next]_vars PROVE DoorInv'
    OBVIOUS
<1> USE DEF DoorInv
<1>1. CASE \E i \in DOMAIN loops : LoopStep(i)
    BY <1>1, LoopsLeaveTheDoor, DoorStutters
<1>2. CASE Record
    BY <1>2, DoorStutters DEF Record, serverVars, callVars, doorVars
<1>3. CASE SignOutCounts
    <2>1. CallsInv'
        BY <1>3 DEF SignOutCounts, CallsInv, Hashing, serverVars, dbVars
    <2>2. RevokedInv'
        BY <1>3 DEF SignOutCounts, RevokedInv, LeftIsRevoked, serverVars
    <2> QED BY <2>1, <2>2
<1>4. CASE SignOutReaches
    <2>1. PICK k \in 1..Len(sessions) : k = token
        BY <1>4 DEF SignOutReaches, CallsInv
    <2>2. /\ sessions' \in Seq(SessionRecord) /\ Len(sessions') = Len(sessions)
          /\ \A j \in 1..Len(sessions) : sessions'[j].live => sessions[j].live /\ j # token
        <3> DEFINE r == [sessions[token] EXCEPT !.live = FALSE]
        <3>1. r \in SessionRecord /\ ~r.live
            BY <2>1, RowRevoked DEF CallsInv
        <3>2. sessions' = IF Alive(token) THEN [sessions EXCEPT ![token] = r] ELSE sessions
            BY <1>4 DEF SignOutReaches
        <3> HIDE DEF r
        <3>3. CASE Alive(token)
            BY <2>1, <3>1, <3>2, <3>3, RowWritten DEF CallsInv
        <3>4. CASE ~Alive(token)
            BY <2>1, <3>2, <3>4 DEF CallsInv, Alive
        <3> QED BY <3>3, <3>4
    <2>3. CallsInv'
        BY <1>4, <2>1, <2>2 DEF SignOutReaches, CallsInv, dbVars
    <2>4. RevokedInv'
        BY <1>4, <2>2 DEF SignOutReaches, RevokedInv, LeftIsRevoked, historyVars
    <2> QED BY <2>3, <2>4
<1>5. CASE SignOutFails
    <2>1. CallsInv'
        BY <1>5 DEF SignOutFails, CallsInv, serverVars, dbVars
    <2>2. RevokedInv'
        BY <1>5 DEF SignOutFails, RevokedInv, LeftIsRevoked, serverVars
    <2> QED BY <2>1, <2>2
<1>6. CASE SignOutEnds
    <2>1. CallsInv'
        BY <1>6 DEF SignOutEnds, ForgetSession, CallsInv, serverVars
    <2>2. RevokedInv'
        BY <1>6 DEF SignOutEnds, CallsInv, RevokedInv, LeftIsRevoked, serverVars
    <2> QED BY <2>1, <2>2
<1>7. ASSUME NEW p \in People, EnrolAsks(p) PROVE DoorInv'
    <2> DEFINE old == [k \in DOMAIN sessions |-> [sessions[k] EXCEPT !.live = FALSE]]
               new == [user |-> p, live |-> TRUE]
    <2>1. /\ old \in Seq(SessionRecord) /\ Len(old) = Len(sessions)
          /\ \A k \in 1..Len(sessions) : ~old[k].live
        <3>1. DOMAIN sessions = 1..Len(sessions) /\ Len(sessions) \in Nat
              /\ \A k \in 1..Len(sessions) : sessions[k] \in SessionRecord
            BY DEF CallsInv
        <3>2. \A k \in 1..Len(sessions) : old[k] \in SessionRecord /\ ~old[k].live
            BY <3>1 DEF SessionRecord
        <3>3. old = [k \in 1..Len(sessions) |-> old[k]]
            BY <3>1
        <3> HIDE DEF old
        <3> QED BY <3>1, <3>2, <3>3
    <2>2. sessions' = Append(old, new) /\ new \in SessionRecord
        BY <1>7 DEF EnrolAsks, SessionRecord
    <2> HIDE DEF old, new
    <2>3. /\ sessions' \in Seq(SessionRecord) /\ Len(sessions') = Len(sessions) + 1
          /\ \A k \in 1..Len(sessions) : ~sessions'[k].live
        BY <2>1, <2>2
    <2>4. joining' = [who |-> p, token |-> Len(sessions'), said |-> "asked"]
          /\ UNCHANGED <<token, mode, leaving, left>>
        BY <1>7 DEF EnrolAsks, dbVars, historyVars
    <2>5. CallsInv'
        BY <2>3, <2>4 DEF CallsInv
    <2>6. RevokedInv'
        BY <2>3, <2>4 DEF CallsInv, RevokedInv, LeftIsRevoked
    <2> QED BY <2>5, <2>6
<1>8. CASE EnrolFails
    <2>1. CallsInv'
        BY <1>8 DEF EnrolFails, CallsInv, NoCall, serverVars, dbVars
    <2>2. RevokedInv'
        BY <1>8 DEF EnrolFails, RevokedInv, LeftIsRevoked, serverVars, historyVars
    <2> QED BY <2>1, <2>2
<1>9. CASE EnrolStores
    <2>1. CallsInv'
        BY <1>9 DEF EnrolStores, CallsHaveEnded, CallsInv, serverVars
    <2>2. left' \subseteq 1..Len(sessions)
        BY <1>9 DEF EnrolStores, CallsInv, RevokedInv
    <2>3. \A k \in left' : ~sessions[k].live
        BY <1>9, <2>2 DEF EnrolStores, CallsInv, RevokedInv, LeftIsRevoked
    <2>4. RevokedInv'
        BY <1>9, <2>2, <2>3 DEF EnrolStores, RevokedInv, LeftIsRevoked, serverVars
    <2> QED BY <2>1, <2>4
<1>10. CASE GoLive
    <2>1. CallsInv'
        BY <1>10 DEF GoLive, CallsInv, NoCall, serverVars
    <2>2. RevokedInv'
        BY <1>10 DEF GoLive, RevokedInv, LeftIsRevoked, serverVars
    <2> QED BY <2>1, <2>2
<1>11. ASSUME NEW p \in People, NEW reaches \in BOOLEAN, SwitchAsks(p, reaches)
       PROVE  DoorInv'
    <2>1. /\ sessions' \in Seq(SessionRecord) /\ Len(sessions') = Len(sessions)
          /\ \A j \in 1..Len(sessions) : sessions'[j].live = sessions[j].live
        <3> DEFINE r == [sessions[token] EXCEPT !.user = p]
        <3>1. CASE ~reaches
            BY <1>11, <3>1 DEF SwitchAsks, CallsInv
        <3>2. CASE reaches
            <4>1. token \in 1..Len(sessions)
                BY <1>11, <3>2 DEF SwitchAsks, CallsInv, Alive
            <4>2. r \in SessionRecord /\ r.live = sessions[token].live
                BY <4>1, RowRepointed DEF CallsInv
            <4>3. sessions' = [sessions EXCEPT ![token] = r]
                BY <1>11, <3>2 DEF SwitchAsks
            <4> HIDE DEF r
            <4> QED BY <4>1, <4>2, <4>3, RowWritten DEF CallsInv
        <3> QED BY <3>1, <3>2
    <2>2. UNCHANGED <<token, mode, leaving, joining, left>>
        BY <1>11 DEF SwitchAsks, dbVars, historyVars
    <2>3. CallsInv'
        BY <2>1, <2>2 DEF CallsInv
    <2>4. RevokedInv'
        BY <2>1, <2>2 DEF RevokedInv, LeftIsRevoked
    <2> QED BY <2>3, <2>4
<1>12. CASE SwitchVerified \/ SwitchByEcho \/ TapOpens \/ HouseMoves
    BY <1>12, DoorStutters DEF SwitchVerified, SwitchByEcho, TapOpens, HouseMoves,
       serverVars, dbVars, callVars, historyVars, doorVars
<1>13. CASE Restart
    <2>1. CallsInv'
        BY <1>13 DEF Restart, CallsInv, NoCall, serverVars
    <2>2. RevokedInv'
        BY <1>13 DEF Restart, RevokedInv, LeftIsRevoked, serverVars
    <2> QED BY <2>1, <2>2
<1>14. ASSUME NEW k \in DOMAIN sessions, Revoke(k) PROVE DoorInv'
    <2>1. /\ sessions' \in Seq(SessionRecord) /\ Len(sessions') = Len(sessions)
          /\ \A j \in 1..Len(sessions) : sessions'[j].live => sessions[j].live
        <3> DEFINE r == [sessions[k] EXCEPT !.live = FALSE]
        <3>1. k \in 1..Len(sessions)
            BY DEF CallsInv
        <3>2. r \in SessionRecord /\ ~r.live
            BY <3>1, RowRevoked DEF CallsInv
        <3>3. sessions' = [sessions EXCEPT ![k] = r]
            BY <1>14 DEF Revoke
        <3> HIDE DEF r
        <3> QED BY <3>1, <3>2, <3>3, RowWritten DEF CallsInv
    <2>2. UNCHANGED <<token, mode, leaving, joining, left>>
        BY <1>14 DEF Revoke, dbVars, callVars, historyVars
    <2>3. CallsInv'
        BY <2>1, <2>2 DEF CallsInv
    <2>4. RevokedInv'
        BY <2>1, <2>2 DEF RevokedInv, LeftIsRevoked
    <2> QED BY <2>3, <2>4
<1>15. CASE UNCHANGED vars
    BY <1>15, DoorStutters DEF vars, serverVars, dbVars, callVars, historyVars, doorVars
<1> QED
    BY <1>1, <1>2, <1>3, <1>4, <1>5, <1>6, <1>7, <1>8, <1>9, <1>10, <1>11, <1>12,
       <1>13, <1>14, <1>15 DEF Next

LEMMA DoorAlways == Spec => []DoorInv
BY InitDoor, DoorStep, PTL DEF Spec

(* A phone that says it has left the house is one the server knows left,   *)
(* whichever answers were lost (signOut, forgetSession).                   *)
THEOREM SignOutIsReal == Spec => []LeftIsRevoked
<1>1. DoorInv => LeftIsRevoked
    BY DEF DoorInv, RevokedInv
<1> QED BY <1>1, DoorAlways, PTL

-----------------------------------------------------------------------------
LEMMA InitVouch == Init => VouchInv
BY DEF Init, VouchInv, HolderVouched, NoCall

LEMMA VouchStep == CallsInv /\ VouchInv /\ [Next]_vars => VouchInv'
<1> SUFFICES ASSUME CallsInv, VouchInv, [Next]_vars PROVE VouchInv'
    OBVIOUS
<1> USE DEF VouchInv, HolderVouched
<1>1. CASE UNCHANGED <<token, holder, echoes, joining, vouched>>
    BY <1>1
<1>2. ASSUME NEW i \in DOMAIN loops, LoopStep(i) PROVE VouchInv'
    BY <1>1, <1>2, LoopsLeaveTheDoor DEF doorVars
<1>3. CASE Record \/ SignOutCounts \/ SignOutReaches \/ SignOutFails \/ TapOpens \/ HouseMoves
    BY <1>1, <1>3 DEF Record, SignOutCounts, SignOutReaches, SignOutFails, TapOpens,
       HouseMoves, serverVars, dbVars, callVars, historyVars
<1>4. CASE SignOutEnds
    BY <1>4 DEF SignOutEnds, ForgetSession, CallsInv
<1>5. ASSUME NEW p \in People, EnrolAsks(p) PROVE VouchInv'
    BY <1>5 DEF EnrolAsks, dbVars, historyVars
<1>6. CASE EnrolFails
    BY <1>6 DEF EnrolFails, NoCall, dbVars, historyVars
<1>7. CASE EnrolStores
    BY <1>7 DEF EnrolStores
<1>8. CASE GoLive
    BY <1>8 DEF GoLive, NoCall
<1>9. ASSUME NEW p \in People, NEW reaches \in BOOLEAN, SwitchAsks(p, reaches)
      PROVE  VouchInv'
    BY <1>1, <1>9 DEF SwitchAsks, dbVars, historyVars
<1>10. CASE SwitchVerified
    BY <1>10 DEF SwitchVerified
<1>11. CASE SwitchByEcho
    BY <1>11 DEF SwitchByEcho, historyVars
<1>12. CASE Restart
    BY <1>12 DEF Restart, NoCall
<1>13. ASSUME NEW k \in DOMAIN sessions, Revoke(k) PROVE VouchInv'
    BY <1>1, <1>13 DEF Revoke, dbVars, callVars, historyVars
<1>14. CASE UNCHANGED vars
    BY <1>1, <1>14 DEF vars, dbVars, callVars, historyVars
<1> QED
    BY <1>2, <1>3, <1>4, <1>5, <1>6, <1>7, <1>8, <1>9, <1>10, <1>11, <1>12, <1>13,
       <1>14 DEF Next

(* No echo outlives the session it was kept for: whoever holds the phone   *)
(* was vouched for by the server since the phone last forgot the house.    *)
THEOREM HoldersAreVouched == Spec => []HolderVouched
<1>1. VouchInv => HolderVouched
    BY DEF VouchInv
<1>2. CallsInv /\ VouchInv /\ [Next]_vars => VouchInv'
    BY VouchStep
<1>3. DoorInv => CallsInv
    BY DEF DoorInv
<1> QED BY <1>1, <1>2, <1>3, InitVouch, DoorAlways, PTL DEF Spec

-----------------------------------------------------------------------------
(* Marking rows changes their state, not what they are.                    *)
LEMMA MarkedIsQueue ==
    ASSUME NEW ns, NEW state, NEW r \in Marked(ns, state)
    PROVE  \E q \in queue : q.n = r.n /\ q.house = r.house
<1>1. CASE r \in queue
    BY <1>1
<1>2. CASE r \in InState(Named(ns), state)
    <2>1. PICK q \in queue : r = [q EXCEPT !.state = state]
        BY <1>2 DEF InState, Named
    <2> QED BY <2>1 DEF Marked
<1> QED BY <1>1, <1>2 DEF Marked

LEMMA InitKeep == Init => KeepInv
BY DEF Init, KeepInv, CountedIsKept

(* A step that makes no write, and forgets none, keeps what is known of    *)
(* the writes when every row of the new queue was a row of the old one.    *)
LEMMA KeepStutters ==
    ASSUME KeepInv, UNCHANGED <<made, lost, uncounted>>,
           leaving' = leaving \/ leaving' = "no",
           mode' = mode \/ mode' = "live",
           \A r \in queue' : \E q \in queue : q.n = r.n /\ q.house = r.house
    PROVE  KeepInv'
BY DEF KeepInv, CountedIsKept

LEMMA LoopsKeepTheWrites ==
    ASSUME CallsInv, KeepInv, NEW i \in DOMAIN loops, LoopStep(i)
    PROVE  KeepInv'
<1>1. UNCHANGED <<made, lost, uncounted, leaving, mode>>
    BY LoopsLeaveTheDoor DEF doorVars
<1>2. \A r \in queue' : \E q \in queue : q.n = r.n /\ q.house = r.house
    <2>1. CASE Wake(i) \/ AskPage(i) \/ PageArrives(i) \/ PullFails(i) \/ NothingToSend(i)
        BY <2>1 DEF Wake, AskPage, PageArrives, PullFails, NothingToSend, LoopOnly, dbVars
    <2>2. CASE SendBatch(i)
        BY <2>2, MarkedIsQueue DEF SendBatch
    <2>3. CASE BatchTaken(i)
        BY <2>3 DEF BatchTaken
    <2>4. CASE BatchRefused(i)
        BY <2>4, MarkedIsQueue DEF BatchRefused
    <2>5. CASE BatchUnanswered(i)
        BY <2>5, MarkedIsQueue DEF BatchUnanswered
    <2> QED BY <2>1, <2>2, <2>3, <2>4, <2>5 DEF LoopStep
<1> QED BY <1>1, <1>2, KeepStutters

LEMMA KeepStep == CallsInv /\ KeepInv /\ [Next]_vars => KeepInv'
<1> SUFFICES ASSUME CallsInv, KeepInv, [Next]_vars PROVE KeepInv'
    OBVIOUS
<1>1. CASE UNCHANGED <<made, lost, uncounted, mode, leaving, queue>>
    BY <1>1, KeepStutters
<1>2. ASSUME NEW i \in DOMAIN loops, LoopStep(i) PROVE KeepInv'
    BY <1>2, LoopsKeepTheWrites
<1>3. CASE Record
    <2>1. /\ made' = made + 1 /\ made \in Nat
          /\ queue' = queue \cup {[n |-> made', house |-> mode = "live", state |-> "pending"]}
          /\ uncounted' = IF leaving = "no" THEN uncounted ELSE uncounted \cup {made'}
          /\ UNCHANGED <<lost, mode, leaving>>
        BY <1>3 DEF Record, KeepInv, callVars
    <2>2. ASSUME NEW r \in queue'
          PROVE  /\ r.n \in 1..made' /\ r.n \notin lost
                 /\ leaving # "no" => r.n \in uncounted'
                 /\ mode = "demo" /\ r.house => r.n \in uncounted'
        <3>1. CASE r \in queue
            BY <2>1, <3>1 DEF KeepInv
        <3>2. CASE r \notin queue
            <4>1. r = [n |-> made', house |-> mode = "live", state |-> "pending"]
                BY <2>1, <3>2
            <4>2. r.n = made' /\ (r.house <=> mode = "live")
                BY <4>1
            <4>3. made + 1 \in 1..(made + 1) /\ made + 1 \notin lost
                BY <2>1 DEF KeepInv
            <4> QED BY <2>1, <4>2, <4>3
        <3> QED BY <3>1, <3>2
    <2> QED BY <2>1, <2>2 DEF KeepInv, CountedIsKept
<1>4. CASE SignOutCounts
    <2>1. queue \ LiveRows = queue
        BY <1>4 DEF SignOutCounts, Counted
    <2> QED BY <1>4, <2>1 DEF SignOutCounts, KeepInv, CountedIsKept, CallsInv, dbVars
<1>5. CASE SignOutFails
    BY <1>5 DEF SignOutFails, KeepInv, CountedIsKept, CallsInv, dbVars
<1>6. CASE SignOutEnds
    BY <1>6 DEF SignOutEnds, ForgetSession, KeepInv, CountedIsKept
<1>7. CASE EnrolStores
    BY <1>1, <1>7 DEF EnrolStores
<1>8. CASE GoLive
    <2>1. CASE mode = "demo"
        <3>1. queue' = {} /\ lost' = lost \cup {r.n : r \in {q \in LiveRows : q.house}}
              /\ UNCHANGED <<made, uncounted, leaving>> /\ mode' = "live"
            BY <1>8, <2>1 DEF GoLive, DemoCleared
        <3>2. leaving = "no"
            BY <2>1 DEF CallsInv
        <3> QED BY <2>1, <3>1, <3>2 DEF KeepInv, CountedIsKept, LiveRows
    <2>2. CASE mode # "demo"
        BY <1>8, <2>2, KeepStutters DEF GoLive
    <2> QED BY <2>1, <2>2
<1>9. CASE Restart
    <2>1. UNCHANGED <<made, queue, lost>> /\ leaving' = "no"
          /\ mode' = (IF token = 0 THEN "demo" ELSE "live")
          /\ uncounted' = IF token = 0 THEN uncounted ELSE uncounted \ {r.n : r \in queue}
        BY <1>9 DEF Restart
    <2>2. token = 0 => mode = "demo"
        BY DEF CallsInv
    <2> QED BY <2>1, <2>2 DEF KeepInv, CountedIsKept
<1>10. CASE SignOutReaches
    <2>1. leaving # "no" /\ leaving' # "no" /\ UNCHANGED <<made, lost, uncounted, mode, queue>>
        BY <1>10 DEF SignOutReaches, dbVars, historyVars
    <2> QED BY <2>1 DEF KeepInv, CountedIsKept
<1>11. CASE EnrolFails \/ SwitchVerified \/ SwitchByEcho \/ TapOpens \/ HouseMoves
    BY <1>1, <1>11 DEF EnrolFails, SwitchVerified, SwitchByEcho, TapOpens, HouseMoves,
       dbVars, callVars, historyVars
<1>12. ASSUME NEW p \in People, EnrolAsks(p) PROVE KeepInv'
    BY <1>1, <1>12 DEF EnrolAsks, dbVars, historyVars
<1>13. ASSUME NEW p \in People, NEW reaches \in BOOLEAN, SwitchAsks(p, reaches)
       PROVE  KeepInv'
    BY <1>1, <1>13 DEF SwitchAsks, dbVars, historyVars
<1>14. ASSUME NEW k \in DOMAIN sessions, Revoke(k) PROVE KeepInv'
    BY <1>1, <1>14 DEF Revoke, dbVars, callVars, historyVars
<1>15. CASE UNCHANGED vars
    BY <1>1, <1>15 DEF vars, dbVars, callVars, historyVars
<1> QED
    BY <1>2, <1>3, <1>4, <1>5, <1>6, <1>7, <1>8, <1>9, <1>10, <1>11, <1>12, <1>13,
       <1>14, <1>15 DEF Next

(* Principle 3 for any number of people, writes, enrolments and restarts:  *)
(* a sign-out costs no write but those it had not counted.                 *)
THEOREM CountedWritesAreKept == Spec => []CountedIsKept
<1>1. KeepInv => CountedIsKept
    BY DEF KeepInv
<1>2. CallsInv /\ KeepInv /\ [Next]_vars => KeepInv'
    BY KeepStep
<1>3. DoorInv => CallsInv
    BY DEF DoorInv
<1> QED BY <1>1, <1>2, <1>3, InitKeep, DoorAlways, PTL DEF Spec

-----------------------------------------------------------------------------
(***************************************************************************)
(* Pages. A page is asked for at the cursor and arrives at any later time, *)
(* from a loop that may have been stopped since, in a house the phone may  *)
(* have forgotten. It tears no hole below the cursor, because no loop of a *)
(* demo phone asks again, and none still waits when it goes live.          *)
(***************************************************************************)
LoopStage == {"idle", "ask", "asked", "turned_away", "flush", "taken", "refused", "unheard"}
LoopRecord == [started : BOOLEAN, again : BOOLEAN, stage : LoopStage,
               from : Nat, upTo : Nat, batch : SUBSET Nat]

PagesInv ==
    /\ loops \in Seq(LoopRecord) /\ served \in Nat /\ cursor \in Nat
    /\ mode = "demo" => \A i \in 1..Len(loops) : ~loops[i].started
    /\ mode = "demo" /\ joining.said = "stored" =>
         \A i \in 1..Len(loops) : loops[i].stage = "idle"
    /\ mode = "live" /\ ~halfway =>
         /\ 1..cursor \subseteq mirror
         /\ \A i \in 1..Len(loops) :
              loops[i].stage = "asked" => 1..loops[i].from \subseteq mirror

LEMMA MaxOfTwo ==
    ASSUME NEW a \in Nat, NEW b \in Nat
    PROVE  Max({a, b}) \in {a, b} /\ Max({a, b}) >= a /\ Max({a, b}) >= b
<1>1. \E x \in {a, b} : \A y \in {a, b} : x >= y
    <2>1. CASE a >= b
        BY <2>1
    <2>2. CASE b >= a
        BY <2>2
    <2> QED BY <2>1, <2>2
<1> QED BY <1>1 DEF Max

LEMMA NewLoopIsOne == NewLoop \in LoopRecord /\ NewLoop.started /\ NewLoop.stage = "ask"
BY DEF NewLoop, LoopRecord, LoopStage

LEMMA FinishedLoop ==
    ASSUME NEW l \in LoopRecord
    PROVE  /\ Finished(l) \in LoopRecord /\ Finished(l).started = l.started
           /\ Finished(l).stage # "asked"
BY DEF Finished, LoopRecord, LoopStage

LEMMA KickedLoop ==
    ASSUME NEW l \in LoopRecord
    PROVE  /\ Kicked(l) \in LoopRecord /\ Kicked(l).started = l.started
           /\ Kicked(l).from = l.from
           /\ Kicked(l).stage = "asked" => l.stage = "asked"
BY DEF Kicked, Idle, LoopRecord, LoopStage

(* What one step of a loop makes of it.                                    *)
LEMMA LoopShape ==
    ASSUME PagesInv, KeepInv, NEW i \in DOMAIN loops, LoopStep(i)
    PROVE  \E l \in LoopRecord :
             /\ loops' = [loops EXCEPT ![i] = l]
             /\ l.started = loops[i].started
             /\ loops[i].started \/ loops[i].stage # "idle"
             /\ l.stage = "asked" => \/ l.from = cursor
                                     \/ loops[i].stage = "asked" /\ l.from = loops[i].from
<1> DEFINE o == loops[i]
<1>1. o \in LoopRecord
    BY DEF PagesInv
<1>2. CASE Wake(i)
    BY <1>1, <1>2, KickedLoop DEF Wake, Upon
<1>3. CASE AskPage(i)
    <2>1. CASE Alive(token)
        <3> DEFINE l == [o EXCEPT !.stage = "asked", !.from = cursor, !.upTo = served]
        <3>1. l \in LoopRecord /\ l.started = o.started /\ l.from = cursor
            BY <1>1 DEF PagesInv, LoopRecord, LoopStage
        <3>2. loops' = [loops EXCEPT ![i] = l] /\ o.stage # "idle"
            BY <1>3, <2>1 DEF AskPage, Upon
        <3> HIDE DEF l
        <3> QED BY <3>1, <3>2
    <2>2. CASE ~Alive(token)
        <3> DEFINE l == [o EXCEPT !.stage = "turned_away"]
        <3>1. l \in LoopRecord /\ l.started = o.started /\ l.stage # "asked"
            BY <1>1 DEF LoopRecord, LoopStage
        <3>2. loops' = [loops EXCEPT ![i] = l] /\ o.stage # "idle"
            BY <1>3, <2>2 DEF AskPage, Upon
        <3> HIDE DEF l
        <3> QED BY <3>1, <3>2
    <2> QED BY <2>1, <2>2
<1>4. CASE PageArrives(i)
    <2> DEFINE l == [o EXCEPT !.stage = "flush", !.from = 0, !.upTo = 0]
    <2>1. l \in LoopRecord /\ l.started = o.started /\ l.stage # "asked"
        BY <1>1 DEF LoopRecord, LoopStage
    <2>2. loops' = [loops EXCEPT ![i] = l] /\ o.stage # "idle"
        BY <1>4 DEF PageArrives, Upon
    <2> HIDE DEF l
    <2> QED BY <2>1, <2>2
<1>5. CASE PullFails(i) \/ NothingToSend(i) \/ BatchRefused(i) \/ BatchUnanswered(i)
    <2>1. loops' = [loops EXCEPT ![i] = Finished(o)] /\ o.stage # "idle"
        BY <1>5 DEF PullFails, NothingToSend, BatchRefused, BatchUnanswered, Upon
    <2> QED BY <1>1, <2>1, FinishedLoop
<1>6. CASE SendBatch(i)
    <2> DEFINE ns == {r.n : r \in LiveRows}
    <2>1. ns \in SUBSET Nat
        BY DEF KeepInv, LiveRows
    <2>2. \E x \in {"taken", "refused", "unheard"} :
            loops' = [loops EXCEPT ![i] = [o EXCEPT !.batch = ns, !.stage = x]]
        BY <1>6 DEF SendBatch, Upon
    <2>3. PICK x \in {"taken", "refused", "unheard"} :
            loops' = [loops EXCEPT ![i] = [o EXCEPT !.batch = ns, !.stage = x]]
        BY <2>2
    <2> HIDE DEF ns
    <2>4. /\ [o EXCEPT !.batch = ns, !.stage = x] \in LoopRecord
          /\ [o EXCEPT !.batch = ns, !.stage = x].started = o.started
          /\ [o EXCEPT !.batch = ns, !.stage = x].stage # "asked"
        BY <1>1, <2>1 DEF LoopRecord, LoopStage
    <2>5. o.stage # "idle"
        BY <1>6 DEF SendBatch
    <2> QED BY <2>3, <2>4, <2>5
<1>7. CASE BatchTaken(i)
    <2> DEFINE l == [o EXCEPT !.stage = "flush", !.batch = {}]
    <2>1. l \in LoopRecord /\ l.started = o.started /\ l.stage # "asked"
        BY <1>1 DEF LoopRecord, LoopStage
    <2>2. loops' = [loops EXCEPT ![i] = l] /\ o.stage # "idle"
        BY <1>7 DEF BatchTaken, Upon
    <2> HIDE DEF l
    <2> QED BY <2>1, <2>2
<1> QED BY <1>2, <1>3, <1>4, <1>5, <1>6, <1>7 DEF LoopStep

(* Stopping every loop leaves what each waits for as it was.               *)
LEMMA StoppedLoops ==
    ASSUME loops \in Seq(LoopRecord)
    PROVE  /\ LoopsStopped \in Seq(LoopRecord) /\ Len(LoopsStopped) = Len(loops)
           /\ \A i \in 1..Len(loops) : /\ ~LoopsStopped[i].started
                                       /\ LoopsStopped[i].stage = loops[i].stage
                                       /\ LoopsStopped[i].from = loops[i].from
<1>1. DOMAIN loops = 1..Len(loops) /\ Len(loops) \in Nat
      /\ \A i \in 1..Len(loops) : loops[i] \in LoopRecord
    OBVIOUS
<1>2. \A l \in LoopRecord : /\ Stopped(l) \in LoopRecord /\ ~Stopped(l).started
                            /\ Stopped(l).stage = l.stage /\ Stopped(l).from = l.from
    BY DEF Stopped, LoopRecord
<1>3. LoopsStopped = [i \in 1..Len(loops) |-> Stopped(loops[i])]
    BY <1>1 DEF LoopsStopped
<1> QED BY <1>1, <1>2, <1>3

LEMMA LoopsKeepThePages ==
    ASSUME CallsInv, KeepInv, PagesInv, NEW i \in DOMAIN loops, LoopStep(i)
    PROVE  PagesInv'
<1>1. UNCHANGED <<mode, joining, halfway, served>>
    BY LoopsLeaveTheDoor DEF doorVars, LoopStep, Wake, AskPage, PageArrives, PullFails,
       NothingToSend, SendBatch, BatchTaken, BatchRefused, BatchUnanswered, LoopOnly,
       QueueAndLoop, historyVars, serverVars
<1>2. PICK l \in LoopRecord :
             /\ loops' = [loops EXCEPT ![i] = l]
             /\ l.started = loops[i].started
             /\ loops[i].started \/ loops[i].stage # "idle"
             /\ l.stage = "asked" => \/ l.from = cursor
                                     \/ loops[i].stage = "asked" /\ l.from = loops[i].from
    BY LoopShape
<1>3. /\ i \in 1..Len(loops) /\ loops' \in Seq(LoopRecord) /\ Len(loops') = Len(loops)
      /\ \A j \in 1..Len(loops) : loops'[j] = IF j = i THEN l ELSE loops[j]
    BY <1>2, ExceptSeq DEF PagesInv
<1>4. cursor' \in Nat /\ mirror \subseteq mirror'
      /\ (mode = "live" /\ ~halfway => 1..cursor' \subseteq mirror')
    <2>1. CASE PageArrives(i)
        <3> DEFINE f == loops[i].from
                   u == loops[i].upTo
        <3>1. f \in Nat /\ u \in Nat /\ cursor \in Nat
            <4>1. loops[i] \in LoopRecord
                BY <1>3 DEF PagesInv
            <4> QED BY <4>1 DEF PagesInv, LoopRecord
        <3>2. mirror' = mirror \cup ((f + 1)..u) /\ cursor' = Max({cursor, u})
              /\ loops[i].stage = "asked"
            BY <2>1 DEF PageArrives
        <3>3. cursor' = cursor \/ cursor' = u
            BY <3>1, <3>2, MaxOfTwo
        <3>4. mode = "live" /\ ~halfway => 1..cursor \subseteq mirror /\ 1..f \subseteq mirror
            BY <1>3, <3>2 DEF PagesInv
        <3> HIDE DEF f, u
        <3>5. 1..u \subseteq (1..f) \cup ((f + 1)..u)
            BY <3>1
        <3> QED BY <3>1, <3>2, <3>3, <3>4, <3>5
    <2>2. CASE ~PageArrives(i)
        <3>1. UNCHANGED <<mirror, cursor>>
            BY <2>2 DEF LoopStep, Wake, AskPage, PullFails, NothingToSend, SendBatch,
               BatchTaken, BatchRefused, BatchUnanswered, LoopOnly, QueueAndLoop, dbVars
        <3> QED BY <3>1 DEF PagesInv
    <2> QED BY <2>1, <2>2
<1>5. mode = "live" /\ ~halfway =>
        \A j \in 1..Len(loops) : loops'[j].stage = "asked" => 1..loops'[j].from \subseteq mirror'
    BY <1>2, <1>3, <1>4 DEF PagesInv
<1>6. mode = "demo" => \A j \in 1..Len(loops) : ~loops'[j].started
    BY <1>2, <1>3 DEF PagesInv
<1>7. mode = "demo" /\ joining.said = "stored" => FALSE
    BY <1>2, <1>3 DEF PagesInv
<1> QED BY <1>1, <1>3, <1>4, <1>5, <1>6, <1>7 DEF PagesInv

(* Steps that leave the loops and what has been pulled alone.              *)
LEMMA PagesStutter ==
    ASSUME PagesInv, UNCHANGED <<loops, cursor, mirror, mode, halfway>>, served' \in Nat,
           joining'.said = "stored" => joining.said = "stored"
    PROVE  PagesInv'
BY DEF PagesInv

LEMMA InitPages == Init => PagesInv
BY DEF Init, PagesInv, NoCall

LEMMA PagesStep == CallsInv /\ KeepInv /\ PagesInv /\ [Next]_vars => PagesInv'
<1> SUFFICES ASSUME CallsInv, KeepInv, PagesInv, [Next]_vars PROVE PagesInv'
    OBVIOUS
<1>1. ASSUME NEW i \in DOMAIN loops, LoopStep(i) PROVE PagesInv'
    BY <1>1, LoopsKeepThePages
<1>2. served \in Nat /\ NoCall.said # "stored"
    BY DEF PagesInv, NoCall
<1>3. CASE Record \/ SignOutCounts \/ SignOutReaches \/ SignOutFails \/ EnrolFails
           \/ SwitchVerified \/ SwitchByEcho \/ TapOpens \/ HouseMoves
    BY <1>2, <1>3, PagesStutter DEF Record, SignOutCounts, SignOutReaches, SignOutFails,
       EnrolFails, SwitchVerified, SwitchByEcho, TapOpens, HouseMoves, serverVars, dbVars,
       callVars, historyVars
<1>4. ASSUME NEW p \in People, EnrolAsks(p) PROVE PagesInv'
    <2>1. joining'.said = "asked"
        BY <1>4 DEF EnrolAsks
    <2> QED BY <1>2, <1>4, <2>1, PagesStutter DEF EnrolAsks, dbVars, historyVars
<1>5. ASSUME NEW p \in People, NEW reaches \in BOOLEAN, SwitchAsks(p, reaches)
      PROVE  PagesInv'
    BY <1>2, <1>5, PagesStutter DEF SwitchAsks, dbVars, historyVars
<1>6. ASSUME NEW k \in DOMAIN sessions, Revoke(k) PROVE PagesInv'
    BY <1>2, <1>6, PagesStutter DEF Revoke, dbVars, callVars, historyVars
<1>7. CASE SignOutEnds
    <2>1. /\ loops' = LoopsStopped /\ mode' = "demo" /\ cursor' = 0
          /\ UNCHANGED <<joining, served>>
        BY <1>7 DEF SignOutEnds, ForgetSession, serverVars
    <2>2. joining.said # "stored"
        BY <1>7 DEF SignOutEnds, CallsInv
    <2> QED BY <2>1, <2>2, StoppedLoops DEF PagesInv
<1>8. CASE EnrolStores
    <2>1. UNCHANGED <<loops, cursor, mirror, mode, halfway, served>>
        BY <1>8 DEF EnrolStores, serverVars
    <2>2. mode = "demo" => \A i \in 1..Len(loops) : loops[i].stage = "idle"
        BY <1>8 DEF EnrolStores, CallsHaveEnded, Idle, PagesInv
    <2> QED BY <2>1, <2>2 DEF PagesInv
<1>9. CASE GoLive
    <2>1. /\ mode' = "live" /\ joining' = NoCall /\ loops' = Append(LoopsStopped, NewLoop)
          /\ joining.said = "stored" /\ UNCHANGED <<served, halfway>>
        BY <1>9 DEF GoLive, Attached, serverVars
    <2>2. /\ loops' \in Seq(LoopRecord) /\ Len(loops') = Len(loops) + 1
          /\ \A i \in 1..Len(loops) : /\ loops'[i].stage = loops[i].stage
                                      /\ loops'[i].from = loops[i].from
          /\ loops'[Len(loops) + 1].stage = "ask"
        BY <2>1, StoppedLoops, NewLoopIsOne DEF PagesInv
    <2>3. CASE mode = "demo"
        <3>1. mirror' = {} /\ cursor' = 0
            BY <1>9, <2>3 DEF GoLive, DemoCleared
        <3>2. \A i \in 1..Len(loops') : loops'[i].stage # "asked"
            BY <2>1, <2>2, <2>3 DEF PagesInv
        <3>3. 1..cursor' \subseteq mirror'
            BY <3>1
        <3> QED BY <1>2, <2>1, <2>2, <3>1, <3>2, <3>3 DEF PagesInv
    <2>4. CASE mode # "demo"
        <3>1. UNCHANGED <<mirror, cursor>> /\ mode = "live"
            BY <1>9, <2>4 DEF GoLive, CallsInv
        <3> QED BY <1>2, <2>1, <2>2, <3>1 DEF PagesInv
    <2> QED BY <2>3, <2>4
<1>10. CASE Restart
    <2>1. /\ mode' = (IF token = 0 THEN "demo" ELSE "live")
          /\ loops' = (IF token = 0 THEN <<>> ELSE <<NewLoop>>)
          /\ joining' = NoCall /\ halfway' = (halfway \/ (token # 0 /\ mode = "demo"))
          /\ UNCHANGED <<mirror, cursor, served>>
        BY <1>10 DEF Restart, serverVars
    <2>2. mode' = "live" /\ ~halfway' => mode = "live" /\ ~halfway
        BY <2>1 DEF CallsInv
    <2>3. /\ loops' \in Seq(LoopRecord)
          /\ \A i \in 1..Len(loops') : loops'[i].stage # "asked"
          /\ mode' = "demo" => Len(loops') = 0
        BY <2>1, NewLoopIsOne
    <2> QED BY <1>2, <2>1, <2>2, <2>3 DEF PagesInv
<1>11. CASE UNCHANGED vars
    BY <1>2, <1>11, PagesStutter DEF vars, serverVars, dbVars, callVars, historyVars
<1> QED
    BY <1>1, <1>3, <1>4, <1>5, <1>6, <1>7, <1>8, <1>9, <1>10, <1>11 DEF Next

LEMMA KeepAlways == Spec => []KeepInv
<1>1. CallsInv /\ KeepInv /\ [Next]_vars => KeepInv'
    BY KeepStep
<1>2. DoorInv => CallsInv
    BY DEF DoorInv
<1> QED BY <1>1, <1>2, InitKeep, DoorAlways, PTL DEF Spec

(* The rows a live phone's cursor has passed are on the phone, for any     *)
(* number of loops, late pages, sign-outs and re-enrolments, unless the    *)
(* app was killed inside an enrolment.                                     *)
THEOREM CursorIsHonest == Spec => []CursorHonest
<1>1. PagesInv => CursorHonest
    BY DEF PagesInv, CursorHonest
<1>2. CallsInv /\ KeepInv /\ PagesInv /\ [Next]_vars => PagesInv'
    BY PagesStep
<1>3. DoorInv => CallsInv
    BY DEF DoorInv
<1> QED BY <1>1, <1>2, <1>3, InitPages, DoorAlways, KeepAlways, PTL DEF Spec

-----------------------------------------------------------------------------
(* THE SCAN FLOOR of the same phone, for any jobs, items, labels, cameras   *)
(* and days: the lens is off once the last camera has gone, nothing is      *)
(* recorded twice, a return misses nothing, and all who show a session show *)
(* the same one.                                                            *)

(* The camera: whoever may have the lens on has still to stop it, or shows *)
(* it; whoever may have left a listener has still to remove it.            *)

MayHold(x) == x.step = "live" \/ x.hush > 0 \/ x.shut > 0
MayListen(x) == x.step \in {"starting", "undoing", "live"} \/ x.hush > 0

CameraType == eye \in [Eyes -> Eye] /\ ears \subseteq Eyes /\ lens \in BOOLEAN
CameraInv ==
    /\ CameraType
    /\ lens => \E e \in Eyes : MayHold(eye[e])
    /\ ears # {} => \E e \in Eyes : MayListen(eye[e])

(* Somebody stays answerable when only some instances change, each without *)
(* shedding what it answers for.                                           *)
LEMMA HolderStays ==
    ASSUME \A e \in Eyes : MayHold(eye[e]) => MayHold(eye'[e]),
           \E e \in Eyes : MayHold(eye[e])
    PROVE  \E e \in Eyes : MayHold(eye'[e])
<1> HIDE DEF MayHold
<1> QED  OBVIOUS

LEMMA ListenerStays ==
    ASSUME \A e \in Eyes : MayListen(eye[e]) => MayListen(eye'[e]),
           \E e \in Eyes : MayListen(eye[e])
    PROVE  \E e \in Eyes : MayListen(eye'[e])
<1> HIDE DEF MayListen
<1> QED  OBVIOUS

LEMMA CameraStarts == CameraInit => CameraInv
<1> SUFFICES ASSUME CameraInit PROVE CameraInv
    OBVIOUS
<1>1. Gone \in Eye
  BY DEF Gone, Eye
<1> QED  BY <1>1 DEF CameraInit, CameraInv, CameraType

(* What a step of a chain keeps of the instance itself. *)
Aims(x, y) ==
    /\ y.aim \in {x.aim, 0}
    /\ y.mounted => x.mounted /\ y.aim = x.aim

LEMMA SettledType ==
    ASSUME NEW x \in Eye
    PROVE  /\ Settled(x) \in Eye
           /\ MayHold(x) <=> MayHold(Settled(x))
           /\ MayListen(x) <=> MayListen(Settled(x))
           /\ Aims(x, Settled(x))
  BY DEF Settled, Eye, Gone, MayHold, MayListen, Aims

LEMMA StartedFits ==
    ASSUME NEW x \in Eye, x.step = "starting"
    PROVE  /\ Started(x) \in Eye /\ Aims(x, Started(x))
           /\ MayHold(Started(x)) /\ MayListen(Started(x))
           /\ Balked(x) \in Eye /\ Aims(x, Balked(x))
           /\ MayHold(Balked(x)) /\ MayListen(Balked(x))
<1>0. x.hush \in Nat /\ x.aim \in Nat /\ x.mounted \in BOOLEAN
  BY DEF Eye
<1> PICK h \in Nat : h = x.hush + 1 /\ h > 0
    BY <1>0
<1> PICK t \in {"off", "none"} : t = IF x.mounted THEN "off" ELSE "none"
    OBVIOUS
<1>1. Balked(x) = [x EXCEPT !.step = t, !.hush = h]
  BY DEF Balked
<1>2. Started(x) = IF x.mounted THEN [x EXCEPT !.step = "live"]
                   ELSE [x EXCEPT !.step = "none", !.hush = h]
  BY DEF Started
<1>3. [x EXCEPT !.step = t, !.hush = h] \in Eye
  BY DEF Eye
<1>4. [x EXCEPT !.step = "none", !.hush = h] \in Eye /\ [x EXCEPT !.step = "live"] \in Eye
  BY DEF Eye
<1>5. Aims(x, Balked(x)) /\ MayHold(Balked(x)) /\ MayListen(Balked(x))
  BY <1>1, <1>3 DEF Eye, Aims, MayHold, MayListen
<1>6. Aims(x, Started(x)) /\ MayHold(Started(x)) /\ MayListen(Started(x))
  BY <1>2, <1>4 DEF Eye, Aims, MayHold, MayListen
<1> QED  BY <1>1, <1>2, <1>3, <1>4, <1>5, <1>6

(* What a cleanup leaves of an instance, before it is let go. *)
Dismounted(x, quiet) ==
    [x EXCEPT !.mounted = FALSE, !.paused = quiet,
              !.hush = IF x.step \in {"starting", "live"} THEN @ + 1 ELSE @,
              !.step = IF @ \in {"live", "off"} THEN "none" ELSE @]

LEMMA DismountedFits ==
    ASSUME NEW x \in Eye, NEW quiet \in BOOLEAN
    PROVE  /\ Dismounted(x, quiet) \in Eye
           /\ ~Dismounted(x, quiet).mounted /\ Dismounted(x, quiet).aim = x.aim
           /\ MayHold(x) => MayHold(Dismounted(x, quiet))
           /\ MayListen(x) => MayListen(Dismounted(x, quiet))
<1> DEFINE Steps == {"none", "asking", "granted", "undoing", "starting", "live", "off"}
           y == Dismounted(x, quiet)
<1>1. /\ x.step \in Steps
      /\ x.hush \in Nat /\ x.shut \in Nat /\ x.aim \in Nat
  BY DEF Eye
<1> PICK h \in Nat : /\ h = IF x.step \in {"starting", "live"} THEN x.hush + 1 ELSE x.hush
                     /\ x.hush > 0 \/ x.step \in {"starting", "live"} => h > 0
    BY <1>1
<1> PICK t \in Steps : /\ t = IF x.step \in {"live", "off"} THEN "none" ELSE x.step
                       /\ x.step = "undoing" => t = x.step
    BY <1>1
<1>2. y = [x EXCEPT !.mounted = FALSE, !.paused = quiet, !.hush = h, !.step = t]
  BY DEF Dismounted
<1>3. [x EXCEPT !.mounted = FALSE, !.paused = quiet, !.hush = h, !.step = t] \in Eye
  BY DEF Eye
<1> HIDE DEF y
<1>4. /\ y.step = t /\ y.hush = h /\ y.shut = x.shut /\ ~y.mounted /\ y.aim = x.aim
      /\ y \in Eye
  BY <1>2, <1>3 DEF Eye
<1>5. (MayHold(x) => MayHold(y)) /\ (MayListen(x) => MayListen(y))
  BY <1>1, <1>4 DEF MayHold, MayListen
<1> QED  BY <1>4, <1>5 DEF y

LEMMA CameraMovesKeep ==
    ASSUME CameraInv, CameraMoves
    PROVE  CameraInv' /\ \A e \in Eyes : Aims(eye[e], eye'[e])
<1> USE DEF CameraInv, CameraType
<1> PICK e \in Eyes :
        \/ \E granted \in BOOLEAN : PermissionAnswered(e, granted)
        \/ ListenersAdded(e)
        \/ ListenersUndone(e)
        \/ \E ok \in BOOLEAN : StartAnswered(e, ok)
        \/ EarsRemoved(e)
        \/ LensStopped(e)
    BY DEF CameraMoves
<1> DEFINE Only(y) == eye' = [eye EXCEPT ![e] = y]
<1>o. ASSUME NEW y \in Eye, Only(y), Aims(eye[e], y)
      PROVE  /\ eye' \in [Eyes -> Eye]
             /\ \A f \in Eyes : Aims(eye[f], eye'[f])
             /\ eye'[e] = y /\ \A f \in Eyes \ {e} : eye'[f] = eye[f]
  BY <1>o DEF Aims
<1>1. CASE \E granted \in BOOLEAN : PermissionAnswered(e, granted)
  <2> PICK granted \in BOOLEAN : PermissionAnswered(e, granted)
      BY <1>1
  <2> DEFINE next == IF ~eye[e].mounted THEN "none" ELSE IF granted THEN "granted" ELSE "off"
             x == [eye[e] EXCEPT !.step = next]
  <2>1. /\ x \in Eye /\ Aims(eye[e], x)
        /\ MayHold(eye[e]) => MayHold(x)
        /\ MayListen(eye[e]) => MayListen(x)
    BY DEF Eye, Aims, MayHold, MayListen, PermissionAnswered
  <2>2. Aims(eye[e], Settled(x))
    BY <2>1, SettledType DEF Aims
  <2>3. /\ Only(Settled(x)) /\ lens' = lens
        /\ ears' = IF next = "granted" THEN {} ELSE ears
    BY DEF PermissionAnswered
  <2> HIDE DEF x, next
  <2>4. \A f \in Eyes : /\ MayHold(eye[f]) => MayHold(eye'[f])
                        /\ MayListen(eye[f]) => MayListen(eye'[f])
    BY <1>o, <2>1, <2>2, <2>3, SettledType
  <2> QED  BY <1>o, <2>1, <2>2, <2>3, <2>4, SettledType, HolderStays, ListenerStays
<1>2. CASE ListenersAdded(e)
  <2> DEFINE x == [eye[e] EXCEPT !.step = IF eye[e].mounted THEN "starting" ELSE "undoing"]
  <2>1. /\ x \in Eye /\ Aims(eye[e], x) /\ MayListen(x)
        /\ MayHold(eye[e]) => MayHold(x)
    BY <1>2 DEF Eye, Aims, MayHold, MayListen, ListenersAdded
  <2>2. Only(x) /\ lens' = lens /\ ears' = ears \cup {e}
    BY <1>2 DEF ListenersAdded
  <2> HIDE DEF x
  <2>3. \A f \in Eyes : MayHold(eye[f]) => MayHold(eye'[f])
    BY <1>o, <2>1, <2>2
  <2> QED  BY <1>o, <2>1, <2>2, <2>3, HolderStays
<1>3. CASE ListenersUndone(e)
  <2> DEFINE x == [eye[e] EXCEPT !.step = "none"]
  <2>1. /\ x \in Eye /\ Aims(eye[e], x)
        /\ MayHold(eye[e]) => MayHold(x)
    BY <1>3 DEF Eye, Aims, MayHold, ListenersUndone
  <2>2. Aims(eye[e], Settled(x))
    BY <2>1, SettledType DEF Aims
  <2>3. Only(Settled(x)) /\ lens' = lens /\ ears' = {}
    BY <1>3 DEF ListenersUndone
  <2> HIDE DEF x
  <2>4. \A f \in Eyes : MayHold(eye[f]) => MayHold(eye'[f])
    BY <1>o, <2>1, <2>2, <2>3, SettledType
  <2> QED  BY <1>o, <2>1, <2>2, <2>3, <2>4, SettledType, HolderStays
<1>4. CASE \E ok \in BOOLEAN : StartAnswered(e, ok)
  <2> PICK ok \in BOOLEAN : StartAnswered(e, ok)
      BY <1>4
  <2> DEFINE x == IF ok THEN Started(eye[e]) ELSE Balked(eye[e])
  <2>1. x \in Eye /\ Aims(eye[e], x) /\ MayHold(x) /\ MayListen(x)
    <3>1. eye[e] \in Eye /\ eye[e].step = "starting"
      BY DEF StartAnswered
    <3> QED  BY <3>1, StartedFits
  <2>2. Only(x) /\ ears' = ears /\ lens' \in BOOLEAN
    BY DEF StartAnswered
  <2> HIDE DEF x
  <2> QED  BY <1>o, <2>1, <2>2
<1>5. CASE EarsRemoved(e)
  <2> DEFINE x == [eye[e] EXCEPT !.hush = @ - 1, !.shut = @ + 1]
  <2>1. x \in Eye /\ Aims(eye[e], x) /\ MayHold(x)
    BY <1>5 DEF Eye, Aims, MayHold, EarsRemoved
  <2>2. Only(x) /\ ears' = {} /\ lens' = lens
    BY <1>5 DEF EarsRemoved
  <2> HIDE DEF x
  <2> QED  BY <1>o, <2>1, <2>2
<1>6. CASE LensStopped(e)
  <2> DEFINE x == [eye[e] EXCEPT !.shut = @ - 1]
  <2>1. /\ x \in Eye /\ Aims(eye[e], x)
        /\ MayListen(eye[e]) => MayListen(x)
    BY <1>6 DEF Eye, Aims, MayListen, LensStopped
  <2>2. Aims(eye[e], Settled(x))
    BY <2>1, SettledType DEF Aims
  <2>3. Only(Settled(x)) /\ ears' = ears /\ lens' = FALSE
    BY <1>6 DEF LensStopped
  <2> HIDE DEF x
  <2>4. \A f \in Eyes : MayListen(eye[f]) => MayListen(eye'[f])
    BY <1>o, <2>1, <2>2, <2>3, SettledType
  <2> QED  BY <1>o, <2>1, <2>2, <2>3, <2>4, SettledType, ListenerStays
<1> QED  BY <1>1, <1>2, <1>3, <1>4, <1>5, <1>6

LEMMA FreshFits ==
    ASSUME NEW aim \in Nat
    PROVE  Fresh(aim) \in Eye /\ Fresh(aim).mounted /\ Fresh(aim).aim = aim
<1>1. Gone \in Eye
  BY DEF Gone, Eye
<1>2. Fresh(aim) \in Eye
  BY <1>1 DEF Fresh, Eye
<1>3. Fresh(aim).mounted /\ Fresh(aim).aim = aim
  BY DEF Fresh, Gone
<1> QED  BY <1>2, <1>3

(* A commit takes on at most one fresh instance and lets the others go. *)
Handed(new, aim) ==
    \A e \in Eyes :
        \/ e \in new /\ eye'[e].mounted /\ eye'[e].aim = aim
        \/ ~eye'[e].mounted /\ eye'[e].aim \in {eye[e].aim, 0}

LEMMA RemountKeeps ==
    ASSUME CameraInv, NEW new, NEW aim \in Nat, NEW quiet \in BOOLEAN, Remount(new, aim, quiet)
    PROVE  CameraInv' /\ Handed(new, aim)
<1> USE DEF CameraInv, CameraType
<1>1. ASSUME NEW e \in Eyes
      PROVE  /\ eye'[e] \in Eye
             /\ MayHold(eye[e]) => MayHold(eye'[e])
             /\ MayListen(eye[e]) => MayListen(eye'[e])
             /\ \/ e \in new /\ eye'[e].mounted /\ eye'[e].aim = aim
                \/ ~eye'[e].mounted /\ eye'[e].aim \in {eye[e].aim, 0}
  <2>0. eye[e] \in Eye
    OBVIOUS
  <2>1. CASE e \in new
    <3>1. eye'[e] = Fresh(aim) /\ eye[e] = Gone
      BY <2>1 DEF Remount
    <3>2. Fresh(aim) \in Eye /\ Fresh(aim).mounted /\ Fresh(aim).aim = aim
      BY FreshFits
    <3>3. ~MayHold(Gone) /\ ~MayListen(Gone)
      BY DEF Gone, MayHold, MayListen
    <3> HIDE DEF MayHold, MayListen
    <3> QED  BY <2>1, <3>1, <3>2, <3>3
  <2>2. CASE e \notin new /\ eye[e].mounted
    <3> DEFINE x == Dismounted(eye[e], quiet)
    <3>1. eye'[e] = Settled(x)
      BY <2>2 DEF Remount, Unmounted, Dismounted
    <3>2. /\ x \in Eye /\ ~x.mounted /\ x.aim = eye[e].aim
          /\ MayHold(eye[e]) => MayHold(x)
          /\ MayListen(eye[e]) => MayListen(x)
      BY <2>0, DismountedFits
    <3> HIDE DEF x
    <3> QED  BY <3>1, <3>2, SettledType DEF Aims
  <2>3. CASE e \notin new /\ ~eye[e].mounted
    <3>1. eye'[e] = eye[e]
      BY <2>3 DEF Remount
    <3> QED  BY <2>0, <2>3, <3>1
  <2> QED  BY <2>1, <2>2, <2>3
<1>2. ears' = ears /\ lens' = lens /\ eye' \in [Eyes -> Eye]
  BY <1>1 DEF Remount
<1> QED  BY <1>1, <1>2, HolderStays, ListenerStays DEF Handed

LEMMA CameraInvShuts == CameraInv => EyeShut
  BY DEF CameraInv, EyeShut, MayHold, MayListen, Gone

-----------------------------------------------------------------------------
(* The sessions and the rows.                                              *)

DayType == [cameras: SUBSET Eyes, sessions: Nat, rows: Nat, moves: Nat, kills: Nat, sheets: Nat]
SessionType == [job: Jobs, dir: Dirs, at: Nat, expected: SUBSET Items]
RowType == [sess: Nat, job: Jobs, dir: Dirs, item: Items]

FloorType ==
    /\ day \in DayType
    /\ rows \in Seq(RowType)
    /\ log \in Seq(SessionType) /\ Len(log) <= day.sessions
    /\ out \in [Items -> Jobs \cup {NoJob}] /\ tag \in [Labels -> Items \cup {NoItem}]
    /\ open \subseteq Jobs
    /\ entry \in [Keys -> Nat]
    /\ current \in Keys \cup {NoKey} /\ lastDir \in [Jobs -> Dirs \cup {"none"}]
    /\ recorded \in [1..day.sessions -> SUBSET Items]

(* Of each job and direction at most one session is unfinished, and that   *)
(* is the one in memory.                                                   *)
Registered ==
    /\ finished \subseteq DOMAIN log
    /\ \A k \in Keys : entry[k] # 0 =>
          /\ entry[k] \in DOMAIN log /\ entry[k] \notin finished
          /\ log[entry[k]].job = k[1] /\ log[entry[k]].dir = k[2]
    /\ \A s \in DOMAIN log : s \notin finished => entry[<<log[s].job, log[s].dir>>] = s
    /\ \A s \in DOMAIN log : log[s].at <= Len(rows)
    /\ \A e \in Eyes : eye[e].aim = 0 \/ eye[e].aim \in DOMAIN log

(* Sessions whose object somebody still has: the registry, or a camera     *)
(* that was mounted with it.                                               *)
InHand(s) ==
    /\ s \in DOMAIN log
    /\ (\E k \in Keys : entry[k] = s) \/ (\E e \in Eyes : eye[e].aim = s)

RowsAgree ==
    /\ \A n \in DOMAIN rows : LET r == rows[n] IN
          r.sess \in DOMAIN log /\ r.job = log[r.sess].job /\ r.dir = log[r.sess].dir
    /\ \A m, n \in DOMAIN rows :
          rows[m].sess = rows[n].sess /\ rows[m].item = rows[n].item => m = n

(* What a session object remembers is what its rows say; later ones start  *)
(* with nothing.                                                           *)
Remembered ==
    /\ \A s \in DOMAIN log : InHand(s) => SessionScans(s) = recorded[s]
    /\ \A s \in 1..day.sessions : s > Len(log) => recorded[s] = {}

(* What is out on a return's job left after it began, or was promised to it *)
(* and has not come by it.                                                 *)
Awaited ==
    \A s \in DOMAIN log : log[s].dir = "in" =>
        \A i \in Items : out[i] = log[s].job =>
            LeftSince(i, log[s].at) \/ (i \in log[s].expected /\ i \notin SessionScans(s))

(* Each item is where its last row put it. *)
Newest(n) == \A m \in DOMAIN rows : m > n => rows[m].item # rows[n].item
Placed ==
    \A n \in DOMAIN rows : Newest(n) =>
        out[rows[n].item] = IF rows[n].dir = "out" THEN rows[n].job ELSE NoJob

FloorInv == CameraInv /\ FloorType /\ Registered /\ RowsAgree /\ Remembered /\ Awaited /\ Placed

LEMMA ScansOfSession ==
    \A s, i : i \in SessionScans(s) <=> \E n \in DOMAIN rows : rows[n].sess = s /\ rows[n].item = i
  BY DEF SessionScans

LEMMA ScansOfSessionNext ==
    \A s, i : i \in SessionScans(s)'
              <=> \E n \in DOMAIN rows' : rows'[n].sess = s /\ rows'[n].item = i
  BY DEF SessionScans

LEMMA KeysAreNot == NoKey \notin Keys
  BY FloorAssumption DEF NoKey, Keys

(* What the types say of a session and of a row. *)
LEMMA FloorFacts ==
    ASSUME FloorType
    PROVE  /\ Len(log) \in Nat /\ DOMAIN log = 1..Len(log) /\ DOMAIN log \subseteq 1..day.sessions
           /\ Len(rows) \in Nat /\ DOMAIN rows = 1..Len(rows)
           /\ day.sessions \in Nat
           /\ \A s \in DOMAIN log :
                 /\ s \in Nat /\ s # 0 /\ log[s] \in SessionType
                 /\ log[s].job \in Jobs /\ log[s].dir \in Dirs /\ log[s].at \in Nat
                 /\ log[s].job # NoJob
           /\ \A n \in DOMAIN rows : rows[n].item \in Items /\ rows[n].job \in Jobs
<1>1. /\ Len(log) \in Nat /\ DOMAIN log = 1..Len(log)
      /\ Len(rows) \in Nat /\ DOMAIN rows = 1..Len(rows)
      /\ \A s \in DOMAIN log : log[s] \in SessionType
      /\ \A n \in DOMAIN rows : rows[n] \in RowType
  BY DEF FloorType
<1>2. day.sessions \in Nat /\ Len(log) <= day.sessions
  BY DEF FloorType, DayType
<1>3. \A x \in SessionType : x.job \in Jobs /\ x.dir \in Dirs /\ x.at \in Nat
  BY DEF SessionType
<1>4. \A x \in RowType : x.item \in Items /\ x.job \in Jobs
  BY DEF RowType
<1>5. DOMAIN log \subseteq 1..day.sessions
  BY <1>1, <1>2
<1>6. \A s \in DOMAIN log : s \in Nat /\ s # 0
  BY <1>1
<1> HIDE DEF SessionType, RowType
<1> QED  BY <1>1, <1>2, <1>3, <1>4, <1>5, <1>6, FloorAssumption

-----------------------------------------------------------------------------
(* What a recording adds to the queue.                                     *)

LEMMA SetInOrder ==
    ASSUME NEW S, IsFiniteSet(S)
    PROVE  /\ Cardinality(S) \in Nat
           /\ SetToSeq(S) \in [1..Cardinality(S) -> S]
           /\ \A a, b \in 1..Cardinality(S) : SetToSeq(S)[a] = SetToSeq(S)[b] => a = b
           /\ \A x \in S : \E a \in 1..Cardinality(S) : SetToSeq(S)[a] = x
<1> DEFINE c == Cardinality(S)
           q == SetToSeq(S)
<1>1. c \in Nat /\ ExistsBijection(1..c, S)
  BY FS_CardinalityType
<1>2. \E f \in [1..c -> S] : IsInjective(f)
  BY <1>1 DEF ExistsBijection, Bijection, Injection
<1>3. q \in [1..c -> S] /\ IsInjective(q)
  BY <1>2 DEF SetToSeq
<1>4. q \in Injection(1..c, S)
  BY <1>3 DEF Injection
<1>5. Cardinality(1..c) = c
  BY <1>1, FS_Interval
<1>6. q \in Surjection(1..c, S)
  BY <1>4, <1>5, FS_Injection
<1> HIDE DEF q
<1>7. /\ \A a, b \in 1..c : q[a] = q[b] => a = b
      /\ \A x \in S : \E a \in 1..c : q[a] = x
  BY <1>3, <1>6 DEF IsInjective, Surjection
<1> QED  BY <1>1, <1>3, <1>7 DEF q

Beyond == DOMAIN rows' \ DOMAIN rows

LEMMA RecordAdds ==
    ASSUME FloorType, NEW s \in DOMAIN log, NEW new \in SUBSET Items, IsFiniteSet(new),
           RecordScans(s, new)
    PROVE  /\ rows' \in Seq(RowType) /\ DOMAIN rows \subseteq DOMAIN rows'
           /\ \A n \in DOMAIN rows : rows'[n] = rows[n]
           /\ \A n \in Beyond :
                 /\ n > Len(rows) /\ rows'[n].sess = s /\ rows'[n].item \in new \ recorded[s]
                 /\ rows'[n].job = log[s].job /\ rows'[n].dir = log[s].dir
           /\ \A i \in new \ recorded[s] : \E n \in Beyond : rows'[n].item = i
           /\ \A m, n \in Beyond : rows'[m].item = rows'[n].item => m = n
<1> DEFINE fresh == new \ recorded[s]
           c == Cardinality(fresh)
           q == SetToSeq(fresh)
           add == [n \in 1..c |-> Row(s, q[n])]
<1>1. IsFiniteSet(fresh) /\ fresh \subseteq Items
  BY FS_Subset
<1> HIDE DEF fresh
<1>2. /\ c \in Nat /\ q \in [1..c -> fresh]
      /\ \A a, b \in 1..c : q[a] = q[b] => a = b
      /\ \A x \in fresh : \E a \in 1..c : q[a] = x
  BY <1>1, SetInOrder
<1> HIDE DEF c, q
<1>3. s \in Nat /\ log[s] \in SessionType
  BY FloorFacts
<1>4. \A i \in Items : /\ Row(s, i) \in RowType
                       /\ Row(s, i).sess = s /\ Row(s, i).item = i
                       /\ Row(s, i).job = log[s].job /\ Row(s, i).dir = log[s].dir
  BY <1>3 DEF Row, RowType, SessionType
<1>5. add \in Seq(RowType) /\ Len(add) = c
  BY <1>1, <1>2, <1>4
<1>6. \A n \in 1..c : add[n] = Row(s, q[n]) /\ q[n] \in fresh
  BY <1>2
<1>7. rows' = rows \o add /\ rows \in Seq(RowType)
  BY DEF RecordScans, FloorType, fresh, c, q
<1> HIDE DEF add
<1>8. /\ rows' \in Seq(RowType) /\ Len(rows') = Len(rows) + c
      /\ \A n \in 1..Len(rows') :
            rows'[n] = IF n <= Len(rows) THEN rows[n] ELSE add[n - Len(rows)]
  <2>1. Len(rows) \in Nat /\ Len(add) \in Nat
    BY <1>5, <1>7
  <2>2. /\ rows \o add \in Seq(RowType) /\ Len(rows \o add) = Len(rows) + Len(add)
        /\ \A n \in 1..Len(rows) + Len(add) :
              (rows \o add)[n] = IF n <= Len(rows) THEN rows[n] ELSE add[n - Len(rows)]
    BY <1>5, <1>7, ConcatProperties
  <2> QED  BY <1>5, <1>7, <2>1, <2>2
<1>9. DOMAIN rows = 1..Len(rows) /\ DOMAIN rows' = 1..Len(rows') /\ Len(rows) \in Nat
  BY <1>7, <1>8
<1>10. ASSUME NEW n \in Beyond
       PROVE  /\ n - Len(rows) \in 1..c /\ rows'[n] = Row(s, q[n - Len(rows)])
              /\ n > Len(rows) /\ n \in Nat
  BY <1>2, <1>6, <1>8, <1>9 DEF Beyond
<1>11. \A a \in 1..c : Len(rows) + a \in Beyond /\ rows'[Len(rows) + a] = Row(s, q[a])
  BY <1>2, <1>6, <1>8, <1>9 DEF Beyond
<1>12. \A n \in Beyond :
          /\ n > Len(rows) /\ rows'[n].sess = s /\ rows'[n].item \in fresh
          /\ rows'[n].job = log[s].job /\ rows'[n].dir = log[s].dir
          /\ rows'[n].item = q[n - Len(rows)]
  BY <1>1, <1>4, <1>6, <1>10
<1>13. \A i \in fresh : \E n \in Beyond : rows'[n].item = i
  <2> TAKE i \in fresh
  <2> PICK a \in 1..c : q[a] = i
      BY <1>2
  <2> QED  BY <1>1, <1>4, <1>11
<1>14. \A m, n \in Beyond : rows'[m].item = rows'[n].item => m = n
  <2> TAKE m, n \in Beyond
  <2> HAVE rows'[m].item = rows'[n].item
  <2>1. m - Len(rows) = n - Len(rows)
    BY <1>2, <1>10, <1>12
  <2> QED  BY <1>9, <1>10, <2>1
<1>15. DOMAIN rows \subseteq DOMAIN rows' /\ \A n \in DOMAIN rows : rows'[n] = rows[n]
  BY <1>2, <1>8, <1>9
<1> QED  BY <1>8, <1>12, <1>13, <1>14, <1>15 DEF fresh

LEMMA RecordKeeps ==
    ASSUME FloorInv, CameraInv', NEW s, InHand(s), NEW new \in SUBSET Items, IsFiniteSet(new),
           RecordScans(s, new), UNCHANGED <<cameraVars, registryVars, storedVars, day>>
    PROVE  FloorInv'
<1> USE DEF FloorInv
<1>0. s \in DOMAIN log /\ s \in 1..day.sessions /\ log[s] \in SessionType
  BY FloorFacts DEF InHand
<1> DEFINE fresh == new \ recorded[s]
<1>1. /\ rows' \in Seq(RowType) /\ DOMAIN rows \subseteq DOMAIN rows'
      /\ \A n \in DOMAIN rows : rows'[n] = rows[n]
      /\ \A n \in Beyond :
            /\ n > Len(rows) /\ rows'[n].sess = s /\ rows'[n].item \in fresh
            /\ rows'[n].job = log[s].job /\ rows'[n].dir = log[s].dir
      /\ \A i \in fresh : \E n \in Beyond : rows'[n].item = i
      /\ \A m, n \in Beyond : rows'[m].item = rows'[n].item => m = n
  BY <1>0, RecordAdds
<1>2. UNCHANGED <<log, entry, finished, eye, day, tag, open, current, lastDir>>
  BY DEF cameraVars, registryVars, storedVars
<1>3. /\ out' = [i \in Items |-> IF i \notin fresh THEN out[i]
                                  ELSE IF log[s].dir = "out" THEN log[s].job ELSE NoJob]
      /\ recorded' = [recorded EXCEPT ![s] = @ \cup new]
  BY DEF RecordScans
<1>4. log[s].job \in Jobs /\ log[s].dir \in Dirs /\ NoJob \notin Jobs
  BY <1>0, FloorAssumption DEF SessionType
<1>5. DOMAIN rows = 1..Len(rows) /\ DOMAIN rows' = 1..Len(rows') /\ Len(rows) <= Len(rows')
      /\ Len(rows) \in Nat /\ Len(rows') \in Nat
  BY <1>1 DEF FloorType
<1>6. DOMAIN rows' = DOMAIN rows \cup Beyond /\ DOMAIN rows \cap Beyond = {}
  BY <1>1 DEF Beyond
<1>7. FloorType'
  <2>1. recorded' \in [1..day.sessions -> SUBSET Items]
    BY <1>3 DEF FloorType
  <2>2. out' \in [Items -> Jobs \cup {NoJob}]
    BY <1>3, <1>4 DEF FloorType
  <2> QED  BY <1>1, <1>2, <2>1, <2>2 DEF FloorType
<1>8. Registered'
  <2>1. \A x \in DOMAIN log : log[x].at \in Nat /\ log[x].at <= Len(rows)
    BY FloorFacts DEF Registered
  <2>2. \A x \in DOMAIN log : log[x].at <= Len(rows')
    BY <1>5, <2>1
  <2> QED  BY <1>2, <2>2 DEF Registered
<1>9. SessionScans(s) = recorded[s]
  BY <1>0 DEF Remembered
<1>10. RowsAgree'
  <2>1. \A n \in DOMAIN rows' : LET r == rows'[n] IN
           r.sess \in DOMAIN log /\ r.job = log[r.sess].job /\ r.dir = log[r.sess].dir
    BY <1>0, <1>1, <1>6 DEF RowsAgree
  <2>2. ASSUME NEW m \in DOMAIN rows', NEW n \in DOMAIN rows',
               rows'[m].sess = rows'[n].sess, rows'[m].item = rows'[n].item
        PROVE  m = n
    <3>1. CASE m \in DOMAIN rows /\ n \in DOMAIN rows
      BY <1>1, <2>2, <3>1 DEF RowsAgree
    <3>2. ASSUME NEW x \in DOMAIN rows, NEW y \in Beyond
          PROVE  ~(rows'[x].sess = rows'[y].sess /\ rows'[x].item = rows'[y].item)
      BY <1>1, <1>9, ScansOfSession
    <3>3. CASE m \in Beyond /\ n \in Beyond
      BY <1>1, <2>2, <3>3
    <3> QED  BY <1>6, <2>2, <3>1, <3>2, <3>3
  <2> QED  BY <1>2, <2>1, <2>2 DEF RowsAgree
<1>11. \A x, i : i \in SessionScans(x)'
                 <=> i \in SessionScans(x) \/ (x = s /\ i \in fresh)
  <2> TAKE x, i
  <2>1. ASSUME i \in SessionScans(x)'
        PROVE  i \in SessionScans(x) \/ (x = s /\ i \in fresh)
    <3> PICK n \in DOMAIN rows' : rows'[n].sess = x /\ rows'[n].item = i
        BY <2>1, ScansOfSessionNext
    <3> QED  BY <1>1, <1>6, ScansOfSession
  <2>2. ASSUME i \in SessionScans(x)
        PROVE  i \in SessionScans(x)'
    <3> PICK n \in DOMAIN rows : rows[n].sess = x /\ rows[n].item = i
        BY <2>2, ScansOfSession
    <3> QED  BY <1>1, <1>6, ScansOfSessionNext
  <2>3. ASSUME x = s, i \in fresh
        PROVE  i \in SessionScans(x)'
    BY <1>1, <1>6, <2>3, ScansOfSessionNext
  <2> QED  BY <2>1, <2>2, <2>3
<1>12. Remembered'
  <2>1. ASSUME NEW x \in DOMAIN log, InHand(x)
        PROVE  SessionScans(x)' = recorded'[x]
    <3>1. SessionScans(x) = recorded[x] /\ x \in 1..day.sessions
      BY <2>1, FloorFacts DEF Remembered
    <3>2. CASE x = s
      <4>1. recorded'[x] = recorded[s] \cup new
        BY <1>3, <3>1, <3>2 DEF FloorType
      <4> QED  BY <1>11, <3>1, <3>2, <4>1
    <3>3. CASE x # s
      <4>1. recorded'[x] = recorded[x]
        BY <1>3, <3>1, <3>3 DEF FloorType
      <4> QED  BY <1>11, <3>1, <3>3, <4>1
    <3> QED  BY <3>2, <3>3
  <2>2. \A x : InHand(x)' <=> InHand(x)
    BY <1>2 DEF InHand
  <2>3. \A x \in 1..day.sessions : x > Len(log) => recorded'[x] = recorded[x]
    BY <1>0, <1>3 DEF FloorType
  <2> QED  BY <1>2, <2>1, <2>2, <2>3 DEF Remembered
<1>13. Awaited'
  <2> SUFFICES ASSUME NEW x \in DOMAIN log, log[x].dir = "in",
                      NEW i \in Items, out'[i] = log[x].job
               PROVE  LeftSince(i, log[x].at)' \/ (i \in log[x].expected /\ i \notin SessionScans(x)')
      BY <1>2, Zenon DEF Awaited
  <2>1. log[x].job \in Jobs /\ log[x].at \in Nat /\ log[x].at <= Len(rows)
    BY FloorFacts DEF Registered
  <2>2. CASE i \notin fresh
    <3>1. out[i] = log[x].job
      BY <1>3, <2>2
    <3>2. LeftSince(i, log[x].at) \/ (i \in log[x].expected /\ i \notin SessionScans(x))
      BY <3>1 DEF Awaited
    <3>3. LeftSince(i, log[x].at) => LeftSince(i, log[x].at)'
      BY <1>1, <1>2, <1>6 DEF LeftSince
    <3> QED  BY <1>11, <2>2, <3>2, <3>3
  <2>3. CASE i \in fresh
    <3>1. log[s].dir = "out"
      BY <1>3, <1>4, <2>1, <2>3
    <3> PICK n \in Beyond : rows'[n].item = i
        BY <1>1, <2>3
    <3>2. rows'[n].dir = "out" /\ n \in DOMAIN rows' /\ n > Len(rows)
      BY <1>1, <1>6, <3>1
    <3>3. n \in Nat
      BY <1>5, <3>2
    <3>4. n > log[x].at
      BY <1>5, <2>1, <3>2, <3>3
    <3>5. LeftSince(i, log[x].at)'
      BY <1>2, <3>2, <3>4 DEF LeftSince
    <3> QED  BY <3>5
  <2> QED  BY <2>2, <2>3
<1>14. Placed'
  <2> SUFFICES ASSUME NEW n \in DOMAIN rows', Newest(n)'
               PROVE  out'[rows'[n].item] = IF rows'[n].dir = "out" THEN rows'[n].job ELSE NoJob
      BY Zenon DEF Placed
  <2>1. CASE n \in Beyond
    BY <1>1, <1>3, <2>1
  <2>2. CASE n \in DOMAIN rows
    <3>1. rows'[n] = rows[n] /\ rows[n].item \in Items
      BY <1>1, <2>2, FloorFacts
    <3>2. rows[n].item \notin fresh
      <4> SUFFICES ASSUME rows[n].item \in fresh PROVE FALSE
          OBVIOUS
      <4> PICK m \in Beyond : rows'[m].item = rows[n].item
          BY <1>1
      <4>1. m > n /\ m \in DOMAIN rows'
        BY <1>1, <1>5, <1>6, <2>2
      <4> QED  BY <3>1, <4>1 DEF Newest
    <3>3. Newest(n)
      BY <1>1, <1>6, <3>1 DEF Newest
    <3> QED  BY <1>3, <2>2, <3>1, <3>2, <3>3 DEF Placed
  <2> QED  BY <1>6, <2>1, <2>2
<1> QED  BY <1>7, <1>8, <1>10, <1>12, <1>13, <1>14
-----------------------------------------------------------------------------
(* The other ways the sessions and the rows change.                        *)

(* Each move, kill and sheet is taken off what the day allows. *)
LEMMA DayTicks ==
    ASSUME day \in DayType
    PROVE  /\ day.kills > 0 => LET d == [day EXCEPT !.kills = day.kills - 1] IN
                 d \in DayType /\ d.sessions = day.sessions
           /\ day.moves > 0 => LET d == [day EXCEPT !.moves = day.moves - 1] IN
                 d \in DayType /\ d.sessions = day.sessions
           /\ day.sheets > 0 => LET d == [day EXCEPT !.sheets = day.sheets - 1] IN
                 d \in DayType /\ d.sessions = day.sessions
<1>1. \A n \in Nat : /\ [day EXCEPT !.kills = n] \in DayType
                     /\ [day EXCEPT !.moves = n] \in DayType
                     /\ [day EXCEPT !.sheets = n] \in DayType
                     /\ [day EXCEPT !.kills = n].sessions = day.sessions
                     /\ [day EXCEPT !.moves = n].sessions = day.sessions
                     /\ [day EXCEPT !.sheets = n].sessions = day.sessions
  BY DEF DayType
<1>2. day.kills \in Nat /\ day.moves \in Nat /\ day.sheets \in Nat
  BY DEF DayType
<1>3. /\ day.kills > 0 => day.kills - 1 \in Nat
      /\ day.moves > 0 => day.moves - 1 \in Nat
      /\ day.sheets > 0 => day.sheets - 1 \in Nat
  BY <1>2
<1> QED  BY <1>1, <1>3, Zenon

(* What no step but a few touches, whatever happens to the screens. *)
Outside ==
    /\ day' \in DayType /\ day'.sessions = day.sessions
    /\ tag' \in [Labels -> Items \cup {NoItem}] /\ open' \subseteq Jobs
    /\ current' \in Keys \cup {NoKey} /\ lastDir' \in [Jobs -> Dirs \cup {"none"}]

LEMMA FrameKeeps ==
    ASSUME FloorInv, CameraInv', Outside, UNCHANGED <<rows, log, out, entry, recorded, finished>>,
           \A e \in Eyes : \/ eye'[e].aim \in {eye[e].aim, 0}
                           \/ \E k \in Keys : eye'[e].aim = entry[k]
    PROVE  FloorInv'
<1> USE DEF FloorInv
<1>1. FloorType'
  BY DEF FloorType, Outside
<1>2. Registered'
  BY DEF Registered
<1>3. RowsAgree'
  BY DEF RowsAgree
<1>4. \A s \in DOMAIN log : InHand(s)' => InHand(s)
  <2> SUFFICES ASSUME NEW s \in DOMAIN log, InHand(s)', \A k \in Keys : entry[k] # s
               PROVE  \E e \in Eyes : eye[e].aim = s
      BY DEF InHand
  <2>1. s # 0
    BY FloorFacts
  <2> PICK e \in Eyes : eye'[e].aim = s
      BY DEF InHand
  <2> QED  BY <2>1
<1>5. Remembered'
  BY <1>4 DEF Remembered, SessionScans, Outside
<1>6. Awaited'
  BY DEF Awaited, LeftSince, SessionScans
<1>7. Placed'
  BY DEF Placed, Newest
<1> QED  BY <1>1, <1>2, <1>3, <1>5, <1>6, <1>7

(* A session opened for the first time. *)
LEMMA StartKeeps ==
    ASSUME FloorInv, CameraInv', Outside, NEW k \in Keys, entry[k] = 0, Len(log) < day.sessions,
           log' = Append(log, SessionStart(k)), entry' = [entry EXCEPT ![k] = Len(log')],
           UNCHANGED <<rows, out, recorded, finished>>,
           \A e \in Eyes : eye'[e].aim \in {eye[e].aim, 0, entry'[k]}
    PROVE  FloorInv'
<1> USE DEF FloorInv
<1> PICK N \in Nat : N = Len(log) + 1
    BY FloorFacts
<1>1. /\ Len(log) \in Nat /\ DOMAIN log = 1..Len(log) /\ N \notin DOMAIN log /\ N \in 1..day.sessions
      /\ DOMAIN rows = 1..Len(rows) /\ Len(rows) \in Nat /\ day.sessions \in Nat
  BY FloorFacts
<1>2. k[1] \in Jobs /\ k[2] \in Dirs /\ k = <<k[1], k[2]>>
  BY DEF Keys
<1>3. /\ SessionStart(k) \in SessionType
      /\ SessionStart(k).job = k[1] /\ SessionStart(k).dir = k[2]
      /\ SessionStart(k).at = Len(rows)
      /\ SessionStart(k).expected = ExpectedFor(k[1], k[2])
  <2>1. ExpectedFor(k[1], k[2]) \in SUBSET Items
    BY FloorAssumption DEF ExpectedFor, OutOn
  <2> QED  BY <1>1, <1>2, <2>1 DEF SessionStart, SessionType
<1>4. /\ log' \in Seq(SessionType) /\ Len(log') = N /\ DOMAIN log' = DOMAIN log \cup {N}
      /\ \A s \in DOMAIN log : log'[s] = log[s]
      /\ log'[N] = SessionStart(k)
  <2>1. log \in Seq(SessionType)
    BY DEF FloorType
  <2> QED  BY <1>1, <1>3, <2>1, AppendProperties
<1>5. /\ entry' \in [Keys -> Nat] /\ entry'[k] = N
      /\ \A j \in Keys : j # k => entry'[j] = entry[j]
  BY <1>4 DEF FloorType
<1>6. \A s \in DOMAIN log : s \in Nat /\ s # 0 /\ s # N
  BY <1>1
<1>7. FloorType'
  BY <1>1, <1>4, <1>5 DEF FloorType, Outside
<1>8. Registered'
  <2>1. finished' \subseteq DOMAIN log' /\ N \notin finished'
    BY <1>1, <1>4 DEF Registered
  <2>2. \A j \in Keys : entry'[j] # 0 =>
           /\ entry'[j] \in DOMAIN log' /\ entry'[j] \notin finished'
           /\ log'[entry'[j]].job = j[1] /\ log'[entry'[j]].dir = j[2]
    BY <1>3, <1>4, <1>5, <2>1 DEF Registered
  <2>3. ASSUME NEW s \in DOMAIN log', s \notin finished'
        PROVE  entry'[<<log'[s].job, log'[s].dir>>] = s
    <3>1. CASE s = N
      BY <1>2, <1>3, <1>4, <1>5, <3>1
    <3>2. CASE s \in DOMAIN log
      <4>1. entry[<<log[s].job, log[s].dir>>] = s /\ <<log[s].job, log[s].dir>> \in Keys
        BY <2>3, <3>2, FloorFacts DEF Registered, Keys
      <4> QED  BY <1>4, <1>5, <1>6, <3>2, <4>1
    <3> QED  BY <1>4, <3>1, <3>2
  <2>4. \A s \in DOMAIN log' : log'[s].at <= Len(rows')
    BY <1>1, <1>3, <1>4 DEF Registered
  <2>5. \A e \in Eyes : eye'[e].aim = 0 \/ eye'[e].aim \in DOMAIN log'
    BY <1>4, <1>5 DEF Registered
  <2> QED  BY <2>1, <2>2, <2>3, <2>4, <2>5 DEF Registered
<1>9. RowsAgree'
  BY <1>4 DEF RowsAgree
<1>10. SessionScans(N) = {}
  BY <1>1 DEF SessionScans, RowsAgree
<1>11. \A s : SessionScans(s)' = SessionScans(s)
  BY DEF SessionScans
<1>12. Remembered'
  <2>1. ASSUME NEW s \in DOMAIN log', InHand(s)'
        PROVE  SessionScans(s) = recorded[s]
    <3>1. CASE s = N
      <4>1. recorded[N] = {}
        BY <1>1 DEF Remembered
      <4> QED  BY <1>10, <3>1, <4>1
    <3>2. CASE s \in DOMAIN log
      <4>1. ASSUME NEW j \in Keys, entry'[j] = s
            PROVE  InHand(s)
        BY <1>5, <1>6, <3>2, <4>1 DEF InHand
      <4>2. ASSUME NEW e \in Eyes, eye'[e].aim = s
            PROVE  InHand(s)
        BY <1>5, <1>6, <3>2, <4>2 DEF InHand
      <4> QED  BY <2>1, <3>2, <4>1, <4>2 DEF InHand, Remembered
    <3> QED  BY <1>4, <3>1, <3>2
  <2>2. \A s \in 1..day.sessions : s > N => recorded[s] = {}
    BY <1>1 DEF Remembered
  <2> QED  BY <1>4, <1>11, <2>1, <2>2 DEF Remembered, Outside
<1>13. Awaited'
  <2> SUFFICES ASSUME NEW s \in DOMAIN log', log'[s].dir = "in", NEW i \in Items,
                      out[i] = log'[s].job
               PROVE  LeftSince(i, log'[s].at) \/ (i \in log'[s].expected /\ i \notin SessionScans(s))
      BY <1>11, Zenon DEF Awaited, LeftSince
  <2>1. CASE s = N
    <3>1. i \in ExpectedFor(k[1], k[2])
      BY <1>3, <1>4, <2>1 DEF ExpectedFor, OutOn
    <3> QED  BY <1>3, <1>4, <1>10, <2>1, <3>1
  <2>2. CASE s \in DOMAIN log
    BY <1>4, <2>2 DEF Awaited
  <2> QED  BY <1>4, <2>1, <2>2
<1>14. Placed'
  BY DEF Placed, Newest
<1> QED  BY <1>7, <1>8, <1>9, <1>12, <1>13, <1>14

(* A session completed: it leaves memory as it is finished. *)
LEMMA EndKeeps ==
    ASSUME FloorInv, CameraInv', Outside, EndSession, UNCHANGED <<rows, log, out, recorded>>,
           \A e \in Eyes : eye'[e].aim \in {eye[e].aim, 0}
    PROVE  FloorInv'
<1> USE DEF FloorInv
<1>1. /\ entry' = [k \in Keys |-> IF k = current THEN 0 ELSE entry[k]]
      /\ finished' = finished \cup ({CurrentSession} \ {0})
  BY DEF EndSession, WithoutCurrent
<1>2. /\ current \in Keys => CurrentSession = entry[current]
      /\ current \notin Keys => CurrentSession = 0
  BY KeysAreNot DEF CurrentSession, FloorType
<1>3. FloorType'
  BY <1>1 DEF FloorType, Outside
<1>4. Registered'
  <2>1. finished' \subseteq DOMAIN log
    BY <1>1, <1>2 DEF Registered
  <2>2. ASSUME NEW k \in Keys, entry'[k] # 0
        PROVE  /\ entry'[k] = entry[k] /\ entry[k] # 0 /\ k # current /\ entry[k] \notin finished'
    <3>1. entry'[k] = entry[k] /\ entry[k] # 0 /\ k # current /\ entry[k] \notin finished
      BY <1>1, <2>2 DEF Registered
    <3>2. entry[k] # CurrentSession
      <4> SUFFICES ASSUME entry[k] = CurrentSession PROVE FALSE
          OBVIOUS
      <4>1. current \in Keys /\ entry[current] = entry[k]
        BY <1>2, <3>1
      <4>2. k = <<k[1], k[2]>> /\ current = <<current[1], current[2]>>
        BY <4>1 DEF Keys
      <4>3. /\ log[entry[k]].job = k[1] /\ log[entry[k]].dir = k[2]
            /\ log[entry[k]].job = current[1] /\ log[entry[k]].dir = current[2]
        BY <3>1, <4>1 DEF Registered
      <4> QED  BY <3>1, <4>2, <4>3
    <3> QED  BY <1>1, <3>1, <3>2
  <2>3. ASSUME NEW s \in DOMAIN log, s \notin finished'
        PROVE  entry'[<<log[s].job, log[s].dir>>] = s
    <3>1. s \notin finished /\ s # CurrentSession
      BY <1>1, <2>3, FloorFacts
    <3>2. entry[<<log[s].job, log[s].dir>>] = s /\ <<log[s].job, log[s].dir>> \in Keys
      BY <3>1, FloorFacts DEF Registered, Keys
    <3> QED  BY <1>1, <1>2, <3>1, <3>2
  <2>4. \A e \in Eyes : eye'[e].aim = 0 \/ eye'[e].aim \in DOMAIN log
    BY DEF Registered
  <2> QED  BY <2>1, <2>2, <2>3, <2>4 DEF Registered
<1>5. RowsAgree'
  BY DEF RowsAgree
<1>6. ASSUME NEW s \in DOMAIN log, InHand(s)'
      PROVE  InHand(s)
  <2>0. s # 0
    BY FloorFacts
  <2>1. ASSUME NEW k \in Keys, entry'[k] = s
        PROVE  entry[k] = s
    BY <1>1, <2>0, <2>1
  <2> QED  BY <1>6, <2>0, <2>1 DEF InHand
<1>7. Remembered'
  BY <1>6 DEF Remembered, SessionScans, Outside
<1>8. Awaited'
  BY DEF Awaited, LeftSince, SessionScans
<1>9. Placed'
  BY DEF Placed, Newest
<1> QED  BY <1>3, <1>4, <1>5, <1>7, <1>8, <1>9

(* A kill: memory is gone and with it every session not completed. *)
LEMMA RestartKeeps ==
    ASSUME FloorInv, Relaunch
    PROVE  FloorInv'
<1> USE DEF FloorInv
<1>1. /\ entry' = [k \in Keys |-> 0]
      /\ finished' = finished \cup ({entry[k] : k \in Keys} \ {0})
      /\ recorded' = [s \in 1..day.sessions |-> {}]
      /\ eye' = [e \in Eyes |-> Gone]
      /\ UNCHANGED <<rows, out, log, tag, open>>
  BY DEF Relaunch
<1>2. Gone \in Eye /\ Gone.aim = 0
  BY DEF Gone, Eye
<1>3. CameraInv'
  <2>1. ears' = {} /\ lens' = FALSE
    BY DEF Relaunch
  <2> QED  BY <1>1, <1>2, <2>1 DEF CameraInv, CameraType
<1>4. day' \in DayType /\ day'.sessions = day.sessions
  <2>1. day \in DayType /\ day.kills > 0 /\ day' = [day EXCEPT !.kills = day.kills - 1]
    BY DEF Relaunch, FloorType
  <2> QED  BY <2>1, DayTicks
<1>5. FloorType'
  <2>1. /\ current' \in Keys \cup {NoKey} /\ lastDir' \in [Jobs -> Dirs \cup {"none"}]
    BY DEF Relaunch
  <2> QED  BY <1>1, <1>4, <2>1 DEF FloorType
<1>6. Registered'
  <2>1. finished' \subseteq DOMAIN log
    BY <1>1 DEF Registered
  <2>2. ASSUME NEW s \in DOMAIN log, s \notin finished
        PROVE  s \in finished'
    <3>1. <<log[s].job, log[s].dir>> \in Keys /\ s # 0
      BY FloorFacts DEF Keys
    <3>2. entry[<<log[s].job, log[s].dir>>] = s
      BY <2>2 DEF Registered
    <3> QED  BY <1>1, <3>1, <3>2
  <2> QED  BY <1>1, <1>2, <2>1, <2>2 DEF Registered
<1>7. RowsAgree'
  BY <1>1 DEF RowsAgree
<1>8. \A s \in DOMAIN log : ~InHand(s)'
  BY <1>1, <1>2, FloorFacts DEF InHand
<1>9. Remembered'
  BY <1>1, <1>4, <1>8 DEF Remembered
<1>10. Awaited'
  BY <1>1 DEF Awaited, LeftSince, SessionScans
<1>11. Placed'
  BY <1>1 DEF Placed, Newest
<1> QED  BY <1>3, <1>5, <1>6, <1>7, <1>9, <1>10, <1>11

-----------------------------------------------------------------------------
(* The screens: what is shown is what the registry holds.                  *)

Views == Still \cup {Lookup} \cup {ScanView(k) : k \in Keys}

(* The scan screen shows the entry opened last, which is its job's latest. *)
Shown ==
    /\ view \in Views
    /\ OnScan => /\ KeyOf(view) \in Keys /\ current = KeyOf(view)
                 /\ lastDir[view.job] = view.dir /\ entry[current] # 0

(* A mounted camera aims at what its screen shows. *)
Aimed ==
    \A e \in Eyes : eye[e].mounted =>
        (OnScan /\ eye[e].aim = entry[KeyOf(view)]) \/ (view = Lookup /\ eye[e].aim = 0)

(* Sheets, and photos whose screen still stands, belong to the screen shown. *)
Covered ==
    /\ sheet # NoSheet => OnScan
    /\ shot.here => OnScan /\ shot.key = KeyOf(view)
    /\ \A p \in photos : p.here => p.filed = p.taken

ViewInv == Shown /\ Aimed /\ Covered

LEMMA ViewNames ==
    /\ \A k : ScanView(k).name = "scan" /\ ScanView(k).job = k[1] /\ ScanView(k).dir = k[2]
    /\ \A k \in Keys : k = <<k[1], k[2]>> /\ k[1] \in Jobs /\ k[2] \in Dirs
    /\ \A j : Card(j).name = "session" /\ Card(j).job = j
    /\ \A v \in Still : v.name # "scan" /\ v # Lookup /\ (v.name = "session" => v.job \in Jobs)
    /\ Lookup.name = "lookup" /\ Home.name = "jobs" /\ Elsewhere.name = "elsewhere"
  BY DEF ScanView, Keys, Card, Still, Lookup, Home, Elsewhere

LEMMA FloorStarts == FloorInit => FloorInv /\ ViewInv
<1> SUFFICES ASSUME FloorInit PROVE FloorInv /\ ViewInv
    OBVIOUS
<1>1. /\ rows = <<>> /\ log = <<>> /\ finished = {} /\ photos = {}
      /\ entry = [k \in Keys |-> 0] /\ current = NoKey /\ lastDir = [j \in Jobs |-> "none"]
      /\ recorded = [s \in 1..day.sessions |-> {}]
      /\ view = Home /\ sheet = NoSheet /\ shot = NoShot
      /\ tag = Stuck /\ open = Jobs /\ eye = [e \in Eyes |-> Gone]
      /\ DOMAIN rows = {} /\ DOMAIN log = {} /\ Len(log) = 0
  BY DEF FloorInit, CameraInit
<1>2. CameraInv
  BY CameraStarts DEF FloorInit
<1>3. day \in DayType /\ day.sessions \in Nat
  BY FloorAssumption DEF FloorInit, DayType
<1>4. out \in [Items -> Jobs \cup {NoJob}]
  BY DEF FloorInit
<1>5. FloorType
  BY <1>1, <1>3, <1>4, FloorAssumption DEF FloorType
<1>6. Registered /\ RowsAgree /\ Remembered /\ Awaited /\ Placed
  BY <1>1 DEF Registered, RowsAgree, Remembered, InHand, Awaited, Placed, Gone
<1>7. ViewInv
  <2>1. ~OnScan /\ view \in Views
    BY <1>1, ViewNames DEF OnScan, Views, Still
  <2>2. \A e \in Eyes : ~eye[e].mounted
    BY <1>1 DEF Gone
  <2>3. sheet = NoSheet /\ ~shot.here
    BY <1>1 DEF NoShot
  <2> QED  BY <1>1, <2>1, <2>2, <2>3 DEF ViewInv, Shown, Aimed, Covered
<1> QED  BY <1>2, <1>5, <1>6, <1>7 DEF FloorInv

(* A commit: the screen left takes its sheet, its cameras and its claim on *)
(* a photo with it.                                                        *)
LEMMA LeaveKeeps ==
    ASSUME FloorInv, ViewInv, NEW v \in Views, NEW new, NEW aim \in Nat, Leave(v, new, aim),
           UNCHANGED photos,
           v.name = "scan" => /\ KeyOf(v) \in Keys /\ current' = KeyOf(v)
                              /\ lastDir'[v.job] = v.dir
                              /\ entry'[KeyOf(v)] # 0 /\ aim = entry'[KeyOf(v)],
           new # {} => v.name = "scan" \/ (v = Lookup /\ aim = 0)
    PROVE  /\ CameraInv' /\ ViewInv' /\ day' \in DayType /\ day'.sessions = day.sessions
           /\ \A e \in Eyes : eye'[e].aim \in {eye[e].aim, 0, aim}
           /\ new = {} => \A e \in Eyes : eye'[e].aim \in {eye[e].aim, 0}
<1>1. /\ view' = v /\ sheet' = NoSheet /\ ~shot'.here
      /\ Remount(new, aim, sheet.kind # "none")
      /\ day.moves > 0 /\ day' = [day EXCEPT !.moves = day.moves - 1]
  <2>1. shot' = [shot EXCEPT !.here = FALSE] /\ (~shot.here \/ shot.here)
    BY DEF Leave
  <2>2. shot'.here => shot.here
    BY <2>1
  <2> QED  BY <2>1, <2>2 DEF Leave
<1>2. CameraInv' /\ Handed(new, aim)
  BY <1>1, RemountKeeps DEF FloorInv
<1>3. day' \in DayType /\ day'.sessions = day.sessions
  BY <1>1, DayTicks DEF FloorInv, FloorType
<1>4. OnScan' <=> v.name = "scan"
  BY <1>1 DEF OnScan
<1>5. KeyOf(view)' = KeyOf(v)
  BY <1>1 DEF KeyOf
<1>6. Shown'
  BY <1>1, <1>4, <1>5 DEF Shown
<1>7. Aimed'
  <2> SUFFICES ASSUME NEW e \in Eyes, eye'[e].mounted
               PROVE  \/ v.name = "scan" /\ eye'[e].aim = entry'[KeyOf(v)]
                      \/ v = Lookup /\ eye'[e].aim = 0
      BY <1>1, <1>4, <1>5 DEF Aimed
  <2>1. e \in new /\ eye'[e].aim = aim
    BY <1>2 DEF Handed
  <2> QED  BY <2>1
<1>8. Covered'
  BY <1>1 DEF Covered, ViewInv
<1> QED  BY <1>2, <1>3, <1>6, <1>7, <1>8 DEF ViewInv, Handed

FloorKept == FloorInv' /\ ViewInv'

LEMMA ToStillKeeps ==
    ASSUME FloorInv, ViewInv, NEW v \in Still, ToStill(v)
    PROVE  FloorKept
<1>1. /\ Leave(v, {}, 0) /\ v \in Views /\ v.name # "scan"
      /\ UNCHANGED <<registryVars, queueVars, storedVars>>
  BY ViewNames DEF ToStill, Views
<1>2. UNCHANGED <<entry, current, lastDir, rows, out, recorded, log, tag, open, photos, finished>>
  BY <1>1 DEF registryVars, queueVars, storedVars
<1>3. /\ CameraInv' /\ ViewInv' /\ day' \in DayType /\ day'.sessions = day.sessions
      /\ \A e \in Eyes : eye'[e].aim \in {eye[e].aim, 0}
  BY <1>1, <1>2, LeaveKeeps
<1>4. Outside
  BY <1>2, <1>3 DEF Outside, FloorInv, FloorType
<1> QED  BY <1>2, <1>3, <1>4, FrameKeeps DEF FloorKept

LEMMA ToLookupKeeps ==
    ASSUME FloorInv, ViewInv, ToLookup
    PROVE  FloorKept
<1> PICK new \in Cameras : Leave(Lookup, new, 0)
    BY DEF ToLookup
<1>1. Lookup \in Views /\ Lookup.name # "scan"
  BY ViewNames DEF Views
<1>2. UNCHANGED <<entry, current, lastDir, rows, out, recorded, log, tag, open, photos, finished>>
  BY DEF ToLookup, registryVars, queueVars, storedVars
<1>3. /\ CameraInv' /\ ViewInv' /\ day' \in DayType /\ day'.sessions = day.sessions
      /\ \A e \in Eyes : eye'[e].aim \in {eye[e].aim, 0}
  <2>1. 0 \in Nat
    OBVIOUS
  <2> QED  BY <1>1, <1>2, <2>1, LeaveKeeps
<1>4. Outside
  BY <1>2, <1>3 DEF Outside, FloorInv, FloorType
<1> QED  BY <1>2, <1>3, <1>4, FrameKeeps DEF FloorKept

LEMMA ToScanKeeps ==
    ASSUME FloorInv, ViewInv, NEW k \in Keys, ToScan(k)
    PROVE  FloorKept
<1> DEFINE v == ScanView(k)
<1> PICK new \in Cameras : Leave(v, new, entry'[k])
    BY DEF ToScan
<1>1. /\ v \in Views /\ v.job = k[1] /\ v.dir = k[2] /\ KeyOf(v) = k
      /\ k[1] \in Jobs /\ k[2] \in Dirs
  BY ViewNames DEF Views, KeyOf
<1> HIDE DEF v
<1>2. UNCHANGED <<rows, out, recorded, tag, open, photos, finished>>
  BY DEF ToScan, queueVars
<1>3. current' = k /\ lastDir' = [lastDir EXCEPT ![k[1]] = k[2]]
  BY DEF ToScan, OpenSession, Opened
<1>4. lastDir' \in [Jobs -> Dirs \cup {"none"}] /\ lastDir'[k[1]] = k[2]
  BY <1>1, <1>3 DEF FloorInv, FloorType
<1>5. \/ entry[k] # 0 /\ UNCHANGED <<entry, log>>
      \/ /\ entry[k] = 0 /\ Len(log) < day.sessions
         /\ log' = Append(log, SessionStart(k))
         /\ entry' = [entry EXCEPT ![k] = Len(log')]
  BY DEF ToScan, OpenSession
<1>6. entry \in [Keys -> Nat] /\ Len(log) \in Nat /\ log \in Seq(SessionType)
  BY DEF FloorInv, FloorType
<1>7. entry'[k] \in Nat /\ entry'[k] # 0
  <2>1. CASE entry[k] = 0
    <3>1. Len(Append(log, SessionStart(k))) = Len(log) + 1
      BY <1>6
    <3> QED  BY <1>5, <1>6, <2>1, <3>1
  <2> QED  BY <1>5, <1>6, <2>1
<1>8. /\ CameraInv' /\ ViewInv' /\ day' \in DayType /\ day'.sessions = day.sessions
      /\ \A e \in Eyes : eye'[e].aim \in {eye[e].aim, 0, entry'[k]}
  <2>1. \/ v.name = "scan" \/ (v = Lookup /\ entry'[k] = 0)
    BY ViewNames DEF v
  <2> QED  BY <1>1, <1>2, <1>3, <1>4, <1>7, <2>1, LeaveKeeps
<1>9. Outside
  BY <1>2, <1>3, <1>4, <1>8 DEF Outside, FloorInv, FloorType
<1>10. CASE entry[k] # 0
  BY <1>2, <1>5, <1>8, <1>9, <1>10, FrameKeeps DEF FloorKept
<1>11. CASE entry[k] = 0
  BY <1>2, <1>5, <1>8, <1>9, <1>11, StartKeeps DEF FloorKept
<1> QED  BY <1>10, <1>11

LEMMA LeaveForHomeKeeps ==
    ASSUME FloorInv, ViewInv, EndSession, Leave(Home, {}, 0), open' \subseteq Jobs,
           UNCHANGED <<queueVars, log, tag, photos>>
    PROVE  FloorKept
<1>1. UNCHANGED <<rows, out, recorded, log, tag, photos>>
  BY DEF queueVars
<1>2. Home \in Views /\ Home.name # "scan" /\ 0 \in Nat
  BY ViewNames DEF Views, Still
<1>3. /\ CameraInv' /\ ViewInv' /\ day' \in DayType /\ day'.sessions = day.sessions
      /\ \A e \in Eyes : eye'[e].aim \in {eye[e].aim, 0}
  BY <1>1, <1>2, LeaveKeeps
<1>4. current' \in Keys \cup {NoKey} /\ lastDir' \in [Jobs -> Dirs \cup {"none"}]
  BY DEF EndSession, FloorInv, FloorType
<1>5. Outside
  BY <1>1, <1>3, <1>4 DEF Outside, FloorInv, FloorType
<1> QED  BY <1>1, <1>3, <1>5, EndKeeps DEF FloorKept

LEMMA CardStepsKeep ==
    ASSUME FloorInv, ViewInv
    PROVE  (Finish \/ KeepScanning \/ Done \/ CloseFromCard) => FloorKept
<1>1. ASSUME Finish PROVE FloorKept
  <2>1. OnScan /\ ToStill(Card(view.job))
    BY <1>1 DEF Finish
  <2>2. view.job \in Jobs
    BY <2>1, ViewNames DEF ViewInv, Shown, Views, OnScan
  <2>3. Card(view.job) \in Still
    BY <2>2 DEF Still
  <2> QED  BY <2>1, <2>3, ToStillKeeps
<1>2. ASSUME KeepScanning PROVE FloorKept
  <2>1. view.name = "session" /\ ToScan(<<view.job, "out">>)
    BY <1>2 DEF KeepScanning
  <2>2. view.job \in Jobs
    BY <2>1, ViewNames DEF ViewInv, Shown, Views
  <2>3. <<view.job, "out">> \in Keys
    BY <2>2 DEF Keys, Dirs
  <2> QED  BY <2>1, <2>3, ToScanKeeps
<1>3. ASSUME Done PROVE FloorKept
  BY <1>3, LeaveForHomeKeeps DEF Done, FloorInv, FloorType
<1>4. ASSUME CloseFromCard PROVE FloorKept
  BY <1>4, LeaveForHomeKeeps DEF CloseFromCard, FloorInv, FloorType
<1> QED  BY <1>1, <1>2, <1>3, <1>4

(* Steps that leave the registry, the queue and the cameras alone. *)
LEMMA QuietKeeps ==
    ASSUME FloorInv, UNCHANGED <<cameraVars, registryVars, queueVars, log, finished>>,
           day' \in DayType, day'.sessions = day.sessions,
           tag' \in [Labels -> Items \cup {NoItem}], open' \subseteq Jobs
    PROVE  FloorInv'
<1>1. UNCHANGED <<eye, ears, lens, rows, out, recorded, log, finished, entry, current, lastDir>>
  BY DEF cameraVars, registryVars, queueVars
<1>2. Outside
  BY <1>1 DEF Outside, FloorInv, FloorType
<1>3. CameraInv'
  BY <1>1 DEF FloorInv, CameraInv, CameraType
<1> QED  BY <1>1, <1>2, <1>3, FrameKeeps

(* The screens stand when neither they nor the registry move. *)
LEMMA StandingViewKeeps ==
    ASSUME ViewInv, UNCHANGED <<cameraVars, registryVars, view>>, Covered'
    PROVE  ViewInv'
  BY DEF ViewInv, Shown, Aimed, OnScan, KeyOf, cameraVars, registryVars

LEMMA BoardKeeps ==
    ASSUME FloorInv, ViewInv, NEW j \in Jobs, CloseFromBoard(j) \/ ReopenJob(j)
    PROVE  FloorKept
<1>1. /\ UNCHANGED <<cameraVars, registryVars, queueVars, screenVars>>
      /\ UNCHANGED <<log, tag, photos, finished>> /\ open' \in {open \ {j}, open \cup {j}}
  BY DEF CloseFromBoard, ReopenJob
<1>2. UNCHANGED <<view, sheet, shot, day>>
  BY <1>1 DEF screenVars
<1>3. Covered'
  BY <1>1, <1>2 DEF ViewInv, Covered, OnScan, KeyOf
<1>4. ViewInv'
  BY <1>1, <1>2, <1>3, StandingViewKeeps
<1>5. FloorInv'
  <2>1. open' \subseteq Jobs /\ tag' \in [Labels -> Items \cup {NoItem}] /\ day' \in DayType
    BY <1>1, <1>2 DEF FloorInv, FloorType
  <2> QED  BY <1>1, <1>2, <2>1, QuietKeeps
<1> QED  BY <1>4, <1>5 DEF FloorKept

LEMMA HearForSessionKeeps ==
    ASSUME FloorInv, ViewInv, NEW e \in Eyes, NEW l \in Labels, HearForSession(e, l)
    PROVE  FloorKept
<1>1. /\ eye[e].aim # 0 /\ tag[l] # NoItem /\ RecordScans(eye[e].aim, {tag[l]})
      /\ UNCHANGED <<cameraVars, registryVars, storedVars, view, shot, day>>
      /\ sheet' = sheet \/ eye[e].mounted
  BY DEF HearForSession
<1>2. UNCHANGED <<eye, ears, lens, photos>>
  BY <1>1 DEF cameraVars, storedVars
<1>3. InHand(eye[e].aim) /\ {tag[l]} \in SUBSET Items /\ IsFiniteSet({tag[l]})
  <2>1. eye[e].aim \in DOMAIN log
    BY <1>1 DEF FloorInv, Registered
  <2>2. tag[l] \in Items
    BY <1>1 DEF FloorInv, FloorType
  <2>3. InHand(eye[e].aim)
    BY <2>1 DEF InHand
  <2> QED  BY <2>2, <2>3, FS_Singleton
<1>4. CameraInv'
  BY <1>2 DEF FloorInv, CameraInv, CameraType
<1>5. FloorInv'
  BY <1>1, <1>3, <1>4, RecordKeeps
<1>6. Covered'
  <2>1. eye[e].mounted => OnScan
    BY <1>1 DEF ViewInv, Aimed
  <2> QED  BY <1>1, <1>2, <2>1 DEF ViewInv, Covered, OnScan, KeyOf
<1> QED  BY <1>1, <1>5, <1>6, StandingViewKeeps DEF FloorKept

(* A sheet that records does so into the session of the screen under it. *)
LEMMA SheetRecordKeeps ==
    ASSUME FloorInv, ViewInv, sheet # NoSheet, NEW new \in SUBSET Items, IsFiniteSet(new),
           RecordScans(entry[KeyOf(view)], new), sheet' = NoSheet,
           UNCHANGED <<cameraVars, registryVars, storedVars, view, shot, day>>
    PROVE  FloorKept
<1>1. UNCHANGED <<eye, ears, lens, photos>>
  BY DEF cameraVars, storedVars
<1>2. KeyOf(view) \in Keys /\ entry[KeyOf(view)] # 0
  BY DEF ViewInv, Covered, Shown
<1>3. InHand(entry[KeyOf(view)])
  BY <1>2 DEF InHand, FloorInv, Registered
<1>4. CameraInv'
  BY <1>1 DEF FloorInv, CameraInv, CameraType
<1>5. FloorInv'
  BY <1>3, <1>4, RecordKeeps
<1>6. Covered'
  BY <1>1 DEF ViewInv, Covered, OnScan, KeyOf
<1> QED  BY <1>5, <1>6, StandingViewKeeps DEF FloorKept

LEMMA ManualPickKeeps ==
    ASSUME FloorInv, ViewInv, NEW i \in Items, ManualPick(i)
    PROVE  FloorKept
<1>1. {i} \in SUBSET Items /\ IsFiniteSet({i})
  BY FS_Singleton
<1>2. sheet # NoSheet
  BY DEF ManualPick, NoSheet
<1> QED  BY <1>1, <1>2, SheetRecordKeeps DEF ManualPick

LEMMA ConfirmCaseKeeps ==
    ASSUME FloorInv, ViewInv, NEW taken \in SUBSET Kit, ConfirmCase(taken)
    PROVE  FloorKept
<1>1. taken \in SUBSET Items /\ IsFiniteSet(taken)
  BY FloorAssumption, FS_Subset
<1>2. sheet # NoSheet
  BY DEF ConfirmCase, NoSheet
<1> QED  BY <1>1, <1>2, SheetRecordKeeps DEF ConfirmCase

LEMMA OpenSheetKeeps ==
    ASSUME FloorInv, ViewInv, OpenSheet
    PROVE  FloorKept
<1>1. /\ UNCHANGED <<cameraVars, registryVars, queueVars, storedVars, view, shot>>
      /\ OnScan /\ day.sheets > 0 /\ day' = [day EXCEPT !.sheets = day.sheets - 1]
  BY DEF OpenSheet
<1>2. UNCHANGED <<log, tag, open, photos, finished>>
  BY <1>1 DEF storedVars
<1>3. Covered'
  BY <1>1, <1>2 DEF ViewInv, Covered, OnScan, KeyOf
<1>4. FloorInv'
  <2>1. day' \in DayType /\ day'.sessions = day.sessions
    BY <1>1, DayTicks DEF FloorInv, FloorType
  <2>2. open' \subseteq Jobs /\ tag' \in [Labels -> Items \cup {NoItem}]
    BY <1>2 DEF FloorInv, FloorType
  <2> QED  BY <1>1, <1>2, <2>1, <2>2, QuietKeeps
<1> QED  BY <1>1, <1>3, <1>4, StandingViewKeeps DEF FloorKept

LEMMA CloseSheetKeeps ==
    ASSUME FloorInv, ViewInv, CloseSheet
    PROVE  FloorKept
<1>1. /\ UNCHANGED <<cameraVars, registryVars, queueVars, storedVars, view, shot, day>>
      /\ sheet' = NoSheet
  BY DEF CloseSheet
<1>2. UNCHANGED <<log, tag, open, photos, finished>>
  BY <1>1 DEF storedVars
<1>3. Covered'
  BY <1>1, <1>2 DEF ViewInv, Covered, OnScan, KeyOf
<1>4. FloorInv'
  BY <1>1, <1>2, QuietKeeps DEF FloorInv, FloorType
<1> QED  BY <1>1, <1>3, <1>4, StandingViewKeeps DEF FloorKept

LEMMA BindPickKeeps ==
    ASSUME FloorInv, ViewInv, NEW i \in Items, BindPick(i)
    PROVE  FloorKept
<1>1. /\ UNCHANGED <<cameraVars, registryVars, queueVars, view, shot, day>>
      /\ UNCHANGED <<log, open, photos, finished>>
      /\ sheet.kind = "bind" /\ tag' = Bound(sheet.about, i)
  BY DEF BindPick
<1>2. OnScan
  BY <1>1 DEF ViewInv, Covered, NoSheet
<1>3. Covered'
  BY <1>1, <1>2 DEF ViewInv, Covered, OnScan, KeyOf
<1>4. FloorInv'
  <2>1. tag' \in [Labels -> Items \cup {NoItem}]
    BY <1>1 DEF Bound, FloorInv, FloorType
  <2> QED  BY <1>1, <2>1, QuietKeeps DEF FloorInv, FloorType
<1> QED  BY <1>1, <1>3, <1>4, StandingViewKeeps DEF FloorKept

LEMMA TakePhotoKeeps ==
    ASSUME FloorInv, ViewInv, TakePhoto
    PROVE  FloorKept
<1>1. /\ UNCHANGED <<cameraVars, registryVars, queueVars, storedVars, view, sheet, day>>
      /\ sheet.kind = "photo" /\ shot' = [key |-> KeyOf(view), here |-> TRUE]
  BY DEF TakePhoto
<1>2. UNCHANGED <<log, tag, open, photos, finished>>
  BY <1>1 DEF storedVars
<1>3. OnScan
  BY <1>1 DEF ViewInv, Covered, NoSheet
<1>4. Covered'
  BY <1>1, <1>2, <1>3 DEF ViewInv, Covered, OnScan, KeyOf
<1>5. FloorInv'
  BY <1>1, <1>2, QuietKeeps DEF FloorInv, FloorType
<1> QED  BY <1>1, <1>4, <1>5, StandingViewKeeps DEF FloorKept

(* A photo lands where it was taken while its screen still stands. *)
LEMMA PhotoLandsKeeps ==
    ASSUME FloorInv, ViewInv, NEW end, PhotoLands(end)
    PROVE  FloorKept
<1>1. /\ UNCHANGED <<cameraVars, registryVars, queueVars, view, day>>
      /\ UNCHANGED <<log, tag, open, finished>>
      /\ photos' \in {photos \cup {Filed}, photos}
      /\ sheet' \in {sheet, NoSheet} /\ shot' = NoShot
  BY DEF PhotoLands
<1>2. Filed.here => Filed.filed = Filed.taken
  <2> SUFFICES ASSUME shot.here PROVE CurrentSession = entry[shot.key]
      BY DEF Filed
  <2>1. OnScan /\ shot.key = KeyOf(view)
    BY DEF ViewInv, Covered
  <2>2. current = KeyOf(view) /\ current \in Keys
    BY <2>1 DEF ViewInv, Shown
  <2> QED  BY <2>1, <2>2, KeysAreNot DEF CurrentSession
<1>3. Covered'
  <2>1. \A p \in photos' : p.here => p.filed = p.taken
    BY <1>1, <1>2 DEF ViewInv, Covered
  <2>2. ~shot'.here
    BY <1>1 DEF NoShot
  <2>3. sheet' # NoSheet => OnScan'
    BY <1>1 DEF ViewInv, Covered, OnScan
  <2> QED  BY <2>1, <2>2, <2>3 DEF Covered
<1>4. FloorInv'
  BY <1>1, QuietKeeps DEF FloorInv, FloorType
<1> QED  BY <1>1, <1>3, <1>4, StandingViewKeeps DEF FloorKept

LEMMA RestartShows ==
    ASSUME FloorInv, ViewInv, Relaunch
    PROVE  FloorKept
<1>1. /\ view' = Home /\ sheet' = NoSheet /\ shot' = NoShot /\ photos' = photos
      /\ eye' = [e \in Eyes |-> Gone]
  BY DEF Relaunch
<1>2. ~OnScan' /\ view' \in Views
  BY <1>1, ViewNames DEF OnScan, Views, Still
<1>3. \A e \in Eyes : ~eye'[e].mounted
  BY <1>1 DEF Gone
<1>4. Covered'
  BY <1>1 DEF ViewInv, Covered, NoShot
<1>5. ViewInv'
  BY <1>2, <1>3, <1>4 DEF ViewInv, Shown, Aimed
<1> QED  BY <1>5, RestartKeeps DEF FloorKept

(* The camera's own chains move nobody's screen. *)
LEMMA ChainsKeep ==
    ASSUME FloorInv, ViewInv, CameraMoves,
           UNCHANGED <<registryVars, queueVars, screenVars, storedVars>>
    PROVE  FloorKept
<1>1. CameraInv' /\ \A e \in Eyes : Aims(eye[e], eye'[e])
  BY CameraMovesKeep DEF FloorInv
<1>2. /\ UNCHANGED <<entry, current, lastDir, rows, out, recorded, log, tag, open, photos>>
      /\ UNCHANGED <<finished, view, sheet, shot, day>>
  BY DEF registryVars, queueVars, screenVars, storedVars
<1>3. Outside
  BY <1>2 DEF Outside, FloorInv, FloorType
<1>4. FloorInv'
  BY <1>1, <1>2, <1>3, FrameKeeps DEF Aims
<1>5. ViewInv'
  <2>1. Shown' /\ Covered' /\ (OnScan' <=> OnScan) /\ KeyOf(view)' = KeyOf(view)
    BY <1>2 DEF ViewInv, Shown, Covered, OnScan, KeyOf
  <2>2. \A e \in Eyes : eye'[e].mounted => eye[e].mounted /\ eye'[e].aim = eye[e].aim
    BY <1>1 DEF Aims
  <2>3. Aimed'
    BY <1>2, <2>1, <2>2 DEF ViewInv, Aimed
  <2> QED  BY <2>1, <2>3 DEF ViewInv
<1> QED  BY <1>4, <1>5 DEF FloorKept

LEMMA FloorStep ==
    ASSUME FloorInv, ViewInv, FloorNext
    PROVE  FloorKept
<1>1. ASSUME NEW e \in Eyes, NEW l \in Labels, HearForLookup(e, l)
      PROVE  FloorKept
  <2>1. ToStill(Elsewhere) /\ Elsewhere \in Still
    BY <1>1 DEF HearForLookup, Still
  <2> QED  BY <2>1, ToStillKeeps
<1> QED  BY <1>1, ChainsKeep, ToScanKeeps, ToLookupKeeps, ToStillKeeps, CardStepsKeep,
            BoardKeeps, HearForSessionKeeps, OpenSheetKeeps, CloseSheetKeeps, ManualPickKeeps,
            BindPickKeeps, ConfirmCaseKeeps, TakePhotoKeeps, PhotoLandsKeeps, RestartShows
            DEF FloorNext

LEMMA FloorStutter ==
    ASSUME FloorInv, ViewInv, UNCHANGED floorVars
    PROVE  FloorKept
<1>1. /\ UNCHANGED <<entry, current, lastDir, rows, out, recorded, log, tag, open, photos>>
      /\ UNCHANGED <<finished, view, sheet, shot, day, eye, ears, lens>>
  BY DEF floorVars, registryVars, queueVars, screenVars, storedVars, cameraVars
<1>2. FloorInv'
  <2>1. day' \in DayType /\ tag' \in [Labels -> Items \cup {NoItem}] /\ open' \subseteq Jobs
    BY <1>1 DEF FloorInv, FloorType
  <2> QED  BY <1>1, <2>1, QuietKeeps DEF cameraVars, registryVars, queueVars
<1>3. Covered'
  BY <1>1 DEF ViewInv, Covered, OnScan, KeyOf
<1>4. ViewInv'
  BY <1>1, <1>3, StandingViewKeeps DEF cameraVars, registryVars
<1> QED  BY <1>2, <1>4 DEF FloorKept

-----------------------------------------------------------------------------
(* What follows from it.                                                   *)

LEMMA FloorInvHolds == FloorSpec => [](FloorInv /\ ViewInv)
<1>1. FloorInit => FloorInv /\ ViewInv
  BY FloorStarts
<1>2. (FloorInv /\ ViewInv) /\ [FloorNext]_floorVars => (FloorInv /\ ViewInv)'
  BY FloorStep, FloorStutter DEF FloorKept
<1> QED  BY <1>1, <1>2, PTL DEF FloorSpec

(* The registry, the log and the screens have the types the code declares  *)
(* (sessions.ts, App.tsx), whatever is scanned, opened, closed or killed.  *)
THEOREM FloorTypeCorrect == FloorSpec => []FloorType
<1>1. FloorInv /\ ViewInv => FloorType
  BY DEF FloorInv
<1> QED  BY <1>1, FloorInvHolds, PTL

(* Once every camera instance has gone the lens is off and nobody listens, *)
(* for any number of instances overlapping in any order (QrCamera.tsx,     *)
(* startNative and stopNative).                                            *)
THEOREM LensIsShut == FloorSpec => []EyeShut
<1>1. FloorInv /\ ViewInv => EyeShut
  BY CameraInvShuts DEF FloorInv
<1> QED  BY <1>1, FloorInvHolds, PTL

(* Two rows for one item, going the same way on one job, are of two        *)
(* sessions, one of them finished: only one is ever unfinished per job and *)
(* direction, and a session records nothing twice (sessions.ts).           *)
THEOREM NothingRecordedTwice == FloorSpec => []RecordedOnce
<1>1. FloorInv => RecordedOnce
  <2> SUFFICES ASSUME FloorInv, NEW m \in DOMAIN rows, NEW n \in DOMAIN rows, m < n,
                      rows[m].item = rows[n].item, rows[m].dir = rows[n].dir,
                      rows[m].job = rows[n].job
               PROVE  /\ rows[m].sess # rows[n].sess
                      /\ {rows[m].sess, rows[n].sess} \cap finished # {}
      BY DEF RecordedOnce
  <2>1. m \in Nat /\ n \in Nat
    BY FloorFacts DEF FloorInv
  <2>2. rows[m].sess # rows[n].sess
    BY <2>1 DEF FloorInv, RowsAgree
  <2>3. ASSUME NEW l \in DOMAIN rows, rows[l].sess \notin finished
        PROVE  entry[<<rows[l].job, rows[l].dir>>] = rows[l].sess
    BY <2>3 DEF FloorInv, RowsAgree, Registered
  <2> QED  BY <2>2, <2>3
<1> QED  BY <1>1, FloorInvHolds, PTL

(* What is out on a job whose return is on, and left before the return     *)
(* began, the return's card names as missing, whether or not it was on the *)
(* job's list (sessions.ts, expectedFor).                                  *)
THEOREM ReturnsMissNothing == FloorSpec => []ReturnMissesNothing
<1>1. FloorInv => ReturnMissesNothing
  <2> SUFFICES ASSUME FloorInv, NEW j \in Jobs, entry[<<j, "in">>] # 0,
                      NEW i \in OutOn(j), ~LeftSince(i, log[entry[<<j, "in">>]].at)
               PROVE  i \in Missing(entry[<<j, "in">>])
      BY DEF ReturnMissesNothing
  <2>1. <<j, "in">> \in Keys
    BY DEF Keys, Dirs
  <2>2. PICK s \in DOMAIN log : s = entry[<<j, "in">>] /\ log[s].job = j /\ log[s].dir = "in"
    BY <2>1 DEF FloorInv, Registered
  <2>3. i \in Items /\ out[i] = j
    BY DEF OutOn
  <2>4. i \in log[s].expected /\ i \notin SessionScans(s)
    BY <2>2, <2>3 DEF FloorInv, Awaited
  <2> QED  BY <2>2, <2>4 DEF Missing
<1> QED  BY <1>1, FloorInvHolds, PTL

(* Sessions in memory, queue, card and screen tell one story: a live       *)
(* session has recorded what its rows say, a scan screen, its camera, its  *)
(* photos and the card it leads to are of one session, and the board       *)
(* counts after a reload what it counted before (App.tsx, sessions.ts).    *)
THEOREM ScreensTellOneStory == FloorSpec => []OneStory
<1>1. FloorInv /\ ViewInv => OneStory
  <2> SUFFICES ASSUME FloorInv, ViewInv PROVE OneStory
      OBVIOUS
  <2>1. ASSUME NEW k \in Keys, entry[k] # 0
        PROVE  entry[k] \in DOMAIN log /\ recorded[entry[k]] = SessionScans(entry[k])
    BY <2>1 DEF FloorInv, Registered, Remembered, InHand
  <2>2. \A k \in Keys : entry[k] # 0 =>
           /\ recorded[entry[k]] = SessionScans(entry[k])
           /\ Outstanding(entry[k]) = Missing(entry[k])
    BY <2>1 DEF Outstanding, Missing
  <2>3. ASSUME OnScan
        PROVE  LET s == entry[KeyOf(view)] IN
               /\ s # 0 /\ s = CurrentSession
               /\ view.job \in open => CardSession(view.job) = s
               /\ \A e \in Eyes : eye[e].mounted => eye[e].aim = s
    <3>1. /\ KeyOf(view) \in Keys /\ current = KeyOf(view) /\ entry[current] # 0
          /\ lastDir[view.job] = view.dir /\ view.dir \in Dirs
      BY <2>3 DEF ViewInv, Shown, Keys, KeyOf
    <3>2. entry[KeyOf(view)] = CurrentSession
      BY <3>1, KeysAreNot DEF CurrentSession
    <3>3. view.dir # "none"
      BY <3>1 DEF Dirs
    <3>4. Peeked(view.job) = entry[KeyOf(view)]
      BY <3>1, <3>3 DEF Peeked, KeyOf
    <3>5. view.job \in open => CardSession(view.job) = entry[KeyOf(view)]
      BY <3>1, <3>4 DEF CardSession
    <3>6. view # Lookup
      BY <2>3, ViewNames DEF OnScan
    <3> QED  BY <3>1, <3>2, <3>5, <3>6 DEF ViewInv, Aimed
  <2>4. \A p \in photos : p.here => p.filed = p.taken
    BY DEF ViewInv, Covered
  <2>5. ASSUME NEW j \in Jobs, entry[<<j, "out">>] # 0,
               NEW i \in Progress(j) \cap Listed, LastMoved(i, entry[<<j, "out">>])
        PROVE  i \in PackedProgress(j)
    <3>1. <<j, "out">> \in Keys
      BY DEF Keys, Dirs
    <3>2. /\ log[entry[<<j, "out">>]].job = j /\ log[entry[<<j, "out">>]].dir = "out"
      BY <2>5, <3>1 DEF FloorInv, Registered
    <3>3. PICK n \in DOMAIN rows : /\ rows[n].item = i /\ rows[n].sess = entry[<<j, "out">>]
                                   /\ \A m \in DOMAIN rows : m > n => rows[m].item # i
      BY <2>5 DEF LastMoved
    <3>4. rows[n].job = j /\ rows[n].dir = "out" /\ Newest(n)
      BY <3>2, <3>3 DEF FloorInv, RowsAgree, Newest
    <3>5. out[i] = j
      BY <3>3, <3>4 DEF FloorInv, Placed
    <3> QED  BY <3>5 DEF PackedProgress
  <2> QED  BY <2>2, <2>3, <2>4, <2>5 DEF OneStory
<1> QED  BY <1>1, FloorInvHolds, PTL
=============================================================================
