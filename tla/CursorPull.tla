----------------------------- MODULE CursorPull -----------------------------
(***************************************************************************)
(* A phone mirrors the organisation's rows by cursor: it asks              *)
(* pull_changes for everything above its cursor, applies the page and      *)
(* moves the cursor to where the server says.  The server pages every      *)
(* table separately over one shared number sequence, shows each person     *)
(* only the rows their role may see, and holds the cursor below rows that  *)
(* are not yet settled, because a lower number may still be invisible.     *)
(*                                                                         *)
(* One phone and one enrolment.  The phone's own unsent writes, which      *)
(* PullApplier replays over the mirror, are not part of this module: a     *)
(* mirrored row is the last server version applied to it.                  *)
(***************************************************************************)
EXTENDS ChangeLog, FiniteSets

CONSTANTS
    Tables,     \* the tables, each the set of its rows
    PageLimit,  \* p_limit: rows per table and page
    PriceList,  \* rate_cards and rate_card_entries: rows only the office sees
    Roles,      \* the roles of the people who carry this phone
    Office      \* owner, manager, desk

ASSUME TablesAssumption == UNION Tables = Rows
ASSUME PageLimitAssumption == PageLimit \in Nat \ {0}

VARIABLES
    role,       \* the role of the person the server knows the session by
    call,       \* the pull call under way, if any
    cursor,     \* sync_meta.pull_cursor
    mirror,     \* the version of each row on the phone, 0 for none
    unseen      \* history: numbers the cursor has passed while the server
                \* could not show them, in flight or hidden from the role

pullVars == <<logVars, role, call, cursor, mirror, unseen>>
phoneVars == <<role, call, cursor, mirror, unseen>>

-----------------------------------------------------------------------------
NoRows == [r \in Rows |-> 0]
NoCall == [at |-> "none", since |-> 0, rows |-> NoRows,
           cursor |-> 0, more |-> FALSE, blind |-> {}]

PullInit ==
    /\ LogInit
    /\ role \in Roles
    /\ call = NoCall
    /\ cursor = 0
    /\ mirror = NoRows
    /\ unseen = {}

(* Row-level security.                                                     *)
Hidden(r) == r \in PriceList /\ role \notin Office

Waiting_OffByOne(since) == {r \in Rows : row[r].seq > since + 1 /\ ~Hidden(r)}

(* What `where change_seq > p_since' finds.                                *)
Waiting(since) == {r \in Rows : row[r].seq > since /\ ~Hidden(r)}

(* `order by change_seq limit p_limit', for every table.                   *)
IsPage(sent, since) ==
    \A T \in Tables :
        /\ \A r \in sent \cap T, q \in (Waiting(since) \cap T) \ sent :
              row[r].seq < row[q].seq
        /\ \/ Cardinality(sent \cap T) = PageLimit
           \/ /\ Waiting(since) \cap T \subseteq sent
              /\ Cardinality(sent \cap T) < PageLimit

Full(T, sent) == Cardinality(sent \cap T) = PageLimit

(* Either settle signal: the writer is no older than some open             *)
(* transaction (changed_xid8 >= snapshot xmin), or it wrote within 3 s.    *)
Unsettled(r) ==
    \/ \E t \in OpenTx : tx[t].xid <= row[r].xid
    \/ row[r].seq > horizon

Allowed_HighestSeen(sent, since) ==
    {c \in since..nextSeq :
        /\ c = since \/ \E r \in sent : c <= row[r].seq
        /\ \A r \in sent : Unsettled(r) => c < row[r].seq}

(* The cursors the page allows: not above what was seen, not above the     *)
(* last row of a table that filled its page, below every unsettled row.    *)
Allowed(sent, since) ==
    {c \in since..nextSeq :
        /\ c = since \/ \E r \in sent : c <= row[r].seq
        /\ \A T \in Tables : Full(T, sent) => \E r \in sent \cap T : c <= row[r].seq
        /\ \A r \in sent : Unsettled(r) => c < row[r].seq}

(* Numbers up to c the server has but cannot show this person now.         *)
Blind(c) ==
    {n \in 1..c : \/ \E r \in InFlight : pend[r].seq = n
                  \/ \E r \in Rows : Hidden(r) /\ row[r].seq = n}

-----------------------------------------------------------------------------
Ask ==
    /\ call.at = "none"
    /\ call' = [NoCall EXCEPT !.at = "asked", !.since = cursor]
    /\ UNCHANGED <<logVars, role, cursor, mirror, unseen>>

AnswerNothing_OffByOne ==
    /\ call.at = "asked"
    /\ mark <= call.since + 1
    /\ call' = [NoCall EXCEPT !.at = "answered", !.since = call.since, !.cursor = call.since]
    /\ UNCHANGED <<logVars, role, cursor, mirror, unseen>>

(* The early out: nothing was written since.                               *)
AnswerNothing ==
    /\ call.at = "asked"
    /\ mark <= call.since
    /\ call' = [NoCall EXCEPT !.at = "answered", !.since = call.since, !.cursor = call.since]
    /\ UNCHANGED <<logVars, role, cursor, mirror, unseen>>

AnswerPage ==
    /\ call.at = "asked"
    /\ mark > call.since
    /\ \E sent \in SUBSET Waiting(call.since) :
          /\ IsPage(sent, call.since)
          /\ \E c \in Allowed(sent, call.since) :
                /\ \A d \in Allowed(sent, call.since) : d <= c
                /\ call' = [at |-> "answered",
                            since |-> call.since,
                            rows |-> [r \in Rows |-> IF r \in sent THEN row[r].seq ELSE 0],
                            cursor |-> c,
                            more |-> \/ \E T \in Tables : Full(T, sent)
                                     \/ \A r \in sent : row[r].seq < mark,
                            blind |-> Blind(c)]
    /\ UNCHANGED <<logVars, role, cursor, mirror, unseen>>

ApplyPage_Replaces ==
    /\ call.at = "answered"
    /\ mirror' = call.rows
    /\ cursor' = IF call.cursor > cursor THEN call.cursor ELSE cursor
    /\ unseen' = unseen \cup call.blind
    /\ call' = NoCall
    /\ UNCHANGED <<logVars, role>>

(* PullApplier.apply: one local transaction.                               *)
ApplyPage ==
    /\ call.at = "answered"
    /\ mirror' = [r \in Rows |-> IF call.rows[r] # 0 THEN call.rows[r] ELSE mirror[r]]
    /\ cursor' = IF call.cursor > cursor THEN call.cursor ELSE cursor
    /\ unseen' = unseen \cup call.blind
    /\ call' = NoCall
    /\ UNCHANGED <<logVars, role>>

(* No signal, a timeout, or the app killed before the page is applied.     *)
LosePage ==
    /\ call.at # "none"
    /\ call' = NoCall
    /\ UNCHANGED <<logVars, role, cursor, mirror, unseen>>

SwitchUser_AnyRole ==
    /\ \E p \in (Roles \cup {Nobody}) \ {role} : role' = p
    /\ UNCHANGED <<logVars, call, cursor, mirror, unseen>>

(* switch_session_user: the phone changes hands, its mirror and cursor     *)
(* stay as they are.                                                       *)
SwitchUser ==
    /\ \E p \in Roles \ {role} : role' = p
    /\ UNCHANGED <<logVars, call, cursor, mirror, unseen>>

PullNext ==
    \/ LogNext /\ UNCHANGED phoneVars
    \/ Ask
    \/ AnswerNothing
    \/ AnswerPage
    \/ ApplyPage
    \/ LosePage
    \/ SwitchUser

PullSpec == PullInit /\ [][PullNext]_pullVars

(* Transactions end, time passes, the poll timer keeps asking, and not     *)
(* every call and every page is lost.                                      *)
PullFairness ==
    /\ \A t \in Writers :
          /\ WF_pullVars(BumpWatermark(t) /\ UNCHANGED phoneVars)
          /\ WF_pullVars((Commit(t) \/ Abort(t)) /\ UNCHANGED phoneVars)
    /\ WF_pullVars(Age /\ UNCHANGED phoneVars)
    /\ WF_pullVars(Ask)
    /\ SF_pullVars(AnswerNothing \/ AnswerPage)
    /\ SF_pullVars(ApplyPage)

PullFairSpec == PullSpec /\ PullFairness
-----------------------------------------------------------------------------
(* Types.                                                                  *)
PullTypeOK ==
    /\ row \in [Rows -> [seq : Nat, xid : Nat]]
    /\ pend \in [Rows -> [seq : Nat, by : Writers \cup {Nobody}]]
    /\ tx \in [Writers -> [xid : Nat, at : {"closed", "between", "statement"}]]
    /\ holder \in Writers \cup {Nobody}
    /\ mark \in Nat /\ nextSeq \in Nat \ {0} /\ nextXid \in Nat /\ horizon \in Nat
    /\ role \in Roles
    /\ call \in [at : {"none", "asked", "answered"}, since : Nat, rows : [Rows -> Nat],
                 cursor : Nat, more : BOOLEAN, blind : SUBSET Nat]
    /\ cursor \in Nat
    /\ mirror \in [Rows -> Nat]
    /\ unseen \in SUBSET Nat

(* The watermark never falls below a committed row, in whatever order      *)
(* overlapping transactions commit: the early out of pull_changes, which   *)
(* reads nothing else, cannot turn a phone away while a row waits for it.  *)
WatermarkCovers == \A r \in Rows : row[r].seq <= mark

(* The cursor is a promise that everything below it has been delivered.    *)
(* It is kept for every number the server could show when the cursor       *)
(* passed it, however the tables truncate, the writers overlap, pages are  *)
(* lost and people take turns.                                             *)
CursorSound ==
    \A r \in Rows :
        row[r].seq \in 1..cursor /\ row[r].seq \notin unseen => mirror[r] = row[r].seq

(* What makes CursorSound inductive: numbers are used once and in order, a *)
(* version in flight is newer than the committed one, the phone holds no   *)
(* version newer than the server's, and what is true of the cursor is      *)
(* already true of the page under way.                                     *)
NumbersDrawn ==
    /\ \A r \in Rows : row[r].seq < nextSeq /\ pend[r].seq < nextSeq
    /\ \A r \in InFlight : row[r].seq < pend[r].seq
    /\ mark < nextSeq /\ cursor < nextSeq /\ call.cursor < nextSeq

OvertakenIsUnseen == \A r \in InFlight : pend[r].seq <= cursor => pend[r].seq \in unseen

MirrorBehind == \A r \in Rows : mirror[r] <= row[r].seq

PageSound ==
    /\ call.at # "none" => call.since = cursor
    /\ call.at = "answered" =>
          /\ cursor <= call.cursor
          /\ \A r \in Rows :
                /\ call.rows[r] # 0 => mirror[r] <= call.rows[r] /\ call.rows[r] <= row[r].seq
                /\ row[r].seq \in (cursor + 1)..call.cursor =>
                      row[r].seq \in call.blind \/ call.rows[r] = row[r].seq
          /\ \A r \in InFlight :
                pend[r].seq \in (cursor + 1)..call.cursor => pend[r].seq \in call.blind

PullInv ==
    /\ NumbersDrawn
    /\ WatermarkCovers
    /\ CursorSound
    /\ OvertakenIsUnseen
    /\ MirrorBehind
    /\ PageSound

(* "A committed server row must reach every device's cursor": the promise  *)
(* without the exception.                                                  *)
NothingSkipped ==
    \A r \in Rows : row[r].seq \in 1..cursor /\ ~Hidden(r) => mirror[r] = row[r].seq

(* A page never takes the phone back to an older version of a row, and     *)
(* the cursor never moves back.                                            *)
NeverBackwards ==
    [][cursor <= cursor' /\ \A r \in Rows : mirror[r] <= mirror'[r]]_pullVars

(* Once the writers rest and the phone stays with one person, every row    *)
(* that person may see and the cursor has not overtaken is on the phone.   *)
EveryRowArrives ==
    (\E p \in Roles : <>[](role = p)) =>
    <>[](\A r \in Rows :
            ~Hidden(r) /\ row[r].seq \notin unseen => mirror[r] = row[r].seq)
=============================================================================
