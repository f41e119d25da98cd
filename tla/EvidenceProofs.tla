--------------------------- MODULE EvidenceProofs ---------------------------
(***************************************************************************)
(* What the app said it kept is not lost unsent, and what was written      *)
(* together is committed together, for any captures, any ladder, any       *)
(* inherited database and any number of kills, failures and drains.        *)
(*                                                                         *)
(* The argument follows a call through its script: StageInv says where the *)
(* running call stands and how far the open database is from the state a   *)
(* rollback restores, which on a phone is what is on the disk. A migration *)
(* may be long, but it only brackets and widens: Bracketed.                *)
(***************************************************************************)
EXTENDS Evidence, DataInduction, FiniteSetTheorems

LadderStatement == Addition \cup {LocalSchema} \cup [do : {"stamp"}, version : Nat]

Whole(db) == IsDatabase(db) /\ Paired(db, server) /\ db.uploaded \subseteq db.rows

SameEvidence(a, b) ==
    /\ a.outbox = b.outbox /\ a.effect = b.effect /\ a.rows = b.rows
    /\ a.uploaded = b.uploaded /\ a.queue = b.queue /\ a.done = b.done

(* What is left of a migration, at depth d: transactions one after the     *)
(* other, none inside another, none empty.                                 *)
Bracketed(s, d) ==
    /\ s \in Seq(LadderStatement \cup {Begin, End})
    /\ d \in {0, 1} /\ (s = <<>> => d = 0)
    /\ s # <<>> => (s[1] = Begin <=> d = 0)
    /\ \A k \in 1..Len(s) :
          \/ s[k] = Begin /\ k < Len(s) /\ s[k + 1] # Begin
          \/ s[k] = End /\ (k < Len(s) => s[k + 1] = Begin)
          \/ s[k] \in LadderStatement /\ k < Len(s) /\ s[k + 1] # Begin

At(rest, d, db) == script = rest /\ depth = d /\ work = db

ScanStage(s) ==
    LET o == Into("outbox", s)
        e == Into("effect", s)
        one == [undo EXCEPT !.outbox = @ \cup {s}]
    IN  \/ At(<<Begin, Begin, o, End, e, End>>, 0, undo)
        \/ At(<<Begin, o, End, e, End>>, 1, undo)
        \/ At(<<o, End, e, End>>, 2, undo)
        \/ At(<<End, e, End>>, 2, one)
        \/ At(<<e, End>>, 1, one)
        \/ At(<<End>>, 1, [one EXCEPT !.effect = @ \cup {s}])

CaptureStage(i) ==
    LET one == [undo EXCEPT !.rows = @ \cup {i}]
    IN  \/ At(<<Begin, Into("rows", i), Into("queue", i), End>>, 0, undo)
        \/ At(<<Into("rows", i), Into("queue", i), End>>, 1, undo)
        \/ At(<<Into("queue", i), End>>, 1, one)
        \/ At(<<End>>, 1, [one EXCEPT !.queue = Append(@, i)])

MarkStage(i) ==
    LET one == [undo EXCEPT !.done = @ \cup {i}]
    IN  \/ At(<<Begin, Into("done", i), Into("uploaded", i), End>>, 0, undo)
        \/ At(<<Into("done", i), Into("uploaded", i), End>>, 1, undo)
        \/ At(<<Into("uploaded", i), End>>, 1, one)
        \/ At(<<End>>, 1, [one EXCEPT !.uploaded = @ \cup {i}])

Settled == script = <<>> /\ depth = 0 /\ work = undo /\ app # "opening"
Opening ==
    /\ app = "opening" /\ call = [does |-> "open"] /\ script # <<>>
    /\ Bracketed(script, depth)
    /\ work = Tables(work) /\ work.stamp \in Nat /\ SameEvidence(work, undo)
    /\ depth = 0 => work = undo
KeepingScan(s) ==
    app = "open" /\ call = [does |-> "keep", item |-> s] /\ ScanStage(s)
KeepingMedia(i) ==
    /\ app = "open" /\ call = [does |-> "keep", item |-> i]
    /\ i \notin undo.rows /\ CaptureStage(i)
Marking(i) ==
    /\ app = "open" /\ call = [does |-> "mark"]
    /\ i \in undo.rows \cap host /\ MarkStage(i)

StageInv ==
    \/ Settled
    \/ Opening
    \/ \E s \in Scans : KeepingScan(s)
    \/ \E i \in Media : KeepingMedia(i)
    \/ \E i \in Media : Marking(i)

AppInv ==
    /\ app \in {"off", "opening", "open", "refused", "wiping", "gutted"}
    /\ store \in {"device", "memory", "none"}
    /\ app \in {"opening", "open"} => store # "none"
    /\ app \in {"off", "gutted"} => store = "none"
    /\ Native => store # "memory"
    /\ store = "device" => disk = undo
    /\ store = "device" /\ app # "wiping" => vault = "sealed"
    /\ app = "wiping" => vault = "orphan"
    /\ vault \in {"empty", "sealed", "orphan"}

DrainInv ==
    /\ DOMAIN drains = Drains
    /\ \A d \in Drains :
        /\ drains[d].rows \in Seq(Media) /\ drains[d].sent \in BOOLEAN
        /\ drains[d] = [rows |-> drains[d].rows, sent |-> drains[d].sent]
        /\ drains[d].sent => drains[d].rows # <<>> /\ Head(drains[d].rows) \in host
        /\ app \in {"off", "opening"} => drains[d].rows = <<>>
        /\ app = "open" => ToSet(drains[d].rows) \subseteq undo.rows

PhoneInv == Whole(disk) /\ Whole(undo) /\ AppInv /\ StageInv /\ DrainInv
KeptInv == PhoneInv /\ (Native => EvidenceKept)

-----------------------------------------------------------------------------
(* The ladder as a script.                                                 *)

Steps == {q \in Seq(LadderStatement \cup {Begin, End}) : q # <<>> /\ Bracketed(q, 0)}

LEMMA StatementFacts ==
    /\ Begin \notin LadderStatement /\ End \notin LadderStatement /\ Begin # End
    /\ Begin.do = "begin" /\ End.do = "end"
    /\ \A st \in LadderStatement : st.do \in {"table", "column", "schema", "stamp"}
    /\ Addition \subseteq LadderStatement /\ LocalSchema \in LadderStatement
    /\ \A v \in Nat : Stamp(v) \in LadderStatement
BY DEF Begin, End, LadderStatement, Addition, LocalSchema, Stamp

(* A transaction of a few statements is bracketed.                         *)
LEMMA TransactionBrackets ==
    ASSUME NEW q \in Seq(LadderStatement), q # <<>>
    PROVE  Transaction(q) \in Steps
<1> DEFINE n == Len(q)
           t == Transaction(q)
           S == LadderStatement \cup {Begin, End}
<1>1. n \in Nat /\ n # 0 /\ \A i \in 1..n : q[i] \in LadderStatement
    OBVIOUS
<1>2. <<Begin>> \in Seq(S) /\ <<End>> \in Seq(S) /\ q \in Seq(S)
    OBVIOUS
<1>3. t \in Seq(S) /\ Len(t) = n + 2
    BY <1>1, <1>2 DEF Transaction
<1>4. ASSUME NEW k \in 1..(n + 2)
      PROVE  t[k] = IF k = 1 THEN Begin ELSE IF k = n + 2 THEN End ELSE q[k - 1]
    BY <1>1, <1>2 DEF Transaction
<1> HIDE DEF t
<1>5. ASSUME NEW k \in 1..(n + 2), k # 1, k # n + 2 PROVE t[k] \in LadderStatement
    BY <1>1, <1>4, <1>5
<1>6. Bracketed(t, 0)
    <2>1. t[1] = Begin /\ t[n + 2] = End /\ t # <<>>
        BY <1>1, <1>3, <1>4
    <2>2. ASSUME NEW k \in 1..Len(t)
          PROVE  \/ t[k] = Begin /\ k < Len(t) /\ t[k + 1] # Begin
                 \/ t[k] = End /\ (k < Len(t) => t[k + 1] = Begin)
                 \/ t[k] \in LadderStatement /\ k < Len(t) /\ t[k + 1] # Begin
        <3>1. k < n + 2 => t[k + 1] # Begin
            BY <1>1, <1>3, <1>4, <1>5, <2>1, StatementFacts
        <3> QED BY <1>1, <1>3, <1>5, <2>1, <3>1
    <2> QED BY <1>3, <2>1, <2>2 DEF Bracketed
<1> QED BY <1>1, <1>3, <1>6 DEF Steps, t

LEMMA StepsJoin == \A a, b \in Steps : a \o b \in Steps
<1> SUFFICES ASSUME NEW a \in Steps, NEW b \in Steps PROVE a \o b \in Steps
    OBVIOUS
<1> DEFINE m == Len(a)
           n == Len(b)
           c == a \o b
           S == LadderStatement \cup {Begin, End}
<1>1. /\ a \in Seq(S) /\ b \in Seq(S) /\ Bracketed(a, 0) /\ Bracketed(b, 0)
      /\ a # <<>> /\ b # <<>>
    BY DEF Steps
<1>2. m \in Nat /\ n \in Nat /\ m # 0 /\ n # 0
    BY <1>1
<1>3. /\ c \in Seq(S) /\ Len(c) = m + n /\ c # <<>>
      /\ \A k \in 1..m : c[k] = a[k]
      /\ \A k \in 1..n : c[m + k] = b[k]
    BY <1>1, <1>2
<1> HIDE DEF c
<1>4. a[1] = Begin /\ b[1] = Begin
    BY <1>1, <1>2 DEF Bracketed
<1>5. ASSUME NEW k \in 1..(m + n)
      PROVE  \/ c[k] = Begin /\ k < m + n /\ c[k + 1] # Begin
             \/ c[k] = End /\ (k < m + n => c[k + 1] = Begin)
             \/ c[k] \in LadderStatement /\ k < m + n /\ c[k + 1] # Begin
    <2>1. CASE k < m
        <3>1. k \in 1..m /\ k + 1 \in 1..m
            BY <1>2, <2>1
        <3> QED BY <1>1, <1>2, <1>3, <2>1, <3>1 DEF Bracketed
    <2>2. CASE k = m
        <3>1. k \in 1..m /\ c[k] = a[k] /\ c[k + 1] = b[1]
            BY <1>2, <1>3, <2>2
        <3>2. a[k] = End
            BY <1>1, <2>2, <3>1 DEF Bracketed
        <3> QED BY <1>4, <3>1, <3>2
    <2>3. CASE k > m
        <3>1. PICK j \in 1..n : k = m + j
            <4>1. k - m \in 1..n /\ k = m + (k - m)
                BY <1>2, <2>3
            <4> QED BY <4>1
        <3>2. c[k] = b[j] /\ (j < n => c[k + 1] = b[j + 1]) /\ (j < n <=> k < m + n)
            BY <1>2, <1>3, <3>1
        <3> QED BY <1>1, <3>1, <3>2 DEF Bracketed
    <2> QED BY <1>2, <2>1, <2>2, <2>3
<1>6. Bracketed(c, 0)
    BY <1>2, <1>3, <1>4, <1>5 DEF Bracketed
<1> QED BY <1>3, <1>6 DEF Steps, c

(* However far down the ladder it stands, what a database still needs is a *)
(* script of whole transactions.                                           *)
LEMMA MigrationBrackets ==
    ASSUME NEW db, db.stamp \in Nat
    PROVE  MigrateScript(db) \in Steps
<1> DEFINE from == SchemaVersion(db)
           due == IF from = 0 THEN <<>> ELSE [i \in 1..(Latest - from) |-> StepScript(from + i)]
<1>1. from \in Nat /\ Latest \in Nat /\ Latest = Len(Ladder) + 1
    BY EvidenceAssumption DEF SchemaVersion, Latest
<1>2. PresentScript \in Steps
    <2>1. <<LocalSchema, Stamp(Latest)>> \in Seq(LadderStatement)
        BY <1>1, StatementFacts
    <2> QED BY <2>1, TransactionBrackets DEF PresentScript
<1>3. ASSUME NEW v \in Nat, v - 1 \in 1..Len(Ladder) PROVE StepScript(v) \in Steps
    <2>1. Ladder[v - 1] \in Seq(LadderStatement)
        BY <1>3, StatementFacts, EvidenceAssumption
    <2>2. Append(Ladder[v - 1], Stamp(v)) \in Seq(LadderStatement)
          /\ Append(Ladder[v - 1], Stamp(v)) # <<>>
        BY <2>1, StatementFacts
    <2> QED BY <2>2, TransactionBrackets DEF StepScript
<1>4. CASE from # 0 /\ Latest - from > 0
    <2>1. due \in Seq(Steps) /\ due # <<>>
        <3>1. \A i \in 1..(Latest - from) : from + i \in Nat /\ (from + i) - 1 \in 1..Len(Ladder)
            BY <1>1, <1>4, EvidenceAssumption
        <3>2. \A i \in 1..(Latest - from) : StepScript(from + i) \in Steps
            BY <1>3, <3>1
        <3>3. due = [i \in 1..(Latest - from) |-> StepScript(from + i)] /\ Latest - from \in Nat
            BY <1>1, <1>4
        <3> HIDE DEF due, from
        <3> QED BY <3>2, <3>3, <1>4
    <2>2. FlattenSeq(due) \in Steps
        <3> HIDE DEF due
        <3> QED BY <2>1, FlattenInto, StepsJoin
    <2>3. MigrateScript(db) = FlattenSeq(due) \o PresentScript
        BY DEF MigrateScript
    <2> QED BY <1>2, <2>2, <2>3, StepsJoin
<1>5. CASE ~(from # 0 /\ Latest - from > 0)
    <2>1. due = <<>>
        <3>1. from # 0 => 1..(Latest - from) = {}
            BY <1>1, <1>5
        <3> QED BY <3>1
    <2>2. FlattenSeq(due) = <<>>
        BY <2>1 DEF FlattenSeq
    <2>3. MigrateScript(db) = <<>> \o PresentScript
        BY <2>2 DEF MigrateScript
    <2>4. PresentScript \in Seq(LadderStatement \cup {Begin, End})
        BY <1>2 DEF Steps
    <2> QED BY <1>2, <2>3, <2>4
<1> QED BY <1>4, <1>5

(* A migration's statement leaves the evidence as it is.                   *)
LEMMA LadderKeeps ==
    ASSUME NEW db, db = Tables(db), db.stamp \in Nat, NEW st \in LadderStatement
    PROVE  /\ Applied(db, st) = Tables(Applied(db, st)) /\ Applied(db, st).stamp \in Nat
           /\ SameEvidence(Applied(db, st), db)
<1>1. \/ Applied(db, st) = [db EXCEPT !.schema = @ \cup {Declared(st)}]
      \/ Applied(db, st) = [db EXCEPT !.schema = Created(@)]
      \/ \E v \in Nat : Applied(db, st) = [db EXCEPT !.stamp = v]
    BY DEF Applied, LadderStatement, Addition, LocalSchema
<1> QED BY <1>1 DEF Tables, SameEvidence

-----------------------------------------------------------------------------
(* Short scripts.                                                          *)

LEMMA SameSequence ==
    ASSUME NEW S, NEW p \in Seq(S), NEW q \in Seq(S), Len(p) = Len(q),
           \A k \in 1..Len(p) : p[k] = q[k]
    PROVE  p = q
<1>1. p = [k \in 1..Len(p) |-> p[k]] /\ q = [k \in 1..Len(q) |-> q[k]]
    OBVIOUS
<1> QED BY <1>1

LEMMA Joined ==
    ASSUME NEW S, NEW p \in Seq(S), NEW q \in Seq(S)
    PROVE  /\ p \o q \in Seq(S) /\ Len(p \o q) = Len(p) + Len(q)
           /\ \A k \in 1..Len(p) : (p \o q)[k] = p[k]
           /\ \A k \in 1..Len(q) : (p \o q)[Len(p) + k] = q[k]
OBVIOUS

LEMMA InTransaction ==
    ASSUME NEW S, Begin \in S, End \in S, NEW q \in Seq(S), NEW t, t = Transaction(q)
    PROVE  /\ t \in Seq(S) /\ Len(t) = Len(q) + 2
           /\ t[1] = Begin /\ t[Len(q) + 2] = End
           /\ \A k \in 1..Len(q) : t[k + 1] = q[k]
<1>1. <<Begin>> \in Seq(S) /\ <<End>> \in Seq(S)
    OBVIOUS
<1>2. Len(<<Begin>>) = 1 /\ <<Begin>>[1] = Begin /\ Len(<<End>>) = 1 /\ <<End>>[1] = End
    OBVIOUS
<1>3. t = (<<Begin>> \o q) \o <<End>> /\ Len(q) \in Nat
    BY DEF Transaction
<1> QED BY <1>1, <1>2, <1>3

LEMMA PairInTransaction ==
    ASSUME NEW a, NEW b
    PROVE  Transaction(<<a, b>>) = <<Begin, a, b, End>>
<1> DEFINE S == {Begin, End, a, b}
           p == Transaction(<<a, b>>)
           q == <<Begin, a, b, End>>
<1>1. Begin \in S /\ End \in S /\ <<a, b>> \in Seq(S) /\ q \in Seq(S)
    OBVIOUS
<1>2. Len(<<a, b>>) = 2 /\ <<a, b>>[1] = a /\ <<a, b>>[2] = b
    OBVIOUS
<1> HIDE DEF p, S
<1>3. /\ p \in Seq(S) /\ Len(p) = Len(<<a, b>>) + 2 /\ p[1] = Begin /\ p[Len(<<a, b>>) + 2] = End
      /\ \A k \in 1..Len(<<a, b>>) : p[k + 1] = <<a, b>>[k]
    BY <1>1, InTransaction DEF p
<1>4. p[1] = Begin /\ p[2] = a /\ p[3] = b /\ p[4] = End /\ Len(p) = 4
    BY <1>2, <1>3
<1>5. q[1] = Begin /\ q[2] = a /\ q[3] = b /\ q[4] = End /\ Len(q) = 4
    OBVIOUS
<1>6. \A k \in 1..4 : k = 1 \/ k = 2 \/ k = 3 \/ k = 4
    OBVIOUS
<1> HIDE DEF q
<1>7. p = q
    BY <1>1, <1>3, <1>4, <1>5, <1>6, SameSequence
<1> QED BY <1>7 DEF p, q

LEMMA OneInTransaction ==
    ASSUME NEW a
    PROVE  Transaction(<<a>>) = <<Begin, a, End>>
<1> DEFINE S == {Begin, End, a}
           p == Transaction(<<a>>)
           q == <<Begin, a, End>>
<1>1. Begin \in S /\ End \in S /\ <<a>> \in Seq(S) /\ q \in Seq(S)
    OBVIOUS
<1>2. /\ Len(<<a>>) = 1
      /\ <<a>>[1] = a
    OBVIOUS
<1> HIDE DEF p, S
<1>3. /\ p \in Seq(S) /\ Len(p) = Len(<<a>>) + 2
      /\ p[1] = Begin /\ p[Len(<<a>>) + 2] = End
      /\ \A k \in 1..Len(<<a>>) : p[k + 1] = <<a>>[k]
    BY <1>1, InTransaction DEF p
<1>4. p[1] = Begin /\ p[2] = a /\ p[3] = End /\ Len(p) = 3
    BY <1>2, <1>3
<1>5. q[1] = Begin /\ q[2] = a /\ q[3] = End /\ Len(q) = 3
    OBVIOUS
<1>6. \A k \in 1..3 : k = 1 \/ k = 2 \/ k = 3
    OBVIOUS
<1> HIDE DEF q
<1>7. p = q
    BY <1>1, <1>3, <1>4, <1>5, <1>6, SameSequence
<1> QED BY <1>7 DEF p, q

LEMMA OneMore ==
    ASSUME NEW a, NEW b, NEW c, NEW d
    PROVE  <<a, b, c>> \o <<d>> = <<a, b, c, d>>
<1> DEFINE S == {a, b, c, d}
           r == <<a, b, c>>
           z == <<d>>
           p == r \o z
           q == <<a, b, c, d>>
<1>1. r \in Seq(S) /\ z \in Seq(S) /\ q \in Seq(S)
    OBVIOUS
<1>2. Len(r) = 3 /\ Len(z) = 1 /\ r[1] = a /\ r[2] = b /\ r[3] = c /\ z[1] = d
    OBVIOUS
<1> HIDE DEF r, z, p, S
<1>3. /\ p \in Seq(S) /\ Len(p) = Len(r) + Len(z)
      /\ \A k \in 1..Len(r) : p[k] = r[k]
      /\ \A k \in 1..Len(z) : p[Len(r) + k] = z[k]
    BY ONLY <1>1, Joined DEF p
<1>4. p[1] = a /\ p[2] = b /\ p[3] = c /\ p[4] = d /\ Len(p) = 4
    BY <1>2, <1>3
<1>5. q[1] = a /\ q[2] = b /\ q[3] = c /\ q[4] = d /\ Len(q) = 4
    OBVIOUS
<1>6. \A k \in 1..4 : k = 1 \/ k = 2 \/ k = 3 \/ k = 4
    OBVIOUS
<1> HIDE DEF q
<1>7. p = q
    BY <1>1, <1>3, <1>4, <1>5, <1>6, SameSequence, SMTT(30)
<1> QED BY <1>7 DEF p, q, r, z

LEMMA FourInTransaction ==
    ASSUME NEW a, NEW b, NEW c, NEW d
    PROVE  Transaction(<<a, b, c, d>>) = <<Begin, a, b, c, d, End>>
<1> DEFINE S == {Begin, End, a, b, c, d}
           p == Transaction(<<a, b, c, d>>)
           q == <<Begin, a, b, c, d, End>>
<1>1. Begin \in S /\ End \in S /\ <<a, b, c, d>> \in Seq(S) /\ q \in Seq(S)
    OBVIOUS
<1>2. /\ Len(<<a, b, c, d>>) = 4
      /\ <<a, b, c, d>>[1] = a /\ <<a, b, c, d>>[2] = b /\ <<a, b, c, d>>[3] = c /\ <<a, b, c, d>>[4] = d
    OBVIOUS
<1> HIDE DEF p, S
<1>3. /\ p \in Seq(S) /\ Len(p) = Len(<<a, b, c, d>>) + 2
      /\ p[1] = Begin /\ p[Len(<<a, b, c, d>>) + 2] = End
      /\ \A k \in 1..Len(<<a, b, c, d>>) : p[k + 1] = <<a, b, c, d>>[k]
    BY <1>1, InTransaction DEF p
<1>4. p[1] = Begin /\ p[2] = a /\ p[3] = b /\ p[4] = c /\ p[5] = d /\ p[6] = End /\ Len(p) = 6
    BY <1>2, <1>3
<1>5. q[1] = Begin /\ q[2] = a /\ q[3] = b /\ q[4] = c /\ q[5] = d /\ q[6] = End /\ Len(q) = 6
    OBVIOUS
<1>6. \A k \in 1..6 : k = 1 \/ k = 2 \/ k = 3 \/ k = 4 \/ k = 5 \/ k = 6
    OBVIOUS
<1> HIDE DEF q
<1>7. p = q
    BY <1>1, <1>3, <1>4, <1>5, <1>6, SameSequence, SMTT(30)
<1> QED BY <1>7 DEF p, q

LEMMA ScriptShapes ==
    /\ \A s : ScanScript(s) = <<Begin, Begin, Into("outbox", s), End, Into("effect", s), End>>
    /\ \A i : CaptureScript(i) = <<Begin, Into("rows", i), Into("queue", i), End>>
    /\ \A i : UploadedScript(i) = <<Begin, Into("done", i), Into("uploaded", i), End>>
<1>1. ASSUME NEW s
      PROVE  ScanScript(s) = <<Begin, Begin, Into("outbox", s), End, Into("effect", s), End>>
    <2>1. ScanScript(s) = Transaction(<<Begin, Into("outbox", s), End>> \o <<Into("effect", s)>>)
        BY OneInTransaction DEF ScanScript
    <2>2. ScanScript(s) = Transaction(<<Begin, Into("outbox", s), End, Into("effect", s)>>)
        BY <2>1, OneMore
    <2> QED BY <2>2, FourInTransaction
<1>2. \A i : CaptureScript(i) = <<Begin, Into("rows", i), Into("queue", i), End>>
    BY PairInTransaction DEF CaptureScript
<1>3. \A i : UploadedScript(i) = <<Begin, Into("done", i), Into("uploaded", i), End>>
    BY PairInTransaction DEF UploadedScript
<1> QED BY <1>1, <1>2, <1>3

LEMMA HeadsAndTails ==
    ASSUME NEW a, NEW b, NEW c, NEW d, NEW e, NEW f
    PROVE  /\ Head(<<a>>) = a /\ Tail(<<a>>) = <<>>
           /\ Head(<<a, b>>) = a /\ Tail(<<a, b>>) = <<b>>
           /\ Head(<<a, b, c>>) = a /\ Tail(<<a, b, c>>) = <<b, c>>
           /\ Head(<<a, b, c, d>>) = a /\ Tail(<<a, b, c, d>>) = <<b, c, d>>
           /\ Head(<<a, b, c, d, e>>) = a /\ Tail(<<a, b, c, d, e>>) = <<b, c, d, e>>
           /\ Head(<<a, b, c, d, e, f>>) = a /\ Tail(<<a, b, c, d, e, f>>) = <<b, c, d, e, f>>
OBVIOUS

LEMMA BracketTail ==
    ASSUME NEW s, NEW d, Bracketed(s, d), s # <<>>
    PROVE  \/ Head(s) = Begin /\ d = 0 /\ Bracketed(Tail(s), 1) /\ Tail(s) # <<>>
           \/ Head(s) = End /\ d = 1 /\ Bracketed(Tail(s), 0)
           \/ Head(s) \in LadderStatement /\ d = 1 /\ Bracketed(Tail(s), 1) /\ Tail(s) # <<>>
<1> DEFINE S == LadderStatement \cup {Begin, End}
           t == Tail(s)
           n == Len(s)
<1>1. s \in Seq(S) /\ n \in Nat /\ n # 0 /\ t \in Seq(S) /\ Len(t) = n - 1
    BY DEF Bracketed
<1>2. Head(s) = s[1] /\ \A k \in 1..Len(t) : t[k] = s[k + 1] /\ k + 1 \in 1..n
    BY <1>1
<1>3. t = <<>> <=> n = 1
    <2> HIDE DEF t, n
    <2> QED BY <1>1
<1> HIDE DEF t
<1>4. \A k \in 1..Len(t) :
          \/ t[k] = Begin /\ k < Len(t) /\ t[k + 1] # Begin
          \/ t[k] = End /\ (k < Len(t) => t[k + 1] = Begin)
          \/ t[k] \in LadderStatement /\ k < Len(t) /\ t[k + 1] # Begin
    <2> SUFFICES ASSUME NEW k \in 1..Len(t)
                 PROVE  \/ t[k] = Begin /\ k < Len(t) /\ t[k + 1] # Begin
                        \/ t[k] = End /\ (k < Len(t) => t[k + 1] = Begin)
                        \/ t[k] \in LadderStatement /\ k < Len(t) /\ t[k + 1] # Begin
        OBVIOUS
    <2>1. k < Len(t) => t[k + 1] = s[(k + 1) + 1]
        BY <1>1, <1>2
    <2>2. t[k] = s[k + 1] /\ k + 1 \in 1..n /\ (k < Len(t) <=> k + 1 < n)
        BY <1>1, <1>2
    <2> QED BY <2>1, <2>2 DEF Bracketed
<1>5. n > 1 => 1 \in 1..Len(t) /\ t[1] = s[2]
    BY <1>1, <1>2
<1>6. \/ s[1] = Begin /\ d = 0 /\ n > 1 /\ s[2] # Begin
      \/ s[1] = End /\ d = 1 /\ (n > 1 => s[2] = Begin)
      \/ s[1] \in LadderStatement /\ d = 1 /\ n > 1 /\ s[2] # Begin
    BY <1>1, StatementFacts DEF Bracketed
<1>7. ASSUME NEW x \in {0, 1}, t = <<>> => x = 0, t # <<>> => (t[1] = Begin <=> x = 0)
      PROVE  Bracketed(t, x)
    BY <1>1, <1>4, <1>7 DEF Bracketed
<1> QED BY <1>1, <1>2, <1>3, <1>5, <1>6, <1>7, StatementFacts DEF t

LEMMA IdleIsSettled == StageInv /\ script = <<>> => Settled
BY DEF StageInv, Opening, KeepingScan, KeepingMedia, Marking, ScanStage, CaptureStage,
       MarkStage, At

LEMMA AwayIsSettled == StageInv /\ app \notin {"open", "opening"} => Settled
BY DEF StageInv, Opening, KeepingScan, KeepingMedia, Marking


-----------------------------------------------------------------------------
(* What a drain takes.                                                     *)

LEMMA PendingRows ==
    ASSUME NEW db, db.queue \in Seq(Media)
    PROVE  Pending(db) \in Seq(Media) /\ ToSet(Pending(db)) \subseteq ToSet(db.queue)
<1> DEFINE N == Len(db.queue)
           S == ToSet(db.queue) \cap Media
           Longer(g, n) == IF n = 0 THEN <<>>
                           ELSE IF db.queue[n] \in db.done THEN g[n - 1]
                           ELSE Append(g[n - 1], db.queue[n])
           upto == CHOOSE g : g = [n \in 0..N |-> Longer(g, n)]
           Long(n) == {g \in [0..n -> Seq(S)] : g = [k \in 0..n |-> Longer(g, k)]}
           T == {n \in Nat : n \in 0..N => Long(n) # {}}
           U == {n \in Nat : n \in 0..N => upto[n] \in Seq(S)}
<1>1. N \in Nat /\ \A n \in 1..N : db.queue[n] \in S
    BY DEF ToSet
<1>2. 0 \in T
    <2> DEFINE h == [k \in 0..0 |-> <<>>]
    <2>1. h \in [0..0 -> Seq(S)] /\ \A k \in 0..0 : k = 0 /\ h[k] = <<>>
        OBVIOUS
    <2>2. h = [k \in 0..0 |-> Longer(h, k)]
        BY <2>1
    <2>3. Long(0) # {}
        <3> HIDE DEF Longer, h
        <3> QED BY <2>1, <2>2
    <2> HIDE DEF Long
    <2> QED BY <2>3
<1>3. ASSUME NEW n \in Nat, n \in T PROVE n + 1 \in T
    <2>1. SUFFICES ASSUME n + 1 \in 0..N PROVE Long(n + 1) # {}
        <3> HIDE DEF Long
        <3> QED OBVIOUS
    <2>2. Long(n) # {}
        <3> HIDE DEF Long
        <3> QED BY <1>1, <1>3, <2>1
    <2>3. PICK g \in [0..n -> Seq(S)] : g = [k \in 0..n |-> Longer(g, k)]
        <3> HIDE DEF Longer
        <3> QED BY <2>2
    <2> DEFINE last == IF db.queue[n + 1] \in db.done THEN g[n] ELSE Append(g[n], db.queue[n + 1])
               h == [k \in 0..(n + 1) |-> IF k = n + 1 THEN last ELSE g[k]]
    <2>4. \A k \in 0..n : g[k] = Longer(g, k) /\ g[k] \in Seq(S)
        <3> HIDE DEF Longer
        <3> QED BY <2>3
    <2>5. \A k \in 0..(n + 1) : k = n + 1 \/ (k \in 0..n /\ k # n + 1)
        OBVIOUS
    <2>6. last \in Seq(S)
        <3>1. g[n] \in Seq(S) /\ db.queue[n + 1] \in S
            BY <1>1, <2>1, <2>4
        <3> QED BY <3>1
    <2>7. /\ h = [k \in 0..(n + 1) |-> h[k]] /\ h[n + 1] = last
          /\ \A k \in 0..n : h[k] = g[k]
        <3> HIDE DEF last
        <3> QED OBVIOUS
    <2> HIDE DEF h
    <2>8. \A k \in 0..(n + 1) : h[k] = Longer(h, k) /\ h[k] \in Seq(S)
        <3> SUFFICES ASSUME NEW k \in 0..(n + 1) PROVE h[k] = Longer(h, k) /\ h[k] \in Seq(S)
            OBVIOUS
        <3>1. CASE k = n + 1
            <4>1. n \in 0..n /\ k # 0 /\ k - 1 = n
                BY <3>1
            <4>2. h[n] = g[n]
                BY <2>7, <4>1
            <4> QED BY <2>6, <2>7, <3>1, <4>1, <4>2
        <3>2. CASE k \in 0..n
            <4>1. k # 0 => k - 1 \in 0..n
                BY <3>2
            <4>2. k # 0 => h[k - 1] = g[k - 1]
                BY <2>7, <4>1
            <4> QED BY <2>4, <2>7, <3>2, <4>2
        <3> QED BY <2>5, <3>1, <3>2
    <2> HIDE DEF Longer
    <2>9. h = [k \in 0..(n + 1) |-> Longer(h, k)] /\ h \in [0..(n + 1) -> Seq(S)]
        BY <2>7, <2>8
    <2> QED BY <2>9
<1>4. Long(N) # {}
    <2>1. N \in T
        <3> HIDE DEF T
        <3> QED BY <1>1, <1>2, <1>3, NatSetInduction
    <2> HIDE DEF Long
    <2> QED BY <1>1, <2>1
<1>5. upto = [n \in 0..N |-> Longer(upto, n)]
    <2> HIDE DEF Longer
    <2>1. PICK g : g = [n \in 0..N |-> Longer(g, n)]
        BY <1>4
    <2> QED BY <2>1
<1>6. N \in U
    <2> HIDE DEF upto
    <2>1. 0 \in U
        <3>1. 0 \in 0..N
            BY <1>1
        <3> QED BY <1>5, <3>1
    <2>2. ASSUME NEW n \in Nat, n \in U PROVE n + 1 \in U
        <3>1. SUFFICES ASSUME n + 1 \in 0..N PROVE upto[n + 1] \in Seq(S)
            OBVIOUS
        <3>2. upto[n] \in Seq(S) /\ db.queue[n + 1] \in S
            BY <1>1, <2>2, <3>1
        <3>3. upto[n + 1] = Longer(upto, n + 1)
            <4> HIDE DEF Longer
            <4> QED BY <1>5, <3>1
        <3>4. (n + 1) - 1 = n /\ n + 1 # 0
            OBVIOUS
        <3> QED BY <3>2, <3>3, <3>4
    <2> HIDE DEF U
    <2> QED BY <1>1, <2>1, <2>2, NatSetInduction
<1>7. Pending(db) = upto[N]
    BY DEF Pending
<1>8. Pending(db) \in Seq(S)
    <2> HIDE DEF upto
    <2> QED BY <1>1, <1>6, <1>7
<1> HIDE DEF S
<1>9. S \subseteq Media /\ S \subseteq ToSet(db.queue)
    BY DEF S
<1> QED BY <1>8, <1>9 DEF ToSet

LEMMA OldestRows ==
    ASSUME NEW rows \in Seq(Media), DrainLimit \in Nat
    PROVE  Oldest(rows) \in Seq(Media) /\ ToSet(Oldest(rows)) \subseteq ToSet(rows)
BY DEF Oldest, ToSet


-----------------------------------------------------------------------------
(* The first state, and the parts that most steps leave alone.             *)

LEMMA EmptyIsWhole == Whole(Blank) /\ Blank = Tables(Blank) /\ Blank.stamp \in Nat
BY FS_EmptySet DEF Whole, Blank, IsDatabase, Tables, Paired, ToSet

LEMMA StartsWhole == Init => KeptInv
<1> SUFFICES ASSUME Init PROVE KeptInv
    OBVIOUS
<1>1. Whole(Blank)
    BY EmptyIsWhole
<1>2. Whole(disk)
    <2>1. CASE disk = Blank
        BY <1>1, <2>1
    <2>2. CASE disk \in Inherited
        BY <2>2, InheritedAssumption DEF Init, Whole, Paired
    <2> QED BY <2>1, <2>2 DEF Init
<1>3. AppInv /\ Settled
    BY DEF Init, AppInv, Settled
<1>4. DrainInv
    <2>1. /\ DOMAIN drains = Drains /\ app = "off"
          /\ \A d \in Drains : drains[d] = [rows |-> <<>>, sent |-> FALSE]
        BY DEF Init, NoDrain
    <2>2. <<>> \in Seq(Media)
        OBVIOUS
    <2>3. ASSUME NEW d \in Drains
          PROVE  /\ drains[d].rows \in Seq(Media) /\ drains[d].sent = FALSE
                 /\ drains[d] = [rows |-> drains[d].rows, sent |-> drains[d].sent]
                 /\ drains[d].rows = <<>>
        <3>1. drains[d] = [rows |-> <<>>, sent |-> FALSE]
            BY <2>1
        <3>2. drains[d].rows = <<>> /\ drains[d].sent = FALSE
            BY <3>1
        <3>3. drains[d] = [rows |-> drains[d].rows, sent |-> drains[d].sent]
            BY <3>1, <3>2, Zenon
        <3> QED BY <2>2, <3>2, <3>3
    <2> QED BY <2>1, <2>3 DEF DrainInv
<1>5. EvidenceKept
    <2> SUFFICES ASSUME NEW i \in promised PROVE vault = "sealed" /\ Kept(i)
        BY DEF EvidenceKept
    <2>1. CASE disk = Blank
        BY <2>1 DEF Init, Blank
    <2>2. CASE disk \in Inherited /\ vault = "sealed"
        <3>1. IsDatabase(disk) /\ Paired(disk, {}) /\ disk.uploaded = {}
            BY <2>2, InheritedAssumption
        <3>2. i \in disk.effect \/ i \in disk.rows
            BY DEF Init
        <3>3. /\ disk.effect \subseteq disk.outbox /\ disk.effect \subseteq Scans
              /\ disk.rows \cap Scans = {}
            BY <3>1, EvidenceAssumption DEF IsDatabase, Paired, Media
        <3>4. disk.rows = ToSet(disk.queue) /\ disk.done = {}
            BY <3>1 DEF Paired
        <3> QED BY <2>2, <3>1, <3>2, <3>3, <3>4 DEF Kept
    <2> QED BY <2>1, <2>2 DEF Init
<1> QED BY <1>1, <1>2, <1>3, <1>4, <1>5 DEF KeptInv, PhoneInv, StageInv, Init

(* Nothing but the counters moves.                                         *)
LEMMA PhoneStutters ==
    ASSUME PhoneInv,
           UNCHANGED <<vault, disk, app, store, work, undo, depth, script, call>>,
           host \subseteq host', server \subseteq server', DrainInv'
    PROVE  PhoneInv'
<1>1. Whole(disk)' /\ Whole(undo)'
    BY DEF PhoneInv, Whole, Paired
<1>2. AppInv'
    BY DEF PhoneInv, AppInv
<1>3. StageInv'
    BY DEF PhoneInv, StageInv, Settled, Opening, KeepingScan, KeepingMedia, Marking,
           ScanStage, CaptureStage, MarkStage, At
<1> QED BY <1>1, <1>2, <1>3 DEF PhoneInv

LEMMA KeptStutters ==
    ASSUME EvidenceKept, UNCHANGED <<vault, disk>>, promised' \subseteq promised,
           host \subseteq host', server \subseteq server'
    PROVE  EvidenceKept'
BY DEF EvidenceKept, Kept

LEMMA ScanLeavesTables ==
    ASSUME NEW db, IsDatabase(db), NEW s \in Scans
    PROVE  LET one == Applied(db, Into("outbox", s)) two == Applied(one, Into("effect", s)) IN
           /\ one = [db EXCEPT !.outbox = @ \cup {s}]
           /\ two = [one EXCEPT !.effect = @ \cup {s}]
           /\ IsDatabase(two)
BY FS_AddElement DEF IsDatabase, Applied, Into, Tables

-----------------------------------------------------------------------------
(* A transaction opens. On a phone the disk has what a rollback restores,  *)
(* so the outermost BEGIN changes nothing, and an inner one joins.         *)

LEMMA StatementKinds ==
    /\ \A table, item : Into(table, item).do = "insert"
    /\ Begin.do = "begin" /\ End.do = "end"
    /\ \A st \in LadderStatement : st.do \in {"table", "column", "schema", "stamp"}
BY StatementFacts DEF Into

LEMMA BeginMoves ==
    ASSUME PhoneInv, RunBegin
    PROVE  StageInv' /\ undo' = undo
<1> DEFINE h == Head(script)
<1>0. /\ script # <<>> /\ h.do = "begin" /\ depth' = depth + 1 /\ script' = Tail(script)
      /\ work' = work /\ app' = app /\ call' = call /\ host' = host
      /\ depth > 0 => undo' = undo
      /\ ~(depth > 0) => undo' = work
    BY DEF RunBegin, Joins, Idle, worldVars
<1>1. CASE Settled
    BY <1>0, <1>1 DEF Settled
<1>2. CASE Opening
    <2>1. depth = 0 /\ Bracketed(Tail(script), 1) /\ Tail(script) # <<>> /\ work = undo
        BY <1>0, <1>2, BracketTail, StatementKinds DEF Opening
    <2>2. undo' = undo /\ depth' = 1
        BY <1>0, <2>1
    <2>3. Opening'
        BY <1>0, <1>2, <2>1, <2>2 DEF Opening
    <2> QED BY <2>2, <2>3 DEF StageInv
<1>3. ASSUME NEW s \in Scans, KeepingScan(s) PROVE StageInv' /\ undo' = undo
    <2> DEFINE o == Into("outbox", s)
               e == Into("effect", s)
    <2>0. o.do = "insert" /\ e.do = "insert" /\ Begin.do = "begin" /\ End.do = "end"
        BY StatementKinds
    <2> HIDE DEF o, e
    <2>1. CASE At(<<Begin, Begin, o, End, e, End>>, 0, undo)
        <3>1. undo' = undo /\ At(<<Begin, o, End, e, End>>, 1, undo)'
            BY <1>0, <2>1, HeadsAndTails DEF At
        <3> QED BY <1>0, <1>3, <3>1 DEF StageInv, KeepingScan, ScanStage, o, e
    <2>2. CASE At(<<Begin, o, End, e, End>>, 1, undo)
        <3>1. undo' = undo /\ At(<<o, End, e, End>>, 2, undo)'
            BY <1>0, <2>2, HeadsAndTails DEF At
        <3> QED BY <1>0, <1>3, <3>1 DEF StageInv, KeepingScan, ScanStage, o, e
    <2>3. CASE script \in {<<o, End, e, End>>, <<End, e, End>>, <<e, End>>, <<End>>}
        BY <1>0, <2>0, <2>3, HeadsAndTails
    <2> QED BY <1>3, <2>1, <2>2, <2>3 DEF KeepingScan, ScanStage, At, o, e
<1>4. ASSUME NEW i \in Media, KeepingMedia(i) PROVE StageInv' /\ undo' = undo
    <2> DEFINE o == Into("rows", i)
               e == Into("queue", i)
    <2>0. o.do = "insert" /\ e.do = "insert" /\ Begin.do = "begin" /\ End.do = "end"
        BY StatementKinds
    <2> HIDE DEF o, e
    <2>1. CASE At(<<Begin, o, e, End>>, 0, undo)
        <3>1. undo' = undo /\ At(<<o, e, End>>, 1, undo)'
            BY <1>0, <2>1, HeadsAndTails DEF At
        <3> QED BY <1>0, <1>4, <3>1 DEF StageInv, KeepingMedia, CaptureStage, o, e
    <2>2. CASE script \in {<<o, e, End>>, <<e, End>>, <<End>>}
        BY <1>0, <2>0, <2>2, HeadsAndTails
    <2> QED BY <1>4, <2>1, <2>2 DEF KeepingMedia, CaptureStage, At, o, e
<1>5. ASSUME NEW i \in Media, Marking(i) PROVE StageInv' /\ undo' = undo
    <2> DEFINE o == Into("done", i)
               e == Into("uploaded", i)
    <2>0. o.do = "insert" /\ e.do = "insert" /\ Begin.do = "begin" /\ End.do = "end"
        BY StatementKinds
    <2> HIDE DEF o, e
    <2>1. CASE At(<<Begin, o, e, End>>, 0, undo)
        <3>1. undo' = undo /\ At(<<o, e, End>>, 1, undo)'
            BY <1>0, <2>1, HeadsAndTails DEF At
        <3> QED BY <1>0, <1>5, <3>1 DEF StageInv, Marking, MarkStage, o, e
    <2>2. CASE script \in {<<o, e, End>>, <<e, End>>, <<End>>}
        BY <1>0, <2>0, <2>2, HeadsAndTails
    <2> QED BY <1>5, <2>1, <2>2 DEF Marking, MarkStage, At, o, e
<1> QED BY <1>1, <1>2, <1>3, <1>4, <1>5 DEF PhoneInv, StageInv

LEMMA BeginKeeps ==
    ASSUME PhoneInv, RunBegin
    PROVE  PhoneInv' /\ UNCHANGED <<disk, vault, worldVars>>
<1>1. StageInv' /\ undo' = undo
    BY BeginMoves
<1>2. disk' = disk /\ UNCHANGED <<vault, app, store, drains, worldVars>>
    BY <1>1 DEF RunBegin, Persisted, PhoneInv, AppInv
<1>3. Whole(disk)' /\ Whole(undo)'
    BY <1>1, <1>2 DEF PhoneInv, Whole, Paired, worldVars
<1>4. AppInv' /\ DrainInv'
    BY <1>1, <1>2 DEF PhoneInv, AppInv, DrainInv, worldVars
<1> QED BY <1>1, <1>2, <1>3, <1>4 DEF PhoneInv

-----------------------------------------------------------------------------
(* A statement runs in the open transaction only.                          *)

LEMMA InsertsApply ==
    ASSUME NEW db, NEW i
    PROVE  /\ Applied(db, Into("outbox", i)) = [db EXCEPT !.outbox = @ \cup {i}]
           /\ Applied(db, Into("effect", i)) = [db EXCEPT !.effect = @ \cup {i}]
           /\ Applied(db, Into("rows", i)) = [db EXCEPT !.rows = @ \cup {i}]
           /\ Applied(db, Into("queue", i)) = [db EXCEPT !.queue = Append(@, i)]
           /\ Applied(db, Into("done", i)) = [db EXCEPT !.done = @ \cup {i}]
           /\ Applied(db, Into("uploaded", i)) = [db EXCEPT !.uploaded = @ \cup {i}]
BY DEF Applied, Into

LEMMA StatementMoves ==
    ASSUME PhoneInv, RunStatement
    PROVE  StageInv'
<1> DEFINE h == Head(script)
<1>0. /\ script # <<>> /\ h.do \notin {"begin", "end"} /\ depth' = depth /\ script' = Tail(script)
      /\ work' = Applied(work, h) /\ app' = app /\ call' = call /\ host' = host /\ undo' = undo
    BY DEF RunStatement, Idle, worldVars
<1>1. CASE Settled
    BY <1>0, <1>1 DEF Settled
<1>2. CASE Opening
    <2>1. /\ h \in LadderStatement /\ depth = 1 /\ Bracketed(Tail(script), 1)
          /\ Tail(script) # <<>>
        BY <1>0, <1>2, BracketTail, StatementKinds DEF Opening
    <2>2. work' = Tables(work') /\ work'.stamp \in Nat /\ SameEvidence(work', work)
        BY <1>0, <1>2, <2>1, LadderKeeps DEF Opening
    <2>3. SameEvidence(work', undo')
        BY <1>0, <1>2, <2>2 DEF Opening, SameEvidence
    <2>4. Opening'
        BY <1>0, <1>2, <2>1, <2>2, <2>3 DEF Opening
    <2> QED BY <2>4 DEF StageInv
<1>3. ASSUME NEW s \in Scans, KeepingScan(s) PROVE StageInv'
    <2> DEFINE o == Into("outbox", s)
               e == Into("effect", s)
               one == [undo EXCEPT !.outbox = @ \cup {s}]
    <2>0. o.do = "insert" /\ e.do = "insert" /\ Begin.do = "begin" /\ End.do = "end"
        BY StatementKinds
    <2>4. \A db : /\ Applied(db, o) = [db EXCEPT !.outbox = @ \cup {s}]
                  /\ Applied(db, e) = [db EXCEPT !.effect = @ \cup {s}]
        BY InsertsApply
    <2> HIDE DEF o, e
    <2>1. CASE At(<<o, End, e, End>>, 2, undo)
        <3>1. At(<<End, e, End>>, 2, one)'
            <4>1. h = o /\ Tail(script) = <<End, e, End>> /\ work = undo /\ depth = 2
                BY <2>1, HeadsAndTails DEF At
            <4> HIDE DEF h
            <4>2. work' = one
                BY <1>0, <2>4, <4>1
            <4> HIDE DEF one
            <4>3. one' = one
                BY <1>0 DEF one
            <4> QED BY <1>0, <4>1, <4>2, <4>3 DEF At
        <3> QED BY <1>0, <1>3, <3>1 DEF StageInv, KeepingScan, ScanStage, o, e
    <2>2. CASE At(<<e, End>>, 1, one)
        <3>1. At(<<End>>, 1, [one EXCEPT !.effect = @ \cup {s}])'
            <4>1. h = e /\ Tail(script) = <<End>> /\ work = one /\ depth = 1
                BY <2>2, HeadsAndTails DEF At
            <4> HIDE DEF one, h
            <4>2. work' = [one EXCEPT !.effect = @ \cup {s}]
                BY <1>0, <2>4, <4>1
            <4> QED BY <1>0, <4>1, <4>2 DEF At, one
        <3> QED BY <1>0, <1>3, <3>1 DEF StageInv, KeepingScan, ScanStage, o, e
    <2>3. CASE script \in {<<Begin, Begin, o, End, e, End>>, <<Begin, o, End, e, End>>,
                           <<End, e, End>>, <<End>>}
        BY <1>0, <2>0, <2>3, HeadsAndTails
    <2> QED BY <1>3, <2>1, <2>2, <2>3 DEF KeepingScan, ScanStage, At, o, e
<1>4. ASSUME NEW i \in Media, KeepingMedia(i) PROVE StageInv'
    <2> DEFINE o == Into("rows", i)
               e == Into("queue", i)
               one == [undo EXCEPT !.rows = @ \cup {i}]
    <2>0. o.do = "insert" /\ e.do = "insert" /\ Begin.do = "begin" /\ End.do = "end"
        BY StatementKinds
    <2>4. \A db : /\ Applied(db, o) = [db EXCEPT !.rows = @ \cup {i}]
                  /\ Applied(db, e) = [db EXCEPT !.queue = Append(@, i)]
        BY InsertsApply
    <2> HIDE DEF o, e
    <2>1. CASE At(<<o, e, End>>, 1, undo)
        <3>1. At(<<e, End>>, 1, one)'
            <4>1. h = o /\ Tail(script) = <<e, End>> /\ work = undo /\ depth = 1
                BY <2>1, HeadsAndTails DEF At
            <4> HIDE DEF h
            <4>2. work' = one
                BY <1>0, <2>4, <4>1
            <4> HIDE DEF one
            <4>3. one' = one
                BY <1>0 DEF one
            <4> QED BY <1>0, <4>1, <4>2, <4>3 DEF At
        <3> QED BY <1>0, <1>4, <3>1 DEF StageInv, KeepingMedia, CaptureStage, o, e
    <2>2. CASE At(<<e, End>>, 1, one)
        <3>1. At(<<End>>, 1, [one EXCEPT !.queue = Append(@, i)])'
            <4>1. h = e /\ Tail(script) = <<End>> /\ work = one /\ depth = 1
                BY <2>2, HeadsAndTails DEF At
            <4> HIDE DEF one, h
            <4>2. work' = [one EXCEPT !.queue = Append(@, i)]
                BY <1>0, <2>4, <4>1
            <4> QED BY <1>0, <4>1, <4>2 DEF At, one
        <3> QED BY <1>0, <1>4, <3>1 DEF StageInv, KeepingMedia, CaptureStage, o, e
    <2>3. CASE script \in {<<Begin, o, e, End>>, <<End>>}
        BY <1>0, <2>0, <2>3, HeadsAndTails
    <2> QED BY <1>4, <2>1, <2>2, <2>3 DEF KeepingMedia, CaptureStage, At, o, e
<1>5. ASSUME NEW i \in Media, Marking(i) PROVE StageInv'
    <2> DEFINE o == Into("done", i)
               e == Into("uploaded", i)
               one == [undo EXCEPT !.done = @ \cup {i}]
    <2>0. o.do = "insert" /\ e.do = "insert" /\ Begin.do = "begin" /\ End.do = "end"
        BY StatementKinds
    <2>4. \A db : /\ Applied(db, o) = [db EXCEPT !.done = @ \cup {i}]
                  /\ Applied(db, e) = [db EXCEPT !.uploaded = @ \cup {i}]
        BY InsertsApply
    <2> HIDE DEF o, e
    <2>1. CASE At(<<o, e, End>>, 1, undo)
        <3>1. At(<<e, End>>, 1, one)'
            <4>1. h = o /\ Tail(script) = <<e, End>> /\ work = undo /\ depth = 1
                BY <2>1, HeadsAndTails DEF At
            <4> HIDE DEF h
            <4>2. work' = one
                BY <1>0, <2>4, <4>1
            <4> HIDE DEF one
            <4>3. one' = one
                BY <1>0 DEF one
            <4> QED BY <1>0, <4>1, <4>2, <4>3 DEF At
        <3> QED BY <1>0, <1>5, <3>1 DEF StageInv, Marking, MarkStage, o, e
    <2>2. CASE At(<<e, End>>, 1, one)
        <3>1. At(<<End>>, 1, [one EXCEPT !.uploaded = @ \cup {i}])'
            <4>1. h = e /\ Tail(script) = <<End>> /\ work = one /\ depth = 1
                BY <2>2, HeadsAndTails DEF At
            <4> HIDE DEF one, h
            <4>2. work' = [one EXCEPT !.uploaded = @ \cup {i}]
                BY <1>0, <2>4, <4>1
            <4> QED BY <1>0, <4>1, <4>2 DEF At, one
        <3> QED BY <1>0, <1>5, <3>1 DEF StageInv, Marking, MarkStage, o, e
    <2>3. CASE script \in {<<Begin, o, e, End>>, <<End>>}
        BY <1>0, <2>0, <2>3, HeadsAndTails
    <2> QED BY <1>5, <2>1, <2>2, <2>3 DEF Marking, MarkStage, At, o, e
<1> QED BY <1>1, <1>2, <1>3, <1>4, <1>5 DEF PhoneInv, StageInv

LEMMA StatementKeeps ==
    ASSUME PhoneInv, RunStatement
    PROVE  PhoneInv' /\ UNCHANGED <<disk, vault, worldVars>>
<1>1. StageInv'
    BY StatementMoves
<1>2. UNCHANGED <<vault, app, store, disk, undo, drains, worldVars>>
    BY DEF RunStatement
<1>3. Whole(disk)' /\ Whole(undo)'
    BY <1>2 DEF PhoneInv, Whole, Paired, worldVars
<1>4. AppInv' /\ DrainInv'
    BY <1>2 DEF PhoneInv, AppInv, DrainInv, worldVars
<1> QED BY <1>1, <1>2, <1>3, <1>4 DEF PhoneInv

(* A statement fails: back to the state before the call.                   *)
LEMMA FailureKeeps ==
    ASSUME PhoneInv, StatementFails
    PROVE  PhoneInv' /\ UNCHANGED <<disk, vault, worldVars>>
<1>1. /\ script # <<>> /\ work' = undo /\ undo' = undo /\ depth' = 0 /\ script' = <<>>
      /\ app' = (IF call.does = "open" THEN "refused" ELSE app)
      /\ UNCHANGED <<vault, store, disk, drains, worldVars>>
    BY DEF StatementFails, Thrown, Idle
<1>2. \/ app = "opening" /\ app' = "refused"
      \/ app = "open" /\ app' = "open"
    BY <1>1 DEF PhoneInv, StageInv, Settled, Opening, KeepingScan, KeepingMedia, Marking
<1>3. StageInv'
    BY <1>1, <1>2 DEF StageInv, Settled
<1>4. Whole(disk)' /\ Whole(undo)'
    BY <1>1 DEF PhoneInv, Whole, Paired, worldVars
<1>5. AppInv' /\ DrainInv'
    BY <1>1, <1>2 DEF PhoneInv, AppInv, DrainInv, worldVars
<1> QED BY <1>1, <1>3, <1>4, <1>5 DEF PhoneInv

-----------------------------------------------------------------------------
(* A transaction ends: an inner one joins, the outermost is what counts.   *)

ScanCommits(s) ==
    /\ app = "open" /\ app' = "open" /\ promised' = promised \cup {s}
    /\ undo' = [[undo EXCEPT !.outbox = @ \cup {s}] EXCEPT !.effect = @ \cup {s}]
CaptureCommits(i) ==
    /\ app = "open" /\ app' = "open" /\ promised' = promised \cup {i}
    /\ i \notin undo.rows
    /\ undo' = [[undo EXCEPT !.rows = @ \cup {i}] EXCEPT !.queue = Append(@, i)]
MarkCommits(i) ==
    /\ app = "open" /\ app' = "open" /\ promised' = promised
    /\ i \in undo.rows \cap host
    /\ undo' = [[undo EXCEPT !.done = @ \cup {i}] EXCEPT !.uploaded = @ \cup {i}]
OpeningCommits ==
    /\ app = "opening" /\ app' \in {"opening", "open"} /\ promised' = promised
    /\ SameEvidence(undo', undo) /\ undo' = Tables(undo') /\ undo'.stamp \in Nat
Commits == \/ OpeningCommits
           \/ \E s \in Scans : ScanCommits(s)
           \/ \E i \in Media : CaptureCommits(i) \/ MarkCommits(i)

LEMMA EndMoves ==
    ASSUME PhoneInv, RunEnd
    PROVE  /\ UNCHANGED <<vault, store, drains, host, server>> /\ StageInv'
           /\ \/ UNCHANGED <<disk, undo, app, promised>>
              \/ disk' = Persisted(undo') /\ Commits
<1> DEFINE h == Head(script)
           done == disk' = Persisted(undo') /\ undo' = work
<1>0. /\ script # <<>> /\ h.do = "end" /\ depth' = depth - 1 /\ script' = Tail(script)
      /\ work' = work /\ UNCHANGED <<vault, store, drains, host, server>>
      /\ depth - 1 > 0 => UNCHANGED <<disk, undo>>
      /\ ~(depth - 1 > 0) => disk' = Persisted(work) /\ undo' = work
      /\ Tail(script) # <<>> => UNCHANGED <<app, promised, call>>
      /\ Tail(script) = <<>> => Returned
    BY DEF RunEnd, Joins, Idle
<1>1. ~Settled
    BY <1>0 DEF Settled
<1>2. CASE Opening
    <2>1. depth = 1 /\ Bracketed(Tail(script), 0)
        BY <1>0, <1>2, BracketTail, StatementKinds DEF Opening
    <2>2. depth' = 0 /\ undo' = work /\ disk' = Persisted(work)
        BY <1>0, <2>1
    <2>3. SameEvidence(undo', undo) /\ undo' = Tables(undo') /\ undo'.stamp \in Nat
          /\ SameEvidence(work', undo')
        BY <1>0, <1>2, <2>2 DEF Opening, SameEvidence
    <2>4. CASE Tail(script) = <<>>
        <3>1. app' = "open" /\ promised' = promised
            BY <1>0, <1>2, <2>4 DEF Opening, Returned
        <3>2. Settled'
            BY <1>0, <2>2, <2>4, <3>1 DEF Settled
        <3>3. OpeningCommits
            BY <1>2, <2>3, <3>1 DEF Opening, OpeningCommits
        <3> QED BY <1>0, <2>2, <3>2, <3>3 DEF StageInv, Commits
    <2>5. CASE Tail(script) # <<>>
        <3>1. UNCHANGED <<app, promised, call>>
            BY <1>0, <2>5
        <3>2. Opening'
            BY <1>0, <1>2, <2>1, <2>2, <2>3, <2>5, <3>1 DEF Opening
        <3>3. OpeningCommits
            BY <1>2, <2>3, <3>1 DEF Opening, OpeningCommits
        <3> QED BY <1>0, <2>2, <3>2, <3>3 DEF StageInv, Commits
    <2> QED BY <2>4, <2>5
<1>3. ASSUME NEW s \in Scans, KeepingScan(s)
      PROVE  StageInv' /\ \/ UNCHANGED <<disk, undo, app, promised>>
                          \/ disk' = Persisted(undo') /\ Commits
    <2> DEFINE o == Into("outbox", s)
               e == Into("effect", s)
               one == [undo EXCEPT !.outbox = @ \cup {s}]
               two == [one EXCEPT !.effect = @ \cup {s}]
    <2>0. o.do = "insert" /\ e.do = "insert" /\ Begin.do = "begin" /\ End.do = "end"
        BY StatementKinds
    <2> HIDE DEF o, e
    <2>1. CASE At(<<End, e, End>>, 2, one)
        <3>1. Tail(script) = <<e, End>> /\ work = one /\ depth = 2
            BY <2>1, HeadsAndTails DEF At
        <3>2. UNCHANGED <<disk, undo, app, promised, call>> /\ depth' = 1 /\ script' = <<e, End>>
            BY <1>0, <3>1
        <3>3. At(<<e, End>>, 1, one)'
            BY <1>0, <3>1, <3>2 DEF At
        <3> QED BY <1>3, <3>2, <3>3 DEF StageInv, KeepingScan, ScanStage, o, e
    <2>2. CASE At(<<End>>, 1, two)
        <3> HIDE DEF two
        <3>1. Tail(script) = <<>> /\ work = two /\ depth = 1
            BY <2>2, HeadsAndTails DEF At
        <3>2. /\ undo' = two /\ disk' = Persisted(undo') /\ depth' = 0 /\ script' = <<>>
              /\ Returned
            BY <1>0, <3>1
        <3>3. app = "open" /\ app' = "open" /\ promised' = promised \cup {s}
            BY <1>3, <3>2 DEF KeepingScan, Returned
        <3>4. Settled'
            BY <1>0, <3>1, <3>2, <3>3 DEF Settled
        <3>5. ScanCommits(s)
            BY <3>2, <3>3 DEF ScanCommits, two
        <3> QED BY <3>2, <3>4, <3>5 DEF StageInv, Commits
    <2>3. CASE script \in {<<Begin, Begin, o, End, e, End>>, <<Begin, o, End, e, End>>,
                           <<o, End, e, End>>, <<e, End>>}
        BY <1>0, <2>0, <2>3, HeadsAndTails
    <2> QED BY <1>3, <2>1, <2>2, <2>3 DEF KeepingScan, ScanStage, At, o, e
<1>4. ASSUME NEW i \in Media, KeepingMedia(i)
      PROVE  StageInv' /\ disk' = Persisted(undo') /\ Commits
    <2> DEFINE o == Into("rows", i)
               e == Into("queue", i)
               one == [undo EXCEPT !.rows = @ \cup {i}]
               two == [one EXCEPT !.queue = Append(@, i)]
    <2>0. o.do = "insert" /\ e.do = "insert" /\ Begin.do = "begin" /\ End.do = "end"
        BY StatementKinds
    <2> HIDE DEF o, e
    <2>1. CASE At(<<End>>, 1, two)
        <3> HIDE DEF two
        <3>1. Tail(script) = <<>> /\ work = two /\ depth = 1
            BY <2>1, HeadsAndTails DEF At
        <3>2. /\ undo' = two /\ disk' = Persisted(undo') /\ depth' = 0 /\ script' = <<>>
              /\ Returned
            BY <1>0, <3>1
        <3>3. app = "open" /\ app' = "open" /\ promised' = promised \cup {i}
            BY <1>4, <3>2 DEF KeepingMedia, Returned
        <3>4. Settled'
            BY <1>0, <3>1, <3>2, <3>3 DEF Settled
        <3>5. CaptureCommits(i)
            BY <1>4, <3>2, <3>3 DEF CaptureCommits, KeepingMedia, two
        <3> QED BY <3>2, <3>4, <3>5 DEF StageInv, Commits
    <2>2. CASE script \in {<<Begin, o, e, End>>, <<o, e, End>>, <<e, End>>}
        BY <1>0, <2>0, <2>2, HeadsAndTails
    <2> QED BY <1>4, <2>1, <2>2 DEF KeepingMedia, CaptureStage, At, o, e
<1>5. ASSUME NEW i \in Media, Marking(i)
      PROVE  StageInv' /\ disk' = Persisted(undo') /\ Commits
    <2> DEFINE o == Into("done", i)
               e == Into("uploaded", i)
               one == [undo EXCEPT !.done = @ \cup {i}]
               two == [one EXCEPT !.uploaded = @ \cup {i}]
    <2>0. o.do = "insert" /\ e.do = "insert" /\ Begin.do = "begin" /\ End.do = "end"
        BY StatementKinds
    <2> HIDE DEF o, e
    <2>1. CASE At(<<End>>, 1, two)
        <3> HIDE DEF two
        <3>1. Tail(script) = <<>> /\ work = two /\ depth = 1
            BY <2>1, HeadsAndTails DEF At
        <3>2. /\ undo' = two /\ disk' = Persisted(undo') /\ depth' = 0 /\ script' = <<>>
              /\ Returned
            BY <1>0, <3>1
        <3>3. app = "open" /\ app' = "open" /\ promised' = promised
            BY <1>5, <3>2 DEF Marking, Returned
        <3>4. Settled'
            BY <1>0, <3>1, <3>2, <3>3 DEF Settled
        <3>5. MarkCommits(i)
            BY <1>5, <3>2, <3>3 DEF MarkCommits, Marking, two
        <3> QED BY <3>2, <3>4, <3>5 DEF StageInv, Commits
    <2>2. CASE script \in {<<Begin, o, e, End>>, <<o, e, End>>, <<e, End>>}
        BY <1>0, <2>0, <2>2, HeadsAndTails
    <2> QED BY <1>5, <2>1, <2>2 DEF Marking, MarkStage, At, o, e
<1> QED BY <1>0, <1>1, <1>2, <1>3, <1>4, <1>5 DEF PhoneInv, StageInv

(* What a commit writes is whole, and no row is lost by it.                *)
LEMMA CommitsWhole ==
    ASSUME PhoneInv, Commits, UNCHANGED <<host, server, drains>>
    PROVE  /\ Whole(undo)'
           /\ undo.outbox \subseteq undo'.outbox /\ undo.effect \subseteq undo'.effect
           /\ undo.rows \subseteq undo'.rows /\ ToSet(undo.queue) \subseteq ToSet(undo'.queue)
           /\ undo'.uploaded \subseteq undo.uploaded \cup host
           /\ undo'.done \subseteq undo.done \cup host
           /\ \A x \in promised' \ promised :
                \/ x \in Scans /\ x \in undo'.outbox \cap undo'.effect
                \/ x \in Media /\ x \in undo'.rows \cap ToSet(undo'.queue)
                   /\ x \notin undo'.uploaded \cup undo'.done
<1>0. /\ undo = Tables(undo) /\ undo.stamp \in Nat
      /\ IsFiniteSet(undo.outbox) /\ IsFiniteSet(undo.rows)
      /\ undo.outbox \cup undo.effect \subseteq Scans
      /\ undo.rows \subseteq Media /\ undo.queue \in Seq(Media)
      /\ undo.effect \cup undo.outbox \subseteq (undo.effect \cap undo.outbox) \cup server
      /\ undo.rows = ToSet(undo.queue) /\ undo.uploaded = undo.done
      /\ undo.uploaded \subseteq undo.rows
    BY DEF PhoneInv, Whole, IsDatabase, Paired
<1>1. CASE OpeningCommits
    BY <1>0, <1>1 DEF OpeningCommits, SameEvidence, Whole, IsDatabase, Paired
<1>2. ASSUME NEW s \in Scans, ScanCommits(s) PROVE
        /\ undo' = Tables(undo') /\ undo'.stamp \in Nat
        /\ undo'.outbox = undo.outbox \cup {s} /\ undo'.effect = undo.effect \cup {s}
        /\ undo'.rows = undo.rows /\ undo'.queue = undo.queue
        /\ undo'.uploaded = undo.uploaded /\ undo'.done = undo.done
        /\ promised' = promised \cup {s} /\ IsFiniteSet(undo'.outbox)
    BY <1>0, <1>2, FS_AddElement DEF ScanCommits, Tables
<1>3. ASSUME NEW i \in Media, CaptureCommits(i) PROVE
        /\ undo' = Tables(undo') /\ undo'.stamp \in Nat
        /\ undo'.outbox = undo.outbox /\ undo'.effect = undo.effect
        /\ undo'.rows = undo.rows \cup {i} /\ undo'.queue = Append(undo.queue, i)
        /\ undo'.uploaded = undo.uploaded /\ undo'.done = undo.done
        /\ promised' = promised \cup {i} /\ IsFiniteSet(undo'.rows) /\ i \notin undo.rows
        /\ undo'.queue \in Seq(Media) /\ ToSet(undo'.queue) = ToSet(undo.queue) \cup {i}
    <2>1. /\ undo' = Tables(undo') /\ undo'.stamp \in Nat
          /\ undo'.outbox = undo.outbox /\ undo'.effect = undo.effect
          /\ undo'.rows = undo.rows \cup {i} /\ undo'.queue = Append(undo.queue, i)
          /\ undo'.uploaded = undo.uploaded /\ undo'.done = undo.done
          /\ promised' = promised \cup {i} /\ i \notin undo.rows
        BY <1>0, <1>3 DEF CaptureCommits, Tables
    <2>2. IsFiniteSet(undo.rows \cup {i})
        BY <1>0, FS_AddElement
    <2>3. /\ Append(undo.queue, i) \in Seq(Media)
          /\ ToSet(Append(undo.queue, i)) = ToSet(undo.queue) \cup {i}
        <3>1. undo.queue \in Seq(Media) /\ i \in Media
            BY <1>0
        <3> QED BY ONLY <3>1, SMTT(30) DEF ToSet
    <2> QED BY <2>1, <2>2, <2>3
<1>4. ASSUME NEW i \in Media, MarkCommits(i) PROVE
        /\ undo' = Tables(undo') /\ undo'.stamp \in Nat
        /\ undo'.outbox = undo.outbox /\ undo'.effect = undo.effect
        /\ undo'.rows = undo.rows /\ undo'.queue = undo.queue
        /\ undo'.uploaded = undo.uploaded \cup {i} /\ undo'.done = undo.done \cup {i}
        /\ promised' = promised /\ i \in undo.rows \cap host
    BY <1>0, <1>4 DEF MarkCommits, Tables
<1>5. CASE \E s \in Scans : ScanCommits(s)
    BY <1>0, <1>2, <1>5 DEF Whole, IsDatabase, Paired
<1>6. CASE \E i \in Media : CaptureCommits(i)
    BY <1>0, <1>3, <1>6 DEF Whole, IsDatabase, Paired
<1>7. CASE \E i \in Media : MarkCommits(i)
    BY <1>0, <1>4, <1>7 DEF Whole, IsDatabase, Paired
<1> QED BY <1>1, <1>5, <1>6, <1>7 DEF Commits

LEMMA EndKeeps ==
    ASSUME PhoneInv, RunEnd
    PROVE  PhoneInv' /\ (Native /\ EvidenceKept => EvidenceKept')
<1>1. /\ UNCHANGED <<vault, store, drains, host, server>> /\ StageInv'
      /\ \/ UNCHANGED <<disk, undo, app, promised>>
         \/ disk' = Persisted(undo') /\ Commits
    BY EndMoves
<1>2. CASE UNCHANGED <<disk, undo, app, promised>>
    <2>1. Whole(disk)' /\ Whole(undo)' /\ AppInv' /\ DrainInv'
        BY <1>1, <1>2 DEF PhoneInv, Whole, Paired, AppInv, DrainInv
    <2> QED BY <1>1, <1>2, <2>1, KeptStutters DEF PhoneInv
<1>3. CASE disk' = Persisted(undo') /\ Commits
    <2>1. /\ Whole(undo)'
          /\ undo.outbox \subseteq undo'.outbox /\ undo.effect \subseteq undo'.effect
          /\ undo.rows \subseteq undo'.rows /\ ToSet(undo.queue) \subseteq ToSet(undo'.queue)
          /\ undo'.uploaded \subseteq undo.uploaded \cup host
          /\ undo'.done \subseteq undo.done \cup host
          /\ \A x \in promised' \ promised :
                \/ x \in Scans /\ x \in undo'.outbox \cap undo'.effect
                \/ x \in Media /\ x \in undo'.rows \cap ToSet(undo'.queue)
                   /\ x \notin undo'.uploaded \cup undo'.done
        BY <1>1, <1>3, CommitsWhole, SMTT(30)
    <2>2. /\ app \in {"open", "opening"} /\ app' \in {"open", "opening"}
          /\ app = "open" => app' = "open"
          /\ app = "opening" => \A d \in Drains : drains[d].rows = <<>>
        BY <1>3 DEF Commits, OpeningCommits, ScanCommits, CaptureCommits, MarkCommits,
                    PhoneInv, DrainInv
    <2>3. Whole(disk)'
        BY <1>1, <1>3, <2>1 DEF Persisted, PhoneInv, Whole, Paired
    <2>4. AppInv'
        BY <1>1, <1>3, <2>2 DEF PhoneInv, AppInv, Persisted
    <2>5. DrainInv'
        <3>1. ToSet(<<>>) = {}
            BY DEF ToSet
        <3>2. \A d \in Drains : app' = "open" => ToSet(drains[d].rows) \subseteq undo'.rows
            BY <2>1, <2>2, <3>1 DEF PhoneInv, DrainInv
        <3> HIDE DEF ToSet
        <3> QED BY <1>1, <2>2, <3>2 DEF PhoneInv, DrainInv
    <2>6. ASSUME Native, EvidenceKept PROVE EvidenceKept'
        <3>1. store = "device" /\ vault = "sealed" /\ disk = undo /\ disk' = undo'
            BY <1>3, <2>2, <2>6 DEF PhoneInv, AppInv, Persisted
        <3> SUFFICES ASSUME NEW i \in promised', i \notin host \cup server
                     PROVE  vault' = "sealed" /\ Kept(i)'
            BY <1>1 DEF EvidenceKept
        <3>2. CASE i \in promised
            <4>1. Kept(i)
                BY <2>6, <3>2 DEF EvidenceKept
            <4> QED BY <1>1, <2>1, <3>1, <4>1 DEF Kept
        <3>3. CASE i \notin promised
            <4>1. i \in Media => i \notin Scans
                BY EvidenceAssumption DEF Media
            <4> QED BY <1>1, <2>1, <3>1, <3>3, <4>1 DEF Kept
        <3> QED BY <3>2, <3>3
    <2> QED BY <1>1, <2>1, <2>3, <2>4, <2>5, <2>6 DEF PhoneInv
<1> QED BY <1>1, <1>2, <1>3

-----------------------------------------------------------------------------
(* The app starts, and goes.                                               *)

LEMMA LaunchKeeps ==
    ASSUME PhoneInv, Launch
    PROVE  PhoneInv' /\ (EvidenceKept => EvidenceKept')
<1>1. /\ app = "off" /\ store = "none" /\ Settled
      /\ UNCHANGED <<disk, depth, drains, host, server, promised>>
    BY AwayIsSettled DEF Launch, PhoneInv, AppInv, worldVars
<1>2. PICK bridge \in {"whole", "partial", "absent"} :
        IF Opens(bridge)
        THEN LET found == IF Backing(bridge) = "device" THEN disk ELSE Blank IN
             /\ app' = "opening"
             /\ store' = Backing(bridge)
             /\ vault' = IF Backing(bridge) = "device" THEN "sealed" ELSE vault
             /\ work' = found /\ undo' = found
             /\ Run(MigrateScript(found), [does |-> "open"])
        ELSE /\ app' = "refused"
             /\ UNCHANGED <<store, vault, work, undo, script, call>>
    BY DEF Launch
<1>3. Whole(disk)'
    BY <1>1 DEF PhoneInv, Whole, Paired
<1>4. ASSUME app' \in {"opening", "refused"} PROVE DrainInv'
    BY <1>1, <1>4 DEF PhoneInv, DrainInv
<1>5. CASE ~Opens(bridge)
    <2>1. app' = "refused" /\ UNCHANGED <<store, vault, work, undo, script, call>>
        BY <1>2, <1>5
    <2>2. Whole(undo)' /\ AppInv' /\ Settled'
        BY <1>1, <2>1 DEF PhoneInv, Whole, Paired, AppInv, Settled
    <2>3. EvidenceKept => EvidenceKept'
        BY <1>1, <2>1 DEF EvidenceKept, Kept
    <2> QED BY <1>3, <1>4, <2>1, <2>2, <2>3 DEF PhoneInv, StageInv
<1>6. CASE Opens(bridge)
    <2> DEFINE found == IF Backing(bridge) = "device" THEN disk ELSE Blank
    <2>1. /\ app' = "opening" /\ store' = Backing(bridge)
          /\ vault' = IF Backing(bridge) = "device" THEN "sealed" ELSE vault
          /\ work' = found /\ undo' = found
          /\ script' = MigrateScript(found) /\ call' = [does |-> "open"]
        BY <1>2, <1>6 DEF Run
    <2>2. /\ Backing(bridge) \in {"device", "memory"}
          /\ Native => Backing(bridge) = "device"
        BY <1>6 DEF Opens, Backing
    <2>3. found = Tables(found) /\ found.stamp \in Nat /\ Whole(found)
        BY EmptyIsWhole DEF PhoneInv, Whole, IsDatabase
    <2>4. Whole(undo)'
        BY <1>1, <2>1, <2>3 DEF Whole, Paired
    <2>5. AppInv'
        BY <1>1, <2>1, <2>2 DEF PhoneInv, AppInv
    <2>6. MigrateScript(found) # <<>> /\ Bracketed(MigrateScript(found), 0)
        <3> HIDE DEF found
        <3> QED BY <2>3, MigrationBrackets DEF Steps
    <2>7. Opening'
        <3> HIDE DEF found
        <3>1. depth' = 0
            BY <1>1 DEF Settled
        <3> QED BY <2>1, <2>3, <2>6, <3>1 DEF Opening, SameEvidence
    <2>8. EvidenceKept => EvidenceKept'
        BY <1>1, <2>1 DEF EvidenceKept, Kept
    <2> QED BY <1>3, <1>4, <2>1, <2>4, <2>5, <2>7, <2>8 DEF PhoneInv, StageInv
<1> QED BY <1>5, <1>6

LEMMA GoneKeeps ==
    ASSUME PhoneInv, Gone
    PROVE  PhoneInv' /\ UNCHANGED <<disk, vault, worldVars>>
<1>1. /\ app' = "off" /\ store' = "none" /\ work' = Blank /\ undo' = Blank /\ depth' = 0
      /\ script' = <<>> /\ drains' = [d \in Drains |-> NoDrain]
      /\ UNCHANGED <<vault, disk, worldVars>>
    BY DEF Gone
<1>2. Whole(disk)' /\ Whole(undo)'
    BY <1>1, EmptyIsWhole DEF PhoneInv, Whole, Paired, worldVars
<1>3. AppInv' /\ StageInv'
    BY <1>1 DEF PhoneInv, AppInv, StageInv, Settled
<1>4. DrainInv'
    <2>1. /\ DOMAIN drains' = Drains
          /\ \A d \in Drains : drains'[d] = [rows |-> <<>>, sent |-> FALSE]
        BY <1>1 DEF NoDrain
    <2>2. <<>> \in Seq(Media)
        OBVIOUS
    <2>3. ASSUME NEW d \in Drains
          PROVE  /\ drains'[d].rows \in Seq(Media) /\ drains'[d].sent = FALSE
                 /\ drains'[d] = [rows |-> drains'[d].rows, sent |-> drains'[d].sent]
                 /\ drains'[d].rows = <<>>
        <3>1. drains'[d] = [rows |-> <<>>, sent |-> FALSE]
            BY <2>1
        <3>2. drains'[d].rows = <<>> /\ drains'[d].sent = FALSE
            BY <3>1
        <3>3. drains'[d] = [rows |-> drains'[d].rows, sent |-> drains'[d].sent]
            BY <3>1, <3>2, Zenon
        <3> QED BY <2>2, <3>2, <3>3
    <2> QED BY <1>1, <2>1, <2>3 DEF DrainInv
<1> QED BY <1>1, <1>2, <1>3, <1>4 DEF PhoneInv

-----------------------------------------------------------------------------
(* Captures begin, and their queue rows go to the server.                  *)

LEMMA ScanKeeps ==
    ASSUME PhoneInv, NEW s \in Scans, Scan(s)
    PROVE  PhoneInv' /\ UNCHANGED <<disk, vault, worldVars>>
<1>1. /\ app = "open" /\ script = <<>> /\ script' = ScanScript(s)
      /\ call' = [does |-> "keep", item |-> s]
      /\ UNCHANGED <<vault, app, store, disk, work, undo, depth, drains, worldVars>>
    BY DEF Scan, Ready, Idle, Run, Nothing, dbVars
<1>2. Settled
    BY <1>1, IdleIsSettled DEF PhoneInv
<1>3. At(<<Begin, Begin, Into("outbox", s), End, Into("effect", s), End>>, 0, undo)'
    BY <1>1, <1>2, ScriptShapes DEF At, Settled
<1>4. StageInv'
    BY <1>1, <1>3 DEF StageInv, KeepingScan, ScanStage
<1>5. Whole(disk)' /\ Whole(undo)' /\ AppInv' /\ DrainInv'
    BY <1>1 DEF PhoneInv, Whole, Paired, AppInv, DrainInv, worldVars
<1> QED BY <1>1, <1>4, <1>5 DEF PhoneInv

LEMMA CaptureKeeps ==
    ASSUME PhoneInv, NEW kind, kind \subseteq Media, NEW i \in kind, Capture(i, kind)
    PROVE  PhoneInv' /\ UNCHANGED <<disk, vault, worldVars>>
<1>1. /\ app = "open" /\ script = <<>> /\ script' = CaptureScript(i) /\ i \notin work.rows
      /\ call' = [does |-> "keep", item |-> i]
      /\ UNCHANGED <<vault, app, store, disk, work, undo, depth, drains, worldVars>>
    BY DEF Capture, Ready, Idle, Run, Nothing, dbVars
<1>2. Settled
    BY <1>1, IdleIsSettled DEF PhoneInv
<1>3. At(<<Begin, Into("rows", i), Into("queue", i), End>>, 0, undo)'
    BY <1>1, <1>2, ScriptShapes DEF At, Settled
<1>4. StageInv'
    BY <1>1, <1>2, <1>3 DEF StageInv, KeepingMedia, CaptureStage, Settled
<1>5. Whole(disk)' /\ Whole(undo)' /\ AppInv' /\ DrainInv'
    BY <1>1 DEF PhoneInv, Whole, Paired, AppInv, DrainInv, worldVars
<1> QED BY <1>1, <1>4, <1>5 DEF PhoneInv

LEMMA LandingKeeps ==
    ASSUME PhoneInv, NEW s \in Scans, OpLands(s)
    PROVE  PhoneInv' /\ (EvidenceKept => EvidenceKept')
<1> DEFINE left == [work EXCEPT !.outbox = @ \ {s}]
<1>1. /\ app = "open" /\ script = <<>> /\ server' = server \cup {s}
      /\ work' = left /\ undo' = left /\ disk' = Persisted(left)
      /\ UNCHANGED <<vault, app, store, depth, script, drains, host, promised>>
    BY DEF OpLands, Ready, Idle, Persisted
<1>2. work = undo /\ depth = 0
    BY <1>1, IdleIsSettled DEF PhoneInv, Settled
<1>3. /\ undo = Tables(undo) /\ undo.stamp \in Nat
      /\ IsFiniteSet(undo.outbox) /\ IsFiniteSet(undo.rows)
      /\ undo.outbox \cup undo.effect \subseteq Scans
      /\ undo.rows \subseteq Media /\ undo.queue \in Seq(Media)
      /\ undo.effect \cup undo.outbox \subseteq (undo.effect \cap undo.outbox) \cup server
      /\ undo.rows = ToSet(undo.queue) /\ undo.uploaded = undo.done
      /\ undo.uploaded \subseteq undo.rows
    BY DEF PhoneInv, Whole, IsDatabase, Paired
<1>4. /\ left = Tables(left) /\ left.stamp = undo.stamp /\ left.outbox = undo.outbox \ {s}
      /\ left.effect = undo.effect /\ left.rows = undo.rows /\ left.queue = undo.queue
      /\ left.uploaded = undo.uploaded /\ left.done = undo.done
    <2>1. undo = Tables(undo) /\ left = [undo EXCEPT !.outbox = @ \ {s}]
        BY <1>2, <1>3
    <2> HIDE DEF left
    <2> QED BY <2>1 DEF Tables
<1> HIDE DEF left
<1>5. IsFiniteSet(left.outbox)
  <2>1. IsFiniteSet(undo.outbox) /\ left.outbox = undo.outbox \ {s}
      BY <1>3, <1>4
  <2> QED BY ONLY <2>1, FS_RemoveElement
<1>6. Whole(undo)'
    BY <1>1, <1>3, <1>4, <1>5 DEF Whole, IsDatabase, Paired
<1>7. Whole(disk)'
    BY <1>1, <1>6 DEF Persisted, PhoneInv, Whole, Paired
<1>8. AppInv' /\ StageInv'
    BY <1>1, <1>2 DEF PhoneInv, AppInv, Persisted, StageInv, Settled
<1>9. DrainInv'
    BY <1>1, <1>4 DEF PhoneInv, DrainInv
<1>10. ASSUME EvidenceKept PROVE EvidenceKept'
    <2> SUFFICES ASSUME NEW i \in promised, i \notin host \cup server', Kept(i), vault = "sealed"
                 PROVE  Kept(i)'
        BY <1>1, <1>10 DEF EvidenceKept
    <2>1. i # s
        BY <1>1
    <2>2. CASE store = "device"
        <3>1. disk = undo /\ disk' = left
            BY <1>1, <2>2 DEF PhoneInv, AppInv, Persisted
        <3> QED BY <1>4, <2>1, <3>1 DEF Kept
    <2>3. CASE store # "device"
        BY <1>1, <2>3 DEF Persisted, Kept
    <2> QED BY <2>2, <2>3
<1> QED BY <1>6, <1>7, <1>8, <1>9, <1>10 DEF PhoneInv

-----------------------------------------------------------------------------
(* Drains.                                                                 *)

LEMMA TailRows ==
    ASSUME NEW rows \in Seq(Media), rows # <<>>
    PROVE  /\ Tail(rows) \in Seq(Media) /\ ToSet(Tail(rows)) \subseteq ToSet(rows)
           /\ Head(rows) \in ToSet(rows) /\ Head(rows) \in Media
BY DEF ToSet

(* One drain moves: it is over one that the phone's rows still hold.       *)
LEMMA DrainMoves ==
    ASSUME DrainInv, NEW d \in Drains, NEW rows, NEW sent \in BOOLEAN,
           drains' = [drains EXCEPT ![d] = [rows |-> rows, sent |-> sent]],
           UNCHANGED <<app, undo>>, host \subseteq host',
           rows \in Seq(Media), sent => rows # <<>> /\ Head(rows) \in host',
           app \in {"off", "opening"} => rows = <<>>,
           app = "open" => ToSet(rows) \subseteq undo.rows
    PROVE  DrainInv'
<1>1. /\ DOMAIN drains' = Drains
      /\ \A c \in Drains : drains'[c] = IF c = d THEN [rows |-> rows, sent |-> sent] ELSE drains[c]
    BY DEF DrainInv
<1>2. drains'[d].rows = rows /\ drains'[d].sent = sent
      /\ drains'[d] = [rows |-> drains'[d].rows, sent |-> drains'[d].sent]
    BY <1>1
<1> SUFFICES ASSUME NEW c \in Drains
             PROVE  /\ drains'[c].rows \in Seq(Media) /\ drains'[c].sent \in BOOLEAN
                    /\ drains'[c] = [rows |-> drains'[c].rows, sent |-> drains'[c].sent]
                    /\ drains'[c].sent => drains'[c].rows # <<>> /\ Head(drains'[c].rows) \in host'
                    /\ app' \in {"off", "opening"} => drains'[c].rows = <<>>
                    /\ app' = "open" => ToSet(drains'[c].rows) \subseteq undo'.rows
    BY <1>1 DEF DrainInv
<1>3. CASE c = d
    BY <1>2, <1>3
<1>4. CASE c # d
    <2>1. drains'[c] = drains[c]
        BY <1>1, <1>4
    <2> QED BY <2>1 DEF DrainInv
<1> QED BY <1>3, <1>4

LEMMA StartKeeps ==
    ASSUME PhoneInv, NEW d \in Drains, StartDrain(d)
    PROVE  PhoneInv' /\ UNCHANGED <<disk, vault, worldVars>>
<1> DEFINE rows == Oldest(Pending(work))
<1>1. /\ app = "open" /\ script = <<>>
      /\ drains' = [drains EXCEPT ![d] = [rows |-> rows, sent |-> FALSE]]
      /\ UNCHANGED <<vault, app, store, disk, work, undo, depth, script, call, worldVars>>
    BY DEF StartDrain, Ready, Idle, dbVars
<1>2. work = undo
    BY <1>1, IdleIsSettled DEF PhoneInv, Settled
<1>3. undo.queue \in Seq(Media) /\ ToSet(undo.queue) = undo.rows
    BY DEF PhoneInv, Whole, IsDatabase, Paired
<1>4. Pending(work) \in Seq(Media) /\ ToSet(Pending(work)) \subseteq undo.rows
    BY <1>2, <1>3, PendingRows
<1>5. rows \in Seq(Media) /\ ToSet(rows) \subseteq undo.rows
    BY <1>4, OldestRows, EvidenceAssumption
<1> HIDE DEF rows
<1>6. DrainInv'
    BY <1>1, <1>5, DrainMoves DEF PhoneInv, worldVars
<1> QED BY <1>1, <1>6, PhoneStutters DEF worldVars

LEMMA BytesKeep ==
    ASSUME PhoneInv, NEW d \in Drains, BytesArrive(d)
    PROVE  PhoneInv' /\ (EvidenceKept => EvidenceKept')
<1> DEFINE rows == drains[d].rows
<1>1. /\ script = <<>> /\ rows # <<>> /\ host' = host \cup {Head(rows)}
      /\ drains' = [drains EXCEPT ![d] = [rows |-> rows, sent |-> TRUE]]
      /\ UNCHANGED <<vault, app, store, disk, work, undo, depth, script, call, server, promised>>
    BY DEF BytesArrive, Idle, dbVars
<1>3. /\ rows \in Seq(Media)
      /\ app \in {"off", "opening"} => rows = <<>>
      /\ app = "open" => ToSet(rows) \subseteq undo.rows
    BY DEF PhoneInv, DrainInv
<1> HIDE DEF rows
<1>4. DrainInv'
    BY <1>1, <1>3, DrainMoves DEF PhoneInv
<1> QED BY <1>1, <1>4, PhoneStutters, KeptStutters

LEMMA OnwardMoves ==
    ASSUME DrainInv, NEW d \in Drains, Onward(d), drains[d].rows # <<>>,
           UNCHANGED <<app, undo, host>>
    PROVE  DrainInv'
<1> DEFINE rows == drains[d].rows
           next == Tail(rows)
<1>1. drains' = [drains EXCEPT ![d] = [rows |-> next, sent |-> FALSE]]
    BY DEF Onward
<1>2. /\ rows \in Seq(Media) /\ rows # <<>>
      /\ app \in {"off", "opening"} => rows = <<>>
      /\ app = "open" => ToSet(rows) \subseteq undo.rows
    BY DEF DrainInv
<1> HIDE DEF rows
<1>3. next \in Seq(Media) /\ ToSet(next) \subseteq ToSet(rows)
    BY <1>2, TailRows
<1> HIDE DEF next
<1> QED BY <1>1, <1>2, <1>3, DrainMoves

LEMMA MarkKeeps ==
    ASSUME PhoneInv, NEW d \in Drains, MarkUploaded(d)
    PROVE  PhoneInv' /\ UNCHANGED <<disk, vault, worldVars>>
<1> DEFINE i == Head(drains[d].rows)
<1>1. /\ app = "open" /\ script = <<>> /\ script' = UploadedScript(i) /\ call' = [does |-> "mark"]
      /\ drains[d].sent /\ Onward(d)
      /\ UNCHANGED <<vault, app, store, disk, work, undo, depth, worldVars>>
    BY DEF MarkUploaded, Ready, Idle, Run, dbVars
<1>2. Settled
    BY <1>1, IdleIsSettled DEF PhoneInv
<1>3. /\ drains[d].rows # <<>> /\ drains[d].rows \in Seq(Media)
      /\ i \in host /\ ToSet(drains[d].rows) \subseteq undo.rows
    BY <1>1 DEF PhoneInv, DrainInv
<1>4. i \in Media /\ i \in undo.rows
    BY <1>3, TailRows
<1>5. PICK x \in Media : /\ x = i /\ x \in undo.rows \cap host
                         /\ script' = UploadedScript(x)
    BY <1>1, <1>3, <1>4
<1>6. StageInv'
    <2>1. /\ script' = <<Begin, Into("done", x), Into("uploaded", x), End>>
          /\ depth' = 0 /\ work' = undo' /\ undo' = undo /\ host' = host
        BY <1>1, <1>2, <1>5, ScriptShapes DEF Settled, worldVars
    <2>2. At(<<Begin, Into("done", x), Into("uploaded", x), End>>, 0, undo)'
        BY <2>1 DEF At
    <2>3. Marking(x)'
        BY <1>1, <1>5, <2>1, <2>2 DEF Marking, MarkStage
    <2> QED BY <2>3 DEF StageInv
<1>7. Whole(disk)' /\ Whole(undo)' /\ AppInv'
    BY <1>1 DEF PhoneInv, Whole, Paired, AppInv, worldVars
<1>8. DrainInv'
    BY <1>1, <1>3, OnwardMoves DEF PhoneInv, worldVars
<1> QED BY <1>1, <1>6, <1>7, <1>8 DEF PhoneInv

LEMMA DeferKeeps ==
    ASSUME PhoneInv, NEW d \in Drains, UploadDeferred(d)
    PROVE  PhoneInv' /\ UNCHANGED <<disk, vault, worldVars>>
<1>1. /\ drains[d].rows # <<>> /\ Onward(d)
      /\ UNCHANGED <<vault, app, store, disk, work, undo, depth, script, call, worldVars>>
    BY DEF UploadDeferred, dbVars
<1>2. DrainInv'
    BY <1>1, OnwardMoves DEF PhoneInv, worldVars
<1> QED BY <1>1, <1>2, PhoneStutters DEF worldVars

-----------------------------------------------------------------------------
(* The wipe.                                                               *)

LEMMA WipeKeeps ==
    ASSUME PhoneInv, Wipe
    PROVE  PhoneInv' /\ (EvidenceKept => EvidenceKept')
<1>1. /\ app \in {"open", "refused"} /\ script = <<>> /\ store = "device"
      /\ vault' = "orphan" /\ app' = "wiping"
      /\ UNCHANGED <<store, disk, work, undo, depth, script, call, drains, host, server>>
    BY DEF Wipe, Idle, dbVars
<1>2. PICK force \in BOOLEAN, counted \in BOOLEAN :
        /\ force \/ MayWipe(work, counted)
        /\ promised' = IF force THEN {} ELSE promised
    BY DEF Wipe
<1>3. Settled /\ work = undo /\ disk = undo
    BY <1>1, IdleIsSettled DEF PhoneInv, Settled, AppInv
<1>4. StageInv' /\ AppInv'
    BY <1>1, <1>3 DEF PhoneInv, AppInv, StageInv, Settled
<1>5. Whole(disk)' /\ Whole(undo)' /\ DrainInv'
    BY <1>1 DEF PhoneInv, Whole, Paired, DrainInv
<1>6. ASSUME EvidenceKept PROVE EvidenceKept'
    <2>1. CASE force
        BY <1>2, <2>1 DEF EvidenceKept
    <2>2. CASE ~force
        <3>1. UnsentEvidence(disk) = 0
            BY <1>2, <1>3, <2>2 DEF MayWipe
        <3>2. IsFiniteSet(disk.outbox) /\ IsFiniteSet(disk.rows \ disk.uploaded)
            BY FS_Difference DEF PhoneInv, Whole, IsDatabase
        <3>3. Cardinality(disk.outbox) = 0 /\ Cardinality(disk.rows \ disk.uploaded) = 0
            <4>1. Cardinality(disk.outbox) \in Nat /\ Cardinality(disk.rows \ disk.uploaded) \in Nat
                BY <3>2, FS_CardinalityType
            <4> QED BY <3>1, <4>1 DEF UnsentEvidence
        <3>4. disk.outbox = {} /\ disk.rows \ disk.uploaded = {}
            BY <3>2, <3>3, FS_EmptySet
        <3> QED BY <1>1, <1>2, <1>6, <2>2, <3>4 DEF EvidenceKept, Kept
    <2> QED BY <2>1, <2>2
<1> QED BY <1>4, <1>5, <1>6 DEF PhoneInv

LEMMA FileGoes ==
    ASSUME PhoneInv, WipeFile
    PROVE  PhoneInv' /\ (EvidenceKept => EvidenceKept')
<1>1. /\ app = "wiping" /\ vault' = "empty" /\ app' = "gutted" /\ store' = "none"
      /\ disk' = Blank /\ work' = Blank /\ undo' = Blank
      /\ UNCHANGED <<depth, script, call, drains, host, server, promised>>
    BY DEF WipeFile, worldVars
<1>2. Settled /\ vault = "orphan"
    BY <1>1, AwayIsSettled DEF PhoneInv, AppInv
<1>3. Whole(disk)' /\ Whole(undo)'
    BY <1>1, EmptyIsWhole DEF Whole, Paired
<1>4. AppInv' /\ StageInv'
    BY <1>1, <1>2 DEF PhoneInv, AppInv, StageInv, Settled
<1>5. DrainInv'
    BY <1>1 DEF PhoneInv, DrainInv
<1>6. EvidenceKept => EvidenceKept'
    BY <1>1, <1>2 DEF EvidenceKept
<1> QED BY <1>3, <1>4, <1>5, <1>6 DEF PhoneInv

-----------------------------------------------------------------------------
LEMMA StepKeeps ==
    ASSUME PhoneInv, [Next]_vars
    PROVE  PhoneInv' /\ (Native /\ EvidenceKept => EvidenceKept')
<1>1. ASSUME PhoneInv', UNCHANGED <<disk, vault, worldVars>>
      PROVE  EvidenceKept => EvidenceKept'
    BY <1>1, KeptStutters DEF worldVars
<1>2. CASE RunBegin
    BY <1>1, <1>2, BeginKeeps
<1>3. CASE RunStatement
    BY <1>1, <1>3, StatementKeeps
<1>4. CASE RunEnd
    BY <1>4, EndKeeps
<1>5. CASE StatementFails
    BY <1>1, <1>5, FailureKeeps
<1>6. CASE Launch
    BY <1>6, LaunchKeeps
<1>7. CASE Killed \/ Closed \/ Restarted
    <2>1. Gone
        BY <1>7 DEF Killed, Closed, Restarted
    <2> QED BY <1>1, <2>1, GoneKeeps
<1>8. ASSUME NEW s \in Scans, Scan(s) \/ OpLands(s)
      PROVE  PhoneInv' /\ (EvidenceKept => EvidenceKept')
    BY <1>1, <1>8, ScanKeeps, LandingKeeps
<1>9. ASSUME NEW i \in Photos, Capture(i, Photos)
      PROVE  PhoneInv' /\ (EvidenceKept => EvidenceKept')
    <2>1. Photos \subseteq Media
        BY DEF Media
    <2> QED BY <1>1, <1>9, <2>1, CaptureKeeps
<1>10. ASSUME NEW i \in Notes, Capture(i, Notes)
       PROVE  PhoneInv' /\ (EvidenceKept => EvidenceKept')
    <2>1. Notes \subseteq Media
        BY DEF Media
    <2> QED BY <1>1, <1>10, <2>1, CaptureKeeps
<1>11. ASSUME NEW d \in Drains,
              StartDrain(d) \/ BytesArrive(d) \/ MarkUploaded(d) \/ UploadDeferred(d)
       PROVE  PhoneInv' /\ (EvidenceKept => EvidenceKept')
    BY <1>1, <1>11, StartKeeps, BytesKeep, MarkKeeps, DeferKeeps
<1>12. CASE Wipe
    BY <1>12, WipeKeeps
<1>13. CASE WipeFile
    BY <1>13, FileGoes
<1>14. CASE UNCHANGED vars
    <2>1. UNCHANGED <<vault, disk, app, store, work, undo, depth, script, call, drains, worldVars>>
        BY <1>14 DEF vars, dbVars
    <2>2. DrainInv'
        BY <2>1 DEF PhoneInv, DrainInv, worldVars
    <2>3. PhoneInv'
        BY <2>1, <2>2, PhoneStutters DEF worldVars
    <2> QED BY <1>1, <2>1, <2>3
<1> QED BY <1>2, <1>3, <1>4, <1>5, <1>6, <1>7, <1>8, <1>9, <1>10, <1>11, <1>12, <1>13, <1>14
        DEF Next, Runs, Faults, Captures, Uploads

(* What was written together is committed together, whatever is killed,    *)
(* fails, or is wiped, and whatever database and ladder the app has: no    *)
(* scan without its queue row or the server, no photo without its upload   *)
(* row, none uploaded on one side only.                                    *)
THEOREM PairsAreCommitted == Spec => []PairsWhole
<1>1. Init => PhoneInv
    BY StartsWhole DEF KeptInv
<1>2. PhoneInv /\ [Next]_vars => PhoneInv'
    BY StepKeeps
<1>3. PhoneInv => PairsWhole
    BY DEF PhoneInv, Whole, PairsWhole
<1> QED BY <1>1, <1>2, <1>3, PTL DEF Spec

(* On a phone, what the app said it kept is never lost unsent: it is on    *)
(* the disk under a key the phone has and queued, or the other side has it.*)
THEOREM PromisesAreKept ==
    ASSUME Native
    PROVE  Spec => []EvidenceKept
<1>1. Init => KeptInv
    BY StartsWhole
<1>2. KeptInv /\ [Next]_vars => KeptInv'
    BY StepKeeps DEF KeptInv
<1>3. KeptInv => EvidenceKept
    BY DEF KeptInv
<1> QED BY <1>1, <1>2, <1>3, PTL DEF Spec
=============================================================================
