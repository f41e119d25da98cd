------------------------------ MODULE KitList ------------------------------
(***************************************************************************)
(* Reading a client's kit list against the house's own product names       *)
(* (packages/core/src/kit-list.ts).  A word is a sequence of letters and a *)
(* text a sequence of words: case, accents and punctuation, which          *)
(* normalise folds, are gone.  Scores are exact, in parts of Unit, where   *)
(* the code has doubles.                                                   *)
(***************************************************************************)
EXTENDS Integers, Sequences, FiniteSets, SequencesExt

CONSTANTS
    Noise,    \* words that carry no identity: x, nos, pcs...
    Chatter   \* words of greetings and requests

\* Divisible by every word length to 8, and by 4 * n * m for phrases of up
\* to 3 words, so that no score is rounded.
Unit == 840 * 36

-----------------------------------------------------------------------------
Normalised(text) == SelectSeq(text, LAMBDA w : w \notin Noise)
Compact(text) == FlattenSeq(text)

Least(a, b) == IF a <= b THEN a ELSE b
Most(a, b) == IF a >= b THEN a ELSE b

(* Levenshtein, by two rolling rows: row[j + 1] is the distance of the     *)
(* first i letters of a from the first j of b.  (Asking for its length     *)
(* makes TLC finish a row before it starts the next.)                      *)
NextRow(a, b, i, prev) ==
    FoldLeft(LAMBDA row, j : Append(row,
                 Least(Least(prev[j + 1] + 1, row[j] + 1),
                       prev[j] + IF a[i] = b[j] THEN 0 ELSE 1)),
             <<i>>, [j \in 1..Len(b) |-> j])
EditDistance(a, b) ==
    Last(FoldLeft(LAMBDA prev, i : IF Len(prev) > 0 THEN NextRow(a, b, i, prev) ELSE prev,
                  [j \in 1..(Len(b) + 1) |-> j - 1], [i \in 1..Len(a) |-> i]))

Similarity(a, b) ==
    IF a = b THEN Unit
    ELSE Unit - (EditDistance(a, b) * Unit) \div Most(Len(a), Len(b))

-----------------------------------------------------------------------------
(* scoreAgainst: each word of the line takes its best among the name's.    *)
WordScore_AnyLength(word, other) == Similarity(word, other)
WordScore(word, other) ==
    IF Len(word) <= 3 THEN (IF word = other THEN Unit ELSE 0)
    ELSE Similarity(word, other)
BestWord(word, name) == Max({0} \cup {WordScore(word, name[i]) : i \in DOMAIN name})

ScoreAgainst(text, name) ==
    IF text = name \/ Compact(text) = Compact(name) THEN [score |-> Unit, whole |-> TRUE]
    ELSE IF text = <<>> \/ name = <<>> THEN [score |-> 0, whole |-> FALSE]
    ELSE LET n == Len(text)
             m == Len(name)
             total == FoldLeft(LAMBDA sum, w : sum + BestWord(w, name), 0, text)
         IN  [score |-> (total * (3 * m + Least(n, m))) \div (4 * n * m),
              whole |-> 10 * n >= 9 * m]

(* matchKitList for one line.  The catalogue is a sequence of names in the *)
(* matcher's order; the sort by score is stable, so ties keep that order.  *)
AtLeast(score, percent) == 100 * score >= percent * Unit

Scores(text, catalogue) ==
    FoldLeft(LAMBDA found, name : Append(found, ScoreAgainst(text, Normalised(name.words))),
             <<>>, catalogue)
Ranked(scores) ==
    LET above(p, q) == \/ scores[p].score > scores[q].score
                       \/ scores[p].score = scores[q].score /\ p < q
    IN  [i \in DOMAIN scores |->
            CHOOSE p \in DOMAIN scores :
                Cardinality({q \in DOMAIN scores : above(q, p)}) = i - 1]

FirstOf(seq, n) == SubSeq(seq, 1, Least(n, Len(seq)))

NoMatch(candidates) == [confidence |-> "none", product |-> 0, candidates |-> candidates]

MatchLine(text, catalogue) ==
    LET scores == Scores(text, catalogue)
        order == Ranked(scores)
        of(i) == scores[order[i]]
        top == of(1)
        gap == IF Len(order) = 1 THEN Unit ELSE top.score - of(2).score
        contested == Len(order) > 1 /\ 100 * gap < 6 * Unit
        unambiguous == AtLeast(top.score, 70) /\ AtLeast(gap, 20) /\ top.whole
    IN  IF catalogue = <<>> \/ ~AtLeast(top.score, 55)
          THEN NoMatch(FirstOf(order, 3))
        ELSE IF 1000 * top.score >= 999 * Unit /\ ~contested
          THEN [confidence |-> "exact", product |-> order[1], candidates |-> <<>>]
        ELSE IF (AtLeast(top.score, 82) \/ unambiguous) /\ ~contested
          THEN [confidence |-> "strong", product |-> order[1],
                candidates |-> FirstOf(Tail(order), 2)]
        ELSE [confidence |-> "unsure", product |-> 0, candidates |-> FirstOf(order, 3)]

MatchKitList(lines, catalogue) ==
    [i \in DOMAIN lines |-> lines[i] @@ MatchLine(lines[i].text, catalogue)]

-----------------------------------------------------------------------------
(* Parsing.  A part is what the client wrote between two commas: its words *)
(* and the number before or after them, -1 where there is none.  "1." in   *)
(* front of a line is numbering and is gone before this.                   *)
NoNumber == -1
Numeral(n) == IF n = NoNumber THEN <<>> ELSE << <<ToString(n)>> >>
IsCount(n) == n \in 1..999

IsNoiseLine(part) == \A i \in DOMAIN part.words : part.words[i] \in Noise \cup Chatter

\* The number in front is tried first; one that is no count stays a word.
ExtractQuantity(part) ==
    IF IsCount(part.before)
      THEN [quantity |-> part.before, rest |-> part.words \o Numeral(part.after)]
    ELSE IF IsCount(part.after)
      THEN [quantity |-> part.after, rest |-> Numeral(part.before) \o part.words]
    ELSE [quantity |-> 1, rest |-> Numeral(part.before) \o part.words \o Numeral(part.after)]

\* A line of more than eight parts is a sentence, not a list.
Whole(parts) ==
    [words |-> FlattenSeq([i \in DOMAIN parts |->
                   (IF i = 1 THEN <<>> ELSE Numeral(parts[i].before)) \o parts[i].words
                     \o (IF i = Len(parts) THEN <<>> ELSE Numeral(parts[i].after))]),
     before |-> Head(parts).before, after |-> Last(parts).after]

ParseKitList(message) ==
    LET parts == FlattenSeq([i \in DOMAIN message |->
                     IF Len(message[i]) <= 8 THEN message[i] ELSE <<Whole(message[i])>>])
        kit == SelectSeq(parts, LAMBDA p :
                   ~IsNoiseLine(p) /\ Normalised(ExtractQuantity(p).rest) # <<>>)
    IN  [i \in DOMAIN kit |-> [quantity |-> ExtractQuantity(kit[i]).quantity,
                               text |-> Normalised(ExtractQuantity(kit[i]).rest)]]
=============================================================================
