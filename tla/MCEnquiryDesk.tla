--------------------------- MODULE MCEnquiryDesk ---------------------------
(* The enquiry desk on small instances. *)
EXTENDS EnquiryDesk
CONSTANTS b1, b2

sony == <<"s", "o", "n", "y">>
sonny == <<"s", "o", "n", "n", "y">>
fx6 == <<"f", "x", "6">>
fx9 == <<"f", "x", "9">>
canon == <<"c", "a", "n", "o", "n">>
cannon == <<"c", "a", "n", "n", "o", "n">>
c70 == <<"c", "7", "0">>
pcs == <<"p", "c", "s">>
salam == <<"s", "a", "l", "a", "m">>

Name(words) == [words |-> words, dress |-> "plain"]
Dressed(words) == [words |-> words, dress |-> "dashed"]
Part(before, words, after) == [before |-> before, words |-> words, after |-> after]
Row(name, quantity, code) == [name |-> name, quantity |-> quantity, code |-> code]
Unit1(p, name, code) == [product |-> p, name |-> name, code |-> code, here |-> TRUE, fit |-> TRUE]

NoiseWords == {pcs}
ChatterWords == {salam}

TwoCameras == << Name(<<sony, fx6>>), Name(<<canon, c70>>) >>
ThreeUnits == << Unit1(1, TwoCameras[1], <<"S", 1>>), Unit1(1, TwoCameras[1], <<"S", 2>>),
                 Unit1(2, TwoCameras[2], <<"C", 1>>) >>

List1 == << << Part(NoNumber, <<salam>>, NoNumber) >>,
            << Part(2, <<sony, fx6>>, NoNumber), Part(NoNumber, <<cannon, c70, pcs>>, 1) >> >>
List2 == << << Part(NoNumber, <<sony, fx9>>, NoNumber) >>,
            << Part(NoNumber, <<fx6, sonny>>, 0) >> >>
List3 == << << Part(1, <<sony, fx6>>, NoNumber) >> >>

File1 == << Row(Name(<<fx6, sony>>), 1, "S"), Row(Dressed(<<sony, fx6>>), Blank, "S"),
            Row(Name(<<cannon, c70>>), 1, NoCode), Row(Name(<<canon, c70>>), Garbled, NoCode) >>
File2 == << Row(Name(<<sony, fx9>>), 1, NoCode), Row(Dressed(<<sony, fx9>>), 2, "F") >>

Week == Card(6, 1, {})
Fridays == Card(8, 2, {5})
BookedOnce ==
    (<<"card", "office">> :> [default |-> TRUE, knobs |-> Week])
      @@ (<<"rate", "office", 1, Server>> :> 10)
      @@ (<<"booking", b1>> :> [window |-> Window(1, 5), status |-> "confirmed"])
      @@ (<<"line", b1, 1, Server>> :> [product |-> 1, qty |-> 2, rate |-> NoRate])
      @@ (<<"line", b1, 2, Server>> :> [product |-> 2, qty |-> 1, rate |-> 7])

Lists == {List1, List2, List3}
TwoFiles == {File1, File2}
TwoWindows == {Window(1, 5), Window(4, 7)}
OneCard == {Fridays}
NoBook == [k \in {} |-> 0]
Start(book, who, asks, writes, moves) ==
    [book |-> book, role |-> who, budget |-> [asks |-> asks, writes |-> writes, moves |-> moves]]
FiveStarts ==
    {Start(BookedOnce, "manager", 2, 0, 1), Start(BookedOnce, "manager", 1, 1, 0),
     Start(BookedOnce, "manager", 0, 2, 1), Start(BookedOnce, "desk", 0, 2, 0),
     Start(NoBook, "manager", 0, 2, 1)}
=============================================================================
