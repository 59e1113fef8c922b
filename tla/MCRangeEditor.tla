--------------------------- MODULE MCRangeEditor ---------------------------
(* Two range filters with a plot each. Files in every format: with ions     *)
(* made up of several, ranges of none, two tables, a range turned round.    *)
(* The mass 5 stands for one of more than six digits, which prints as 4.    *)
EXTENDS RangeEditor

Al == << <<"Al", 0>> >>
O == << <<"O", 0>> >>
AlO == << <<"Al", 0>>, <<"O", 0>> >>
O1Al1 == << <<"O", 1>>, <<"Al", 1>> >>
MCAlphabetical == <<Al, AlO, O, O1Al1>>
MCNames == {Al, O}
MCPrinted == [m \in -20..20 |-> IF m = 5 THEN 4 ELSE m]

Ion(name, colour) == [short |-> name, long |-> name, colour |-> colour]
Row(start, end, freq) == [start |-> start, end |-> end, freq |-> freq]
Rng(ions, rows) == [format |-> "ORNL", ions |-> ions, heads |-> Len(ions), rows |-> rows]

Simple == Rng(<<Ion(Al, "red"), Ion(O, "blue")>>, <<Row(1, 2, <<1, 0>>), Row(3, 4, <<0, 1>>)>>)
OneRange == Rng(<<Ion(O, "blue")>>, <<Row(2, 3, <<1>>)>>)
Composite ==
    Rng(<<Ion(Al, "red"), Ion(O, "blue"), Ion(AlO, "grey")>>,
        <<Row(1, 2, <<1, 0, 0>>), Row(3, 4, <<1, 1, 0>>), Row(4, 5, <<0, 1, 0>>)>>)
Unnamed ==
    Rng(<<Ion(Al, "red"), Ion(O, "blue")>>,
        <<Row(1, 2, <<1, 0>>), Row(2, 3, <<0, 1>>), Row(4, 5, <<1, 1>>)>>)
Unused ==
    Rng(<<Ion(Al, "red"), Ion(O, "blue")>>,
        <<Row(1, 2, <<0, 0>>), Row(2, 3, <<0, 1>>), Row(3, 4, <<1, 0>>), Row(4, 5, <<0, 0>>)>>)
Double ==
    [format |-> "DBL_ORNL", first |-> Simple,
     second |-> Rng(<<Ion(AlO, "grey")>>, <<Row(3, 4, <<1>>)>>)]
Env(more) ==
    [format |-> "ENV", numIons |-> 2, numRanges |-> 2, ions |-> <<Ion(O, "blue"), Ion(O, "red")>>,
     rows |-> <<[name |-> O, start |-> 1, end |-> 3]>>, more |-> more]
Rrng(start, end) ==
    [format |-> "RRNG", numIons |-> 2, ions |-> <<Al, O>>, numRanges |-> 2,
     rows |-> <<[start |-> 1, end |-> 2, parts |-> <<<<O, 1>>, <<Al, 1>>>>, name |-> <<>>, colour |-> "red"],
                [start |-> start, end |-> end, parts |-> <<>>, name |-> O, colour |-> "blue"]>>]

MCFiles ==
    {Simple, OneRange, Composite, Unnamed, Unused, Double, Env(TRUE), Env(FALSE), Rrng(3, 5), Rrng(4, 3)}
MCFirstFiles == [a |-> Simple, b |-> OneRange]
MCPlots == <<"a", "b">>
=============================================================================
