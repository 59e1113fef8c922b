----------------------------- MODULE MCPlotPane -----------------------------
(* Two filters that make plots, of lines with two ranges and of areas, one  *)
(* of them below zero.                                                      *)
EXTENDS PlotPane

MCExtents ==
    [line |-> [x |-> <<0, 20>>, y |-> <<0, 4>>],
     dens |-> [x |-> <<0, 20>>, y |-> <<0, 2>>],
     scatter |-> [x |-> <<0, 20>>, y |-> <<-4, -2>>]]

Plotter(at, type, many) == [at |-> at, type |-> type, many |-> many]
Table(ranges, enforce) ==
    [ions |-> <<NewIon("Al", "red")>>, ranges |-> ranges,
     ids |-> [i \in DOMAIN ranges |-> 1], enforceConsistency |-> enforce]
Two == Table(<< <<0, 4>>, <<8, 20>> >>, TRUE)
\* The mouse meets a region at its left end, in its middle, beside its middle and at
\* its right end.
MCTables == {Two, Table(<< <<4, 16>>, <<17, 18>> >>, TRUE),
             Table(<< <<5, 17>>, <<18, 20>> >>, TRUE),
             Table(<< <<1, 11>>, <<16, 18>> >>, TRUE)}
MCStarts ==
    {[plotters |-> <<Plotter("p", "line", FALSE), Plotter("q", "scatter", FALSE)>>,
      table |-> Two]}
=============================================================================
