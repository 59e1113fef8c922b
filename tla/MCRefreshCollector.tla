-------------------------- MODULE MCRefreshCollector --------------------------
(* Trees that make the collector's levels go up and down: three leaves side  *)
(* by side, two leaves below a chain, two branches side by side, a branch    *)
(* that returns past two levels, and starts below the root.                  *)
EXTENDS RefreshCollector

Shape(depths) == [p \in DOMAIN depths |-> [depth |-> depths[p]]]

MCTrees ==
    {[shape |-> Shape(<<0, 1, 1, 1>>),       starts |-> <<1>>],
     [shape |-> Shape(<<0, 1, 2, 2>>),       starts |-> <<1>>],
     [shape |-> Shape(<<0, 1, 2, 1, 2>>),    starts |-> <<1>>],
     [shape |-> Shape(<<0, 1, 2, 3, 1>>),    starts |-> <<1>>],
     [shape |-> Shape(<<0, 1, 2, 1, 2>>),    starts |-> <<2, 4>>],
     [shape |-> Shape(<<0, 1, 2, 3, 0>>),    starts |-> <<2, 5>>],
     [shape |-> Shape(<<0, 1, 2, 2, 1, 2>>), starts |-> <<3, 4, 5>>]}
=============================================================================
