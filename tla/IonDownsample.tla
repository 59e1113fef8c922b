---------------------------- MODULE IonDownsample ----------------------------
(***************************************************************************)
(* IonDownsampleFilter: keeps a number or a share of the ions, of all of   *)
(* them or for each ion of the incoming ranges, the last place of the      *)
(* arrays being for ions that have no range.                               *)
(***************************************************************************)
EXTENDS FilterBase

\* A share is in percent.  incoming is rsdIncoming.
New == [fixedNumOut |-> TRUE, fraction |-> 10, maxAfterFilter |-> 5000,
        perSpecies |-> FALSE, ionFractions |-> <<>>, ionLimits |-> <<>>,
        incoming |-> NoRange]

\* getProperties: an ion that is not enabled has no rate.
PerIon(c) == c.incoming # NoRange /\ c.perSpecies
Shown(c) ==
    {<<"fixedNumOut", 0>>} \cup
    (IF c.incoming # NoRange THEN {<<"perSpecies", 0>>} ELSE {}) \cup
    (IF PerIon(c)
     THEN {<<"ion", i>> : i \in {j \in 1..Len(c.incoming.enabled) : c.incoming.enabled[j]}
                                \cup {Len(c.incoming.enabled) + 1}}
     ELSE {<<IF c.fixedNumOut THEN "maxAfterFilter" ELSE "fraction", 0>>})

Inputs(c, key) ==
    CASE key = "fraction" -> {20, 101}
      [] key = "maxAfterFilter" -> {0, 100}
      [] key = "ion" -> IF c.fixedNumOut THEN {0, 100} ELSE {20, 101}
      [] OTHER -> BOOLEAN

-----------------------------------------------------------------------------
\* The share counts only while there is no fixed number.
SetFraction(c, v) ==
    IF v \notin 0..100 THEN Refuse(c)
    ELSE IF c.fixedNumOut THEN Uncleared([c EXCEPT !.fraction = v], FALSE)
    ELSE Assign(c, "fraction", v)

\* The rate of one ion, of that array which is in use.
SetIonRate(c, i, v) ==
    IF c.fixedNumOut THEN AssignIth(c, "ionLimits", i, v)
    ELSE IF v \notin 0..100 THEN Refuse(c)
    ELSE AssignIth(c, "ionFractions", i, v)

SetProperty(c, key, i, v) ==
    CASE key = "fraction" -> SetFraction(c, v)
      [] key = "ion" -> SetIonRate(c, i, v)
      [] OTHER -> ApplyPropertyNow(c, key, v)

\* The answers to all that may be asked.
Answers(c, cached) ==
    UNION {{SetProperty(c, p[1], p[2], v) : v \in Inputs(c, p[1])} : p \in Shown(c)}

-----------------------------------------------------------------------------
\* vector::resize to a place for each ion and one more.
Resized(array, n, v) ==
    [i \in 1..(n + 1) |-> IF i \in DOMAIN array THEN array[i] ELSE v]
ResizedBoth(c, n) ==
    [c EXCEPT !.ionFractions = Resized(@, n, c.fraction),
              !.ionLimits = Resized(@, n, c.maxAfterFilter)]

\* Mutant of InitFilter: another range file leaves the arrays alone.
InitFilter_KeepArrays(c, range) ==
    IF range = NoRange THEN [c EXCEPT !.incoming = NoRange, !.perSpecies = FALSE]
    ELSE [c EXCEPT !.incoming = range]

\* The arrays are compared with the number of ions, of which they are to have
\* one more: if they had that already they stay one too short.  When the range
\* file is the one that it was, the flags are copied as many as there were.
InitFilter(c, range) ==
    LET n == Len(range.ions)
        same == c.incoming # NoRange /\ c.incoming.file = range.file
        sized == IF Len(c.ionFractions) # n \/ (c.incoming # NoRange /\ ~same)
                 THEN ResizedBoth(c, n) ELSE c
    IN  IF range = NoRange THEN [c EXCEPT !.incoming = NoRange, !.perSpecies = FALSE]
        ELSE IF ~same THEN [sized EXCEPT !.incoming = range]
        ELSE [sized EXCEPT
                !.incoming.ions = range.ions,
                !.incoming.enabled =
                    [i \in DOMAIN @ |-> IF i \in DOMAIN range.enabled
                                        THEN range.enabled[i] ELSE @[i]]]

-----------------------------------------------------------------------------
Clone(c) == Taking(New, c, DOMAIN New)

Stored == <<"fixedNumOut", "fraction", "maxAfterFilter", "perSpecies",
            "ionFractions", "ionLimits">>
Written == Each(Stored)
Wanted == Each(Stored)

ReadState(c) ==
    LET r == Restored(New, c, Written, Wanted)
    IN  [r EXCEPT !.ok = /\ r.ok /\ r.conf.fraction \in 0..100
                         /\ Len(r.conf.ionLimits) = Len(r.conf.ionFractions)]

-----------------------------------------------------------------------------
\* What the sampled ions depend on.
Output(c) ==
    IF c.perSpecies
    THEN <<"each", IF c.fixedNumOut THEN c.ionLimits ELSE c.ionFractions>>
    ELSE <<"all", IF c.fixedNumOut THEN c.maxAfterFilter ELSE c.fraction>>

Makes(in) == in \cap {"ions"}
Passes == StreamTypes \ {"ions"}
BlockMask == {"ions"}
EmitMask == {"ions"}
Streams(c, in, cached) == StreamsOf(Makes(in), Passes, BlockMask, EmitMask)

\* refresh and getProperties index the arrays with each ion of the range file,
\* and the place after them; initFilter reads as many flags as there were.
InBounds(c, range) ==
    /\ c.perSpecies => c.incoming # NoRange /\ Len(c.ionLimits) > Len(range.ions)
    /\ c.perSpecies => Len(c.ionLimits) > Len(c.incoming.enabled)
    /\ Len(c.ionLimits) = Len(c.ionFractions)
    /\ Len(c.incoming.enabled) <= Len(range.enabled)
=============================================================================
