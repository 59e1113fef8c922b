----------------------------- MODULE RangeFile ------------------------------
(* backend/APT/APTRanges.cpp: a range file in memory, which says what ion   *)
(* the hits with a mass in a range are of, and the four formats in which    *)
(* it is read and written. A name is a formula, a sequence of elements with *)
(* their multiplicity; masses are whole numbers.                            *)
EXTENDS Containers, SequencesExt, FiniteSetsExt

CONSTANTS
    Alphabetical,  \* the names there can be, in the order of their strings
    Printed        \* what six digits say of a mass, for each there can be

NoIon == 0      \* (unsigned int)-1, and the mark of a range of no ion
Composed == -1  \* the mark of a range whose ion has no name yet

EmptyTable == [ions |-> <<>>, ranges |-> <<>>, ids |-> <<>>, enforceConsistency |-> TRUE]
NewIon(name, colour) == [short |-> name, long |-> name, colour |-> colour]

\* Index i of the first element that is so, or 0.
First(n, IsSo(_)) ==
    IF \E i \in 1..n : IsSo(i)
    THEN Min({i \in 1..n : IsSo(i)}) ELSE 0
getIonID(t, name) == First(Len(t.ions), LAMBDA i : t.ions[i].short = name)
getIonIDByLongName(t, name) == First(Len(t.ions), LAMBDA i : t.ions[i].long = name)

(* Elements that stand several times in a name are counted together, where  *)
(* they stand first; one without a number counts once.                      *)
decomposeIonNames(name) ==
    LET first == {i \in DOMAIN name : \A j \in 1..(i - 1) : name[j][1] # name[i][1]}
        order == SetToSortSeq(first, <)
        times(p) == IF p[2] = 0 THEN 1 ELSE p[2]
        total(e) == FoldLeft(LAMBDA s, p : IF p[1] = e THEN s + times(p) ELSE s, 0, name)
    IN  [i \in 1..Len(order) |-> <<name[order[i]][1], total(name[order[i]][1])>>]

----------------------------------------------------------------------------
(* What counts as consistent. Only some of the ways in which two ranges can *)
(* overlap are looked for, and none of those in which one is turned round.  *)
Clash(a, b) ==
    \/ a[1] > b[1] /\ a[1] < b[2]
    \/ a[2] > b[1] /\ a[2] < b[2]
    \/ a[1] < b[1] /\ a[2] > b[2]
    \/ a = b

isSelfConsistent(t) ==
    /\ \A i \in DOMAIN t.ranges : t.ranges[i][1] # t.ranges[i][2]
    /\ \A i, j \in DOMAIN t.ranges : i < j => ~Clash(t.ranges[i], t.ranges[j])
    /\ \A i, j \in DOMAIN t.ions :
          i < j => t.ions[i].short # t.ions[j].short /\ t.ions[i].long # t.ions[j].long

(* setRangeStart, setRangeEnd: put back when that is asked for and the      *)
(* table would not be consistent.                                           *)
SetLimit(t, n, limit, mass) ==
    LET new == [t EXCEPT !.ranges[n][limit] = mass] IN
    IF t.enforceConsistency /\ ~isSelfConsistent(new) THEN t ELSE new

\* Mutant of moveRange: the limit is moved past those of others.
moveRange_Past(t, n, upperLimit, mass) ==
    [t EXCEPT !.ranges[n][IF upperLimit THEN 2 ELSE 1] = mass]

(* Nothing at all is looked at in a table that need not be consistent.      *)
moveRange(t, n, upperLimit, mass) ==
    LET me == t.ranges[n]
        others == {t.ranges[i] : i \in DOMAIN t.ranges \ {n}}
        allowed ==
            IF upperLimit
            THEN mass > me[1] /\ \A o \in others : \A limit \in 1..2 :
                                    ~(me[1] < o[limit] /\ mass > o[limit])
            ELSE mass < me[2] /\ \A o \in others : \A limit \in 1..2 :
                                    ~(me[2] > o[limit] /\ mass < o[limit])
    IN  IF t.enforceConsistency /\ ~allowed THEN t
        ELSE [t EXCEPT !.ranges[n][IF upperLimit THEN 2 ELSE 1] = mass]

moveBothRanges(t, n, low, high) ==
    LET me == t.ranges[n]
        others == {t.ranges[i] : i \in DOMAIN t.ranges \ {n}}
        allowed == \A o \in others : \A limit \in 1..2 :
            /\ ~(me[1] < o[limit] /\ high > o[limit])
            /\ ~(me[2] > o[limit] /\ low < o[limit])
    IN  IF allowed THEN [t EXCEPT !.ranges[n] = <<low, high>>] ELSE t

(* A range that starts where another does and ends after it is let in.      *)
addRange(t, start, end, ion) ==
    LET refused(o) ==
            \/ start > o[1] /\ start <= o[2]
            \/ end > o[1] /\ end <= o[2]
            \/ start < o[1] /\ end > o[2]
    IN  IF t.enforceConsistency /\ \E i \in DOMAIN t.ranges : refused(t.ranges[i]) THEN t
        ELSE [t EXCEPT !.ranges = Append(@, <<start, end>>), !.ids = Append(@, ion)]

(* Names are compared with those of the tenth ion on.                       *)
addIon(t, short, long, colour) ==
    IF \E i \in 10..Len(t.ions) : t.ions[i].short = short \/ t.ions[i].long = long
    THEN t
    ELSE [t EXCEPT !.ions = Append(@, [short |-> short, long |-> long, colour |-> colour])]

(* The last range takes the place of one that is erased.                    *)
SwapPop(s, n) == Front([s EXCEPT ![n] = Last(s)])

eraseRange(t, n) == [t EXCEPT !.ranges = SwapPop(@, n), !.ids = SwapPop(@, n)]

eraseIon(t, ion) ==
    LET kept == {i \in DOMAIN t.ids : t.ids[i] # ion}
        lowered(i) == IF i > ion THEN i - 1 ELSE i
    IN  [t EXCEPT !.ions = Only(@, DOMAIN @ \ {ion}),
                  !.ranges = Only(@, kept),
                  !.ids = [i \in 1..Cardinality(kept) |-> lowered(@[Nth(kept, i)])]]

----------------------------------------------------------------------------
(* What a table should be: ranges with a start below their end that have no *)
(* inner point in common, each of an ion there is, no name twice.           *)
Apart(a, b) == a[2] <= b[1] \/ b[2] <= a[1]
Sound(t) ==
    /\ Len(t.ids) = Len(t.ranges)
    /\ \A i \in DOMAIN t.ranges : t.ranges[i][1] < t.ranges[i][2]
    /\ \A i, j \in DOMAIN t.ranges : i # j => Apart(t.ranges[i], t.ranges[j])
    /\ \A i \in DOMAIN t.ids : t.ids[i] \in DOMAIN t.ions
    /\ \A i, j \in DOMAIN t.ions :
          i # j => t.ions[i].short # t.ions[j].short /\ t.ions[i].long # t.ions[j].long

-----------------------------------------------------------------------------
(* The formats. A file is what its lines say: counts, names, colours,       *)
(* numbers. A number behind an element's name is 0 where none is written.   *)
Unreadable == <<>>
NoColour == "random"   \* what rand() gives

\* The string of a name with a number put behind it.
Numbered(name, n) ==
    [name EXCEPT ![Len(name)] = <<@[1], IF @[2] = 0 THEN n ELSE 10 * @[2] + n>>]

InOrder(names) == SelectSeq(Alphabetical, LAMBDA name : name \in names)

----------------------------------------------------------------------------
(* The ORNL format: ions, and for each range a row that says how many of    *)
(* each ion it is made of.                                                  *)
readRNGHeader(f) == f.ions # <<>> /\ f.rows # <<>>
readRNGFreqTable(f) ==
    /\ f.heads = 1 \/ f.heads = Len(f.ions)
    /\ \A r \in ToSet(f.rows) : r.start < r.end /\ Len(r.freq) = Len(f.ions)
    /\ \E r \in ToSet(f.rows) : \E n \in ToSet(r.freq) : n # 0

(* Ions that no row counts may be names of what several ions make up. The   *)
(* one that matches is returned by its place in the map of these, which is  *)
(* then taken for its number among the ions.                                *)
Composites(f) ==
    InOrder({f.ions[i].short : i \in
        {i \in DOMAIN f.ions : \A r \in ToSet(f.rows) : r.freq[i] = 0}})
Fragments(name) ==
    {<< <<<<p[1], 0>>>>, p[2] >> : p \in ToSet(decomposeIonNames(name))}
matchComposedName(names, entries) == {k \in DOMAIN names : Fragments(names[k]) = entries}

Counted(row) == {i \in DOMAIN row.freq : row.freq[i] # 0}
RowIon(f, row) ==
    LET counted == Counted(row)
        entries == {<<f.ions[i].short, row.freq[i]>> : i \in counted}
        matches == matchComposedName(Composites(f), entries)
    IN  CASE counted = {} -> NoIon
          [] \E i \in counted : counted = {i} /\ row.freq[i] = 1 -> Max(counted)
          [] OTHER -> IF Composites(f) = <<>> THEN Composed
                      ELSE IF Cardinality(matches) = 1 THEN Max(matches) ELSE -2

(* Ranges of no ion are taken out while the list is gone through; the one   *)
(* that comes in an erased one's place is not looked at.                    *)
DropUnused(t) ==
    FoldLeft(LAMBDA s, i : IF i <= Len(s.ids) /\ s.ids[i] = NoIon THEN eraseRange(s, i) ELSE s,
             t, [i \in DOMAIN t.ids |-> i])

(* What is made up of several ions gets an ion of its own, at the places    *)
(* the rows had before any was taken out.                                   *)
RowName(f, row) ==
    FoldLeft(LAMBDA s, i : IF i \in Counted(row)
                           THEN Numbered(f.ions[i].short, row.freq[i]) \o s ELSE s,
             <<>>, [i \in DOMAIN f.ions |-> i])
NameComposed(f, t) ==
    LET rows == {r \in DOMAIN f.rows : RowIon(f, f.rows[r]) = Composed}
        give(s, name) ==
            [s EXCEPT !.ions = Append(@, NewIon(name, NoColour)),
                      !.ids = [i \in DOMAIN @ |->
                          IF i \in rows /\ RowName(f, f.rows[i]) = name
                          THEN Len(s.ions) + 1 ELSE @[i]]]
    IN  FoldLeft(give, t, InOrder({RowName(f, f.rows[r]) : r \in rows}))

openRNG(f) ==
    IF /\ readRNGHeader(f) /\ readRNGFreqTable(f)
       /\ \A r \in ToSet(f.rows) : RowIon(f, r) # -2
    THEN NameComposed(f, DropUnused(
            [ions |-> f.ions, enforceConsistency |-> TRUE,
             ranges |-> [r \in DOMAIN f.rows |-> <<f.rows[r].start, f.rows[r].end>>],
             ids |-> [r \in DOMAIN f.rows |-> RowIon(f, f.rows[r])]]))
    ELSE Unreadable

(* Two such tables one after the other: where the second has a range of the *)
(* first, its ion gives its name to the first one's.                        *)
Renamed(one, two) ==
    LET pairs == {p \in (DOMAIN one.ranges) \X (DOMAIN two.ranges) :
                     one.ranges[p[1]] = two.ranges[p[2]]}
        rename(ions, p) == [ions EXCEPT ![one.ids[p[1]]] = two.ions[two.ids[p[2]]]]
    IN  IF /\ one # Unreadable /\ two # Unreadable
           /\ \A p, q \in pairs : one.ids[p[1]] = one.ids[q[1]] => p = q
        THEN [one EXCEPT !.ions = FoldLeft(rename, @,
                 SetToSortSeq(pairs, LAMBDA p, q : p[1] < q[1]))]
        ELSE Unreadable
openDoubleRNG(f) == Renamed(openRNG(f.first), openRNG(f.second))

----------------------------------------------------------------------------
(* The ENV format: ions and ranges by name. An ion can stand in it several  *)
(* times, for its charges. Something must come after the ranges.            *)
EnvIons(f) ==
    LET new == {i \in DOMAIN f.ions : \A j \in 1..(i - 1) : f.ions[j].short # f.ions[i].short}
        order == SetToSortSeq(new, <)
    IN  [i \in 1..Len(order) |-> NewIon(f.ions[order[i]].short, f.ions[order[i]].colour)]
EnvTable(f, t) ==
    IF /\ t.ions # <<>> /\ f.rows # <<>> /\ f.more
       /\ Len(t.ions) <= f.numIons /\ Len(f.rows) <= f.numRanges
       /\ \A r \in ToSet(f.rows) : r.start <= r.end /\ getIonID(t, r.name) # 0
    THEN [t EXCEPT !.ranges = [r \in DOMAIN f.rows |-> <<f.rows[r].start, f.rows[r].end>>],
                   !.ids = [r \in DOMAIN f.rows |-> getIonID(t, f.rows[r].name)]]
    ELSE Unreadable
openENV(f) == EnvTable(f, [EmptyTable EXCEPT !.ions = EnvIons(f)])

(* The RRNG format: names of ions, and ranges that say how many of each are *)
(* in it, or else have a name; others are left out. What is named first     *)
(* gives the colour.                                                        *)
RrngIons(f) == f.numIons # 0 /\ Len(f.ions) <= f.numIons
RrngName(row) ==
    IF row.parts = <<>> THEN row.name
    ELSE FoldLeft(LAMBDA s, p : s \o IF p[2] = 1 THEN p[1] ELSE Numbered(p[1], p[2]),
                  <<>>, row.parts)
AddRrngRow(t, row) ==
    LET known == getIonID(t, RrngName(row))
        with(u, ion) == [u EXCEPT !.ranges = Append(@, <<row.start, row.end>>), !.ids = Append(@, ion)]
    IN  CASE RrngName(row) = <<>> -> t
          [] known # 0 -> with(t, known)
          [] OTHER -> with([t EXCEPT !.ions = Append(@, NewIon(RrngName(row), row.colour))],
                           Len(t.ions) + 1)
openRRNG(f) ==
    LET t == FoldLeft(AddRrngRow, EmptyTable, f.rows) IN
    IF /\ RrngIons(f)
       /\ \A r \in ToSet(f.rows) : \A p \in ToSet(r.parts) : p[1] \in ToSet(f.ions) /\ p[2] # 0
       /\ f.numRanges # 0 /\ Len(t.ranges) = f.numRanges
    THEN t ELSE Unreadable

----------------------------------------------------------------------------
(* Which reader: the ORNL reader also takes the first of two tables.        *)
Formats == <<"ORNL", "ENV", "DBL_ORNL", "RRNG">>
read(f, format) ==
    CASE format = "ORNL" /\ f.format = "ORNL" -> openRNG(f)
      [] format = "ORNL" /\ f.format = "DBL_ORNL" -> openRNG(f.first)
      [] format = "DBL_ORNL" /\ f.format = "DBL_ORNL" -> openDoubleRNG(f)
      [] format = "ENV" /\ f.format = "ENV" -> openENV(f)
      [] format = "RRNG" /\ f.format = "RRNG" -> openRRNG(f)
      [] OTHER -> Unreadable
IfConsistent(t) == IF t # Unreadable /\ isSelfConsistent(t) THEN t ELSE Unreadable
open(f, format) == IfConsistent(read(f, format))

(* The format found by looking at the file, then every other.               *)
detectFileType(f) ==
    IF f.format = "ENV" /\ openENV(f) = Unreadable THEN "none" ELSE f.format
Guessed(format, opened) ==
    LET opens == {k \in DOMAIN Formats : opened[k] # Unreadable} IN
    CASE \E k \in opens : Formats[k] = format -> opened[CHOOSE k \in opens : Formats[k] = format]
      [] opens = {} -> Unreadable
      [] OTHER -> opened[Min(opens)]
openGuessFormat(f) ==
    Guessed(detectFileType(f), [k \in DOMAIN Formats |-> open(f, Formats[k])])

AsPrinted(t) ==
    [t EXCEPT !.ranges = [r \in DOMAIN @ |-> <<Printed[@[r][1]], Printed[@[r][2]]>>]]

\* Mutant of write: the ORNL table has the columns of the ions' ranges shifted.
write_Shifted(t, format, stray) ==
    [format |-> "ORNL", ions |-> t.ions, heads |-> Len(t.ions),
     rows |-> [r \in DOMAIN t.ranges |->
        [start |-> Printed[t.ranges[r][1]], end |-> Printed[t.ranges[r][2]],
         freq |-> [i \in DOMAIN t.ions |-> IF i = (t.ids[r] % Len(t.ions)) + 1 THEN 1 ELSE 0]]]]

(* Limits are written with a stream's six digits. In RRNG a range is written *)
(* with the colour that has its number, or with the stray one that is found *)
(* in memory past the last.                                                 *)
write(t, format, stray) ==
    LET limits == AsPrinted(t).ranges IN
    CASE format = "ORNL" ->
            [format |-> "ORNL", ions |-> t.ions, heads |-> Len(t.ions),
             rows |-> [r \in DOMAIN limits |->
                [start |-> limits[r][1], end |-> limits[r][2],
                 freq |-> [i \in DOMAIN t.ions |-> IF i = t.ids[r] THEN 1 ELSE 0]]]]
      [] format = "ENV" ->
            [format |-> "ENV", numIons |-> Len(t.ions), numRanges |-> Len(limits),
             ions |-> t.ions, more |-> FALSE,
             rows |-> [r \in DOMAIN limits |->
                [start |-> limits[r][1], end |-> limits[r][2],
                 name |-> t.ions[t.ids[r]].short]]]
      [] format = "RRNG" ->
            [format |-> "RRNG", numIons |-> Len(t.ions), numRanges |-> Len(limits),
             ions |-> [i \in DOMAIN t.ions |-> t.ions[i].short],
             rows |-> [r \in DOMAIN limits |->
                [start |-> limits[r][1], end |-> limits[r][2],
                 parts |-> <<<<t.ions[t.ids[r]].short, 1>>>>, name |-> t.ions[t.ids[r]].short,
                 colour |-> IF r \in DOMAIN t.ions THEN t.ions[r].colour ELSE stray]]]
=============================================================================
