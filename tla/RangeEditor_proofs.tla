------------------------- MODULE RangeEditor_proofs -------------------------
(***************************************************************************)
(* What the range filters' tables and the dialog's copies of them go       *)
(* through, for any files, plots, masses and names: first what the         *)
(* operations on a table leave of it, then the invariant and every step    *)
(* that keeps it.                                                          *)
(***************************************************************************)
EXTENDS RangeEditor

-----------------------------------------------------------------------------
(* The invariant.                                                          *)

\* Only OK gives a filter a table that need not be consistent.
Checked == \A f \in Filters : "unchecked" \notin noted[f] => rng[f].enforceConsistency

\* A grid shows the copy it was filled from, as it is now, but for the rows that
\* stand for places past the table's end, whose cells show what was typed; a
\* plot that shares its copy with no other shows what was there when it was
\* drawn, and that is still there, unless an edge was dragged onto the other.
ShortNames(ions) == [i \in DOMAIN ions |-> ions[i].short]
Sole(p) == \A q \in DOMAIN Plots \ {p} : Plots[q] # Plots[p]
Begins(s, t) == Len(s) <= Len(t) /\ \A i \in DOMAIN s : s[i] = t[i]
RowsFit(rows, ranges) ==
    /\ Len(rows.shown) = Len(ranges)
    /\ \A row \in DOMAIN rows.shown : row > rows.pending => rows.shown[row] = ranges[row]
RangesShown ==
    isOpen /\ rangeRows.of \in Filters => RowsFit(rangeRows, modified[rangeRows.of].ranges)
IonsShown ==
    isOpen /\ ionRows.of \in Filters => ionRows.shown = ShortNames(modified[ionRows.of].ions)
RegionsShown ==
    isOpen => \A p \in DOMAIN Plots :
        Sole(p) /\ ~regions[p].emptied => Begins(regions[p].shown, modified[Plots[p]].ranges)
Shown == RangesShown /\ IonsShown /\ RegionsShown

SoundWhereNothingNoted == \A f \in Filters : noted[f] = {} => Sound(rng[f])

IInv ==
    /\ TypeOK /\ Checked /\ SoundWhereNothingNoted
    /\ Shown /\ EditsHitWhatIsShown /\ OkOnlyWhenConsistent

-----------------------------------------------------------------------------
(* Tables.                                                                 *)

\* One limit of a range is set.
LEMMA LimitSet ==
    ASSUME NEW r \in Ranges, NEW k \in {1, 2}, NEW m \in Int
    PROVE  /\ [r EXCEPT ![k] = m] \in Ranges
           /\ [r EXCEPT ![k] = m] = IF k = 1 THEN <<m, r[2]>> ELSE <<r[1], m>>
<1>1. PICK a \in Int, b \in Int : r = <<a, b>> BY DEF Ranges
<1>2. CASE k = 1
  <2>1. [<<a, b>> EXCEPT ![1] = m] = <<m, b>> OBVIOUS
  <2> QED BY <1>1, <1>2, <2>1 DEF Ranges
<1>3. CASE k = 2
  <2>1. [<<a, b>> EXCEPT ![2] = m] = <<a, m>> OBVIOUS
  <2> QED BY <1>1, <1>3, <2>1 DEF Ranges
<1> QED BY <1>2, <1>3

LEMMA TableIs ==
    ASSUME NEW t \in Tables
    PROVE  /\ t.ions \in Seq(Ions) /\ t.ranges \in Seq(Ranges) /\ t.ids \in Seq(Int)
           /\ t.enforceConsistency \in BOOLEAN /\ Len(t.ids) = Len(t.ranges)
           /\ DOMAIN t.ranges = 1..Len(t.ranges) /\ Len(t.ranges) \in Nat
           /\ DOMAIN t.ids = 1..Len(t.ranges)
           /\ DOMAIN t.ions = 1..Len(t.ions) /\ Len(t.ions) \in Nat
BY DEF Tables

\* One part of a table is replaced.
LEMMA PartSet ==
    ASSUME NEW t \in Tables
    PROVE  /\ \A ranges \in Seq(Ranges) : Len(ranges) = Len(t.ranges) =>
                /\ [t EXCEPT !.ranges = ranges] \in Tables
                /\ [t EXCEPT !.ranges = ranges].ranges = ranges
                /\ [t EXCEPT !.ranges = ranges].ions = t.ions
                /\ [t EXCEPT !.ranges = ranges].ids = t.ids
                /\ [t EXCEPT !.ranges = ranges].enforceConsistency = t.enforceConsistency
           /\ \A ids \in Seq(Int) : Len(ids) = Len(t.ranges) =>
                /\ [t EXCEPT !.ids = ids] \in Tables
                /\ [t EXCEPT !.ids = ids].ranges = t.ranges
                /\ [t EXCEPT !.ids = ids].ions = t.ions
                /\ [t EXCEPT !.ids = ids].ids = ids
                /\ [t EXCEPT !.ids = ids].enforceConsistency = t.enforceConsistency
           /\ \A ions \in Seq(Ions) :
                /\ [t EXCEPT !.ions = ions] \in Tables
                /\ [t EXCEPT !.ions = ions].ranges = t.ranges
                /\ [t EXCEPT !.ions = ions].ions = ions
                /\ [t EXCEPT !.ions = ions].ids = t.ids
                /\ [t EXCEPT !.ions = ions].enforceConsistency = t.enforceConsistency
BY DEF Tables

LEMMA ElementSet ==
    ASSUME NEW T, NEW s \in Seq(T), NEW n \in DOMAIN s, NEW x \in T
    PROVE  /\ [s EXCEPT ![n] = x] \in Seq(T) /\ Len([s EXCEPT ![n] = x]) = Len(s)
           /\ DOMAIN [s EXCEPT ![n] = x] = DOMAIN s
OBVIOUS

\* The limits of a range, its ion, a part of an ion, and whether the table is to
\* be consistent are set, each without the rest.
LEMMA RangeSet ==
    ASSUME NEW t \in Tables, NEW n \in DOMAIN t.ranges, NEW r \in Ranges
    PROVE  /\ [t EXCEPT !.ranges[n] = r] \in Tables
           /\ [t EXCEPT !.ranges[n] = r].ranges = [t.ranges EXCEPT ![n] = r]
           /\ [t EXCEPT !.ranges[n] = r].ions = t.ions
           /\ [t EXCEPT !.ranges[n] = r].ids = t.ids
           /\ [t EXCEPT !.ranges[n] = r].enforceConsistency = t.enforceConsistency
<1> DEFINE new == [t.ranges EXCEPT ![n] = r]
<1>1. t.ranges \in Seq(Ranges) BY TableIs
<1>2. new \in Seq(Ranges) /\ Len(new) = Len(t.ranges) BY <1>1, ElementSet
<1>3. [t EXCEPT !.ranges[n] = r] = [t EXCEPT !.ranges = new] OBVIOUS
<1> HIDE DEF new
<1>4. /\ [t EXCEPT !.ranges = new] \in Tables
      /\ [t EXCEPT !.ranges = new].ranges = new
      /\ [t EXCEPT !.ranges = new].ions = t.ions
      /\ [t EXCEPT !.ranges = new].ids = t.ids
      /\ [t EXCEPT !.ranges = new].enforceConsistency = t.enforceConsistency
  BY <1>2, PartSet
<1> QED BY <1>3, <1>4 DEF new

LEMMA RangeLimitSet ==
    ASSUME NEW t \in Tables, NEW n \in DOMAIN t.ranges, NEW k \in {1, 2}, NEW m \in Int
    PROVE  /\ [t EXCEPT !.ranges[n][k] = m]
                = [t EXCEPT !.ranges[n] = IF k = 1 THEN <<m, t.ranges[n][2]>>
                                          ELSE <<t.ranges[n][1], m>>]
           /\ (IF k = 1 THEN <<m, t.ranges[n][2]>> ELSE <<t.ranges[n][1], m>>) \in Ranges
<1> DEFINE r == t.ranges[n]
           new == [r EXCEPT ![k] = m]
<1>1. r \in Ranges BY TableIs
<1>2. new \in Ranges /\ new = IF k = 1 THEN <<m, r[2]>> ELSE <<r[1], m>>
  <2> HIDE DEF r
  <2> QED BY <1>1, LimitSet
<1>3. [t EXCEPT !.ranges[n][k] = m] = [t EXCEPT !.ranges[n] = new] OBVIOUS
<1> HIDE DEF new
<1> QED BY <1>2, <1>3

LEMMA IonOfRangeSet ==
    ASSUME NEW t \in Tables, NEW n \in DOMAIN t.ids, NEW ion \in Int
    PROVE  /\ [t EXCEPT !.ids[n] = ion] \in Tables
           /\ [t EXCEPT !.ids[n] = ion].ranges = t.ranges
           /\ [t EXCEPT !.ids[n] = ion].ions = t.ions
           /\ [t EXCEPT !.ids[n] = ion].ids = [t.ids EXCEPT ![n] = ion]
           /\ [t EXCEPT !.ids[n] = ion].enforceConsistency = t.enforceConsistency
<1> DEFINE new == [t.ids EXCEPT ![n] = ion]
<1>1. t.ids \in Seq(Int) /\ Len(t.ids) = Len(t.ranges) BY TableIs
<1>2. new \in Seq(Int) /\ Len(new) = Len(t.ranges)
  <2>1. new \in Seq(Int) /\ Len(new) = Len(t.ids) BY <1>1, ElementSet
  <2> QED BY <2>1, <1>1
<1>3. [t EXCEPT !.ids[n] = ion] = [t EXCEPT !.ids = new] OBVIOUS
<1> HIDE DEF new
<1>4. /\ [t EXCEPT !.ids = new] \in Tables
      /\ [t EXCEPT !.ids = new].ranges = t.ranges
      /\ [t EXCEPT !.ids = new].ions = t.ions
      /\ [t EXCEPT !.ids = new].ids = new
      /\ [t EXCEPT !.ids = new].enforceConsistency = t.enforceConsistency
  BY <1>2, PartSet
<1> QED BY <1>3, <1>4 DEF new

LEMMA ConsistencySet ==
    ASSUME NEW t \in Tables, NEW c \in BOOLEAN
    PROVE  /\ [t EXCEPT !.enforceConsistency = c] \in Tables
           /\ [t EXCEPT !.enforceConsistency = c].ranges = t.ranges
           /\ [t EXCEPT !.enforceConsistency = c].ions = t.ions
           /\ [t EXCEPT !.enforceConsistency = c].ids = t.ids
           /\ [t EXCEPT !.enforceConsistency = c].enforceConsistency = c
BY DEF Tables

LEMMA IonSet ==
    ASSUME NEW t \in Tables, NEW row \in DOMAIN t.ions, NEW ion \in Ions
    PROVE  /\ [t EXCEPT !.ions[row] = ion] \in Tables
           /\ [t EXCEPT !.ions[row] = ion].ranges = t.ranges
           /\ [t EXCEPT !.ions[row] = ion].ions = [t.ions EXCEPT ![row] = ion]
           /\ [t EXCEPT !.ions[row] = ion].ids = t.ids
           /\ [t EXCEPT !.ions[row] = ion].enforceConsistency = t.enforceConsistency
<1> DEFINE new == [t.ions EXCEPT ![row] = ion]
<1>1. t.ions \in Seq(Ions) BY TableIs
<1>2. new \in Seq(Ions) BY <1>1, ElementSet
<1>3. [t EXCEPT !.ions[row] = ion] = [t EXCEPT !.ions = new] OBVIOUS
<1> HIDE DEF new
<1>4. /\ [t EXCEPT !.ions = new] \in Tables
      /\ [t EXCEPT !.ions = new].ranges = t.ranges
      /\ [t EXCEPT !.ions = new].ions = new
      /\ [t EXCEPT !.ions = new].ids = t.ids
      /\ [t EXCEPT !.ions = new].enforceConsistency = t.enforceConsistency
  BY <1>2, PartSet
<1> QED BY <1>3, <1>4 DEF new

WithShort(t, row, name) == [t EXCEPT !.ions[row].short = name]
WithLong(t, row, name) == [t EXCEPT !.ions[row].long = name]
WithColour(t, row, colour) == [t EXCEPT !.ions[row].colour = colour]

\* The parts of an ion that can be set, and what the grid shows of it then.
LEMMA IonPartSet ==
    ASSUME NEW t \in Tables, NEW row \in DOMAIN t.ions
    PROVE  /\ \A name \in Names :
                /\ WithShort(t, row, name) \in Tables
                /\ WithShort(t, row, name).ranges = t.ranges
                /\ WithShort(t, row, name).enforceConsistency = t.enforceConsistency
                /\ ShortNames(WithShort(t, row, name).ions)
                      = [ShortNames(t.ions) EXCEPT ![row] = name]
           /\ \A name \in Names :
                /\ WithLong(t, row, name) \in Tables
                /\ WithLong(t, row, name).ranges = t.ranges
                /\ WithLong(t, row, name).enforceConsistency = t.enforceConsistency
                /\ ShortNames(WithLong(t, row, name).ions) = ShortNames(t.ions)
           /\ \A colour \in Colours :
                /\ WithColour(t, row, colour) \in Tables
                /\ WithColour(t, row, colour).ranges = t.ranges
                /\ WithColour(t, row, colour).enforceConsistency = t.enforceConsistency
                /\ ShortNames(WithColour(t, row, colour).ions) = ShortNames(t.ions)
<1> DEFINE ion == t.ions[row]
<1>1. ion \in Ions /\ t.ions \in Seq(Ions) BY TableIs
<1>2. ASSUME NEW name \in Names
      PROVE  /\ [ion EXCEPT !.short = name] \in Ions /\ [ion EXCEPT !.short = name].short = name
             /\ [ion EXCEPT !.long = name] \in Ions /\ [ion EXCEPT !.long = name].short = ion.short
  <2> HIDE DEF ion
  <2>1. name \in AllNames BY DEF AllNames
  <2> QED BY <1>1, <2>1 DEF Ions
<1>3. ASSUME NEW colour \in Colours
      PROVE  [ion EXCEPT !.colour = colour] \in Ions /\ [ion EXCEPT !.colour = colour].short = ion.short
  <2> HIDE DEF ion
  <2> QED BY <1>1 DEF Ions
<1>4. ASSUME NEW new \in Ions
      PROVE  ShortNames([t.ions EXCEPT ![row] = new]) = [ShortNames(t.ions) EXCEPT ![row] = new.short]
  BY <1>1 DEF ShortNames
<1>5. [ShortNames(t.ions) EXCEPT ![row] = ion.short] = ShortNames(t.ions)
  BY <1>1 DEF ShortNames
<1>6. ASSUME NEW name \in Names
      PROVE  /\ WithShort(t, row, name) = [t EXCEPT !.ions[row] = [ion EXCEPT !.short = name]]
             /\ WithLong(t, row, name) = [t EXCEPT !.ions[row] = [ion EXCEPT !.long = name]]
  BY DEF WithShort, WithLong
<1>7. ASSUME NEW colour \in Colours
      PROVE  WithColour(t, row, colour) = [t EXCEPT !.ions[row] = [ion EXCEPT !.colour = colour]]
  BY DEF WithColour
<1> HIDE DEF ion
<1>8. ASSUME NEW name \in Names
      PROVE /\ WithShort(t, row, name) \in Tables
            /\ WithShort(t, row, name).ranges = t.ranges
            /\ WithShort(t, row, name).enforceConsistency = t.enforceConsistency
            /\ ShortNames(WithShort(t, row, name).ions)
                  = [ShortNames(t.ions) EXCEPT ![row] = name]
  <2> DEFINE new == [ion EXCEPT !.short = name]
  <2>1. new \in Ions /\ new.short = name BY <1>2
  <2>2. WithShort(t, row, name) = [t EXCEPT !.ions[row] = new] BY <1>6
  <2> HIDE DEF new
  <2>3. /\ [t EXCEPT !.ions[row] = new] \in Tables
        /\ [t EXCEPT !.ions[row] = new].ranges = t.ranges
        /\ [t EXCEPT !.ions[row] = new].ions = [t.ions EXCEPT ![row] = new]
        /\ [t EXCEPT !.ions[row] = new].enforceConsistency = t.enforceConsistency
    BY <2>1, IonSet
  <2>4. ShortNames([t.ions EXCEPT ![row] = new]) = [ShortNames(t.ions) EXCEPT ![row] = new.short]
    BY <2>1, <1>4
  <2> QED BY <2>1, <2>2, <2>3, <2>4
<1>9. ASSUME NEW name \in Names
      PROVE /\ WithLong(t, row, name) \in Tables
            /\ WithLong(t, row, name).ranges = t.ranges
            /\ WithLong(t, row, name).enforceConsistency = t.enforceConsistency
            /\ ShortNames(WithLong(t, row, name).ions) = ShortNames(t.ions)
  <2> DEFINE new == [ion EXCEPT !.long = name]
  <2>1. new \in Ions /\ new.short = ion.short BY <1>2
  <2>2. WithLong(t, row, name) = [t EXCEPT !.ions[row] = new] BY <1>6
  <2> HIDE DEF new
  <2>3. /\ [t EXCEPT !.ions[row] = new] \in Tables
        /\ [t EXCEPT !.ions[row] = new].ranges = t.ranges
        /\ [t EXCEPT !.ions[row] = new].ions = [t.ions EXCEPT ![row] = new]
        /\ [t EXCEPT !.ions[row] = new].enforceConsistency = t.enforceConsistency
    BY <2>1, IonSet
  <2>4. ShortNames([t.ions EXCEPT ![row] = new]) = [ShortNames(t.ions) EXCEPT ![row] = new.short]
    BY <2>1, <1>4
  <2> QED BY <2>1, <2>2, <2>3, <2>4, <1>5
<1>10. ASSUME NEW colour \in Colours
      PROVE /\ WithColour(t, row, colour) \in Tables
            /\ WithColour(t, row, colour).ranges = t.ranges
            /\ WithColour(t, row, colour).enforceConsistency = t.enforceConsistency
            /\ ShortNames(WithColour(t, row, colour).ions) = ShortNames(t.ions)
  <2> DEFINE new == [ion EXCEPT !.colour = colour]
  <2>1. new \in Ions /\ new.short = ion.short BY <1>3
  <2>2. WithColour(t, row, colour) = [t EXCEPT !.ions[row] = new] BY <1>7
  <2> HIDE DEF new
  <2>3. /\ [t EXCEPT !.ions[row] = new] \in Tables
        /\ [t EXCEPT !.ions[row] = new].ranges = t.ranges
        /\ [t EXCEPT !.ions[row] = new].ions = [t.ions EXCEPT ![row] = new]
        /\ [t EXCEPT !.ions[row] = new].enforceConsistency = t.enforceConsistency
    BY <2>1, IonSet
  <2>4. ShortNames([t.ions EXCEPT ![row] = new]) = [ShortNames(t.ions) EXCEPT ![row] = new.short]
    BY <2>1, <1>4
  <2> QED BY <2>1, <2>2, <2>3, <2>4, <1>5
<1> QED BY <1>8, <1>9, <1>10

-----------------------------------------------------------------------------
(* The operations on a table.                                              *)

LEMMA SwapPopIs ==
    ASSUME NEW T, NEW s \in Seq(T), NEW n \in DOMAIN s
    PROVE  SwapPop(s, n) \in Seq(T) /\ Len(SwapPop(s, n)) = Len(s) - 1
<1> DEFINE new == [s EXCEPT ![n] = Last(s)]
           m == Len(s)
<1>1. m \in Nat \ {0} /\ n \in 1..m OBVIOUS
<1>2. Last(s) \in T BY <1>1 DEF Last
<1>3. new \in Seq(T) /\ Len(new) = m BY <1>2, ElementSet
<1>4. SwapPop(s, n) = SubSeq(new, 1, m - 1) BY <1>3 DEF SwapPop, Front
<1> HIDE DEF new, m
<1>5. m - 1 \in Nat /\ m - 1 <= m BY <1>1
<1>6. \A i \in 1..(m - 1) : i \in 1..Len(new) BY <1>3, <1>5, <1>1
<1>7. SubSeq(new, 1, m - 1) \in Seq(T) /\ Len(SubSeq(new, 1, m - 1)) = m - 1
  BY <1>3, <1>5, <1>6
<1> QED BY <1>4, <1>7 DEF m

LEMMA AddRangeIs ==
    ASSUME NEW t \in Tables, ~t.enforceConsistency,
           NEW start \in Int, NEW end \in Int, NEW ion \in Int
    PROVE  /\ addRange(t, start, end, ion) \in Tables
           /\ addRange(t, start, end, ion).ranges = Append(t.ranges, <<start, end>>)
           /\ addRange(t, start, end, ion).ions = t.ions
           /\ ~addRange(t, start, end, ion).enforceConsistency
<1> DEFINE ranges == Append(t.ranges, <<start, end>>)
           ids == Append(t.ids, ion)
           u == [t EXCEPT !.ranges = ranges, !.ids = ids]
<1>1. addRange(t, start, end, ion) = u BY DEF addRange
<1>2. <<start, end>> \in Ranges BY DEF Ranges
<1>3. ranges \in Seq(Ranges) /\ ids \in Seq(Int) /\ Len(ids) = Len(ranges)
  BY <1>2, TableIs
<1> HIDE DEF ranges, ids
<1>4. u \in Tables /\ u.ranges = ranges /\ u.ions = t.ions
      /\ u.enforceConsistency = t.enforceConsistency
  BY <1>3 DEF Tables
<1> QED BY <1>1, <1>4 DEF ranges

LEMMA AddIonIs ==
    ASSUME NEW t \in Tables, NEW short \in Names, NEW long \in Names, NEW colour \in Colours
    PROVE  /\ addIon(t, short, long, colour) \in Tables
           /\ addIon(t, short, long, colour).ranges = t.ranges
           /\ addIon(t, short, long, colour).enforceConsistency = t.enforceConsistency
<1> DEFINE ion == [short |-> short, long |-> long, colour |-> colour]
           ions == Append(t.ions, ion)
<1>1. ion \in Ions BY DEF Ions, AllNames
<1>2. ions \in Seq(Ions) BY <1>1, TableIs
<1>3. addIon(t, short, long, colour) \in {t, [t EXCEPT !.ions = ions]} BY DEF addIon
<1> HIDE DEF ions
<1>4. /\ [t EXCEPT !.ions = ions] \in Tables
      /\ [t EXCEPT !.ions = ions].ranges = t.ranges
      /\ [t EXCEPT !.ions = ions].enforceConsistency = t.enforceConsistency
  BY <1>2, PartSet
<1> QED BY <1>3, <1>4

LEMMA EraseRangeIs ==
    ASSUME NEW t \in Tables, NEW n \in DOMAIN t.ranges
    PROVE  /\ eraseRange(t, n) \in Tables
           /\ eraseRange(t, n).ions = t.ions
           /\ eraseRange(t, n).enforceConsistency = t.enforceConsistency
<1> DEFINE ranges == SwapPop(t.ranges, n)
           ids == SwapPop(t.ids, n)
           u == [t EXCEPT !.ranges = ranges, !.ids = ids]
<1>1. eraseRange(t, n) = u BY DEF eraseRange
<1>2. /\ t.ranges \in Seq(Ranges) /\ t.ids \in Seq(Int) /\ Len(t.ids) = Len(t.ranges)
      /\ n \in DOMAIN t.ids
  BY TableIs
<1>3. ranges \in Seq(Ranges) /\ ids \in Seq(Int) /\ Len(ids) = Len(ranges)
  <2>1. ranges \in Seq(Ranges) /\ Len(ranges) = Len(t.ranges) - 1 BY <1>2, SwapPopIs
  <2>2. ids \in Seq(Int) /\ Len(ids) = Len(t.ids) - 1 BY <1>2, SwapPopIs
  <2> QED BY <2>1, <2>2, <1>2
<1> HIDE DEF ranges, ids
<1>4. u \in Tables /\ u.ions = t.ions /\ u.enforceConsistency = t.enforceConsistency
  BY <1>3 DEF Tables
<1> QED BY <1>1, <1>4

LEMMA EraseIonIs ==
    ASSUME NEW t \in Tables, NEW ion \in Int
    PROVE  /\ eraseIon(t, ion) \in Tables
           /\ eraseIon(t, ion).enforceConsistency = t.enforceConsistency
<1> DEFINE kept == {i \in DOMAIN t.ids : t.ids[i] # ion}
           others == DOMAIN t.ions \ {ion}
           ranges == Only(t.ranges, kept)
           ions == Only(t.ions, others)
           lowered(i) == IF i > ion THEN i - 1 ELSE i
           ids == [i \in 1..Cardinality(kept) |-> lowered(t.ids[Nth(kept, i)])]
           u == [t EXCEPT !.ions = ions, !.ranges = ranges, !.ids = ids]
<1>1. eraseIon(t, ion) = u BY DEF eraseIon
<1>2. /\ t.ranges \in Seq(Ranges) /\ t.ids \in Seq(Int) /\ t.ions \in Seq(Ions)
      /\ DOMAIN t.ids = 1..Len(t.ranges) /\ DOMAIN t.ions = 1..Len(t.ions)
  BY TableIs
<1>3. kept \in SUBSET (1..Len(t.ranges)) /\ others \in SUBSET (1..Len(t.ions)) BY <1>2
<1>4. \A k \in kept : t.ids[k] \in Int BY <1>2
<1> HIDE DEF kept, others
<1>5. ranges \in Seq(Ranges) /\ Len(ranges) = Cardinality(kept)
      /\ Cardinality(kept) \in Nat /\ \A i \in 1..Cardinality(kept) : Nth(kept, i) \in kept
  BY <1>2, <1>3, OnlyIs
<1>6. ions \in Seq(Ions) BY <1>2, <1>3, OnlyIs
<1>7. ids \in Seq(Int) /\ Len(ids) = Cardinality(kept)
  <2>1. \A i \in 1..Cardinality(kept) : lowered(t.ids[Nth(kept, i)]) \in Int
    <3> SUFFICES ASSUME NEW i \in 1..Cardinality(kept)
                 PROVE  lowered(t.ids[Nth(kept, i)]) \in Int
      OBVIOUS
    <3>1. t.ids[Nth(kept, i)] \in Int BY <1>4, <1>5
    <3> QED BY <3>1
  <2> HIDE DEF lowered
  <2> QED BY <2>1, <1>5
<1> HIDE DEF ranges, ions, ids
<1>8. u \in Tables /\ u.enforceConsistency = t.enforceConsistency
  BY <1>5, <1>6, <1>7 DEF Tables
<1> QED BY <1>1, <1>8 DEF kept, others, ranges, ions, ids

LEMMA SetLimitIs ==
    ASSUME NEW t \in Tables, ~t.enforceConsistency, NEW n \in DOMAIN t.ranges,
           NEW k \in {1, 2}, NEW m \in Int
    PROVE  /\ SetLimit(t, n, k, m) \in Tables
           /\ SetLimit(t, n, k, m).ranges = [t.ranges EXCEPT ![n][k] = m]
           /\ SetLimit(t, n, k, m).ions = t.ions
           /\ ~SetLimit(t, n, k, m).enforceConsistency
<1> DEFINE r == IF k = 1 THEN <<m, t.ranges[n][2]>> ELSE <<t.ranges[n][1], m>>
<1>1. SetLimit(t, n, k, m) = [t EXCEPT !.ranges[n][k] = m] BY DEF SetLimit
<1>2. [t EXCEPT !.ranges[n][k] = m] = [t EXCEPT !.ranges[n] = r] /\ r \in Ranges
  BY RangeLimitSet
<1>3. [t.ranges EXCEPT ![n][k] = m] = [t.ranges EXCEPT ![n] = r]
  <2>1. t.ranges[n] \in Ranges BY TableIs
  <2>2. [t.ranges[n] EXCEPT ![k] = m] = r
    <3> DEFINE old == t.ranges[n]
    <3>1. old \in Ranges BY <2>1
    <3> HIDE DEF old
    <3>2. [old EXCEPT ![k] = m] = IF k = 1 THEN <<m, old[2]>> ELSE <<old[1], m>>
      BY <3>1, LimitSet
    <3> QED BY <3>2 DEF old
  <2> QED BY <2>2
<1> HIDE DEF r
<1>4. /\ [t EXCEPT !.ranges[n] = r] \in Tables
      /\ [t EXCEPT !.ranges[n] = r].ranges = [t.ranges EXCEPT ![n] = r]
      /\ [t EXCEPT !.ranges[n] = r].ions = t.ions
      /\ [t EXCEPT !.ranges[n] = r].enforceConsistency = t.enforceConsistency
  BY <1>2, RangeSet
<1> QED BY <1>1, <1>2, <1>3, <1>4

\* A range of a sound table can be put anywhere where it meets no other.
LEMMA PutBetween ==
    ASSUME NEW t \in Tables, Sound(t), NEW n \in DOMAIN t.ranges,
           NEW low \in Int, NEW high \in Int, low < high,
           \A i \in DOMAIN t.ranges \ {n} : Apart(<<low, high>>, t.ranges[i])
    PROVE  Sound([t EXCEPT !.ranges[n] = <<low, high>>])
<1> DEFINE r == <<low, high>>
           u == [t EXCEPT !.ranges[n] = r]
<1>1. r \in Ranges /\ r[1] = low /\ r[2] = high BY DEF Ranges
<1> HIDE DEF r
<1>2. u.ranges = [t.ranges EXCEPT ![n] = r] /\ u.ions = t.ions /\ u.ids = t.ids
  BY <1>1, RangeSet
<1>3. /\ DOMAIN u.ranges = DOMAIN t.ranges /\ Len(u.ranges) = Len(t.ranges)
      /\ \A i \in DOMAIN t.ranges : u.ranges[i] = IF i = n THEN r ELSE t.ranges[i]
  BY <1>2, TableIs, ElementSet, <1>1
<1>4. \A i \in DOMAIN u.ranges : u.ranges[i][1] < u.ranges[i][2]
  BY <1>1, <1>3 DEF Sound
<1>5. ASSUME NEW i \in DOMAIN u.ranges, NEW j \in DOMAIN u.ranges, i # j
      PROVE  Apart(u.ranges[i], u.ranges[j])
  <2>1. \A k \in DOMAIN t.ranges \ {n} : Apart(r, t.ranges[k]) /\ Apart(t.ranges[k], r)
    BY DEF Apart, r
  <2>2. i # n /\ j # n => Apart(t.ranges[i], t.ranges[j]) BY <1>3, <1>5 DEF Sound
  <2> QED BY <1>3, <1>5, <2>1, <2>2
<1> HIDE DEF u
<1>6. Sound(u) BY <1>2, <1>3, <1>4, <1>5 DEF Sound
<1> QED BY <1>6 DEF r, u

LEMMA MoveRangeIs ==
    ASSUME NEW t \in Tables, NEW n \in DOMAIN t.ranges, NEW upper \in BOOLEAN, NEW m \in Int
    PROVE  /\ moveRange(t, n, upper, m) \in Tables
           /\ moveRange(t, n, upper, m).enforceConsistency = t.enforceConsistency
           /\ Sound(t) /\ t.enforceConsistency => Sound(moveRange(t, n, upper, m))
<1> DEFINE me == t.ranges[n]
           others == {t.ranges[i] : i \in DOMAIN t.ranges \ {n}}
           above == m > me[1] /\ \A o \in others : \A limit \in 1..2 :
                       ~(me[1] < o[limit] /\ m > o[limit])
           below == m < me[2] /\ \A o \in others : \A limit \in 1..2 :
                       ~(me[2] > o[limit] /\ m < o[limit])
           k == IF upper THEN 2 ELSE 1
           r == IF k = 1 THEN <<m, me[2]>> ELSE <<me[1], m>>
           u == moveRange(t, n, upper, m)
<1>1. u = t \/ u = [t EXCEPT !.ranges[n][k] = m] BY DEF moveRange
<1>2. t.enforceConsistency /\ u # t => IF upper THEN above ELSE below BY DEF moveRange
<1>3. [t EXCEPT !.ranges[n][k] = m] = [t EXCEPT !.ranges[n] = r] /\ r \in Ranges
  BY RangeLimitSet
<1>4. /\ [t EXCEPT !.ranges[n] = r] \in Tables
      /\ [t EXCEPT !.ranges[n] = r].enforceConsistency = t.enforceConsistency
  <2> HIDE DEF r
  <2> QED BY <1>3, RangeSet
<1>5. ASSUME Sound(t), t.enforceConsistency, u # t
      PROVE  Sound([t EXCEPT !.ranges[n] = r])
  <2>1. me[1] \in Int /\ me[2] \in Int /\ me[1] < me[2]
    BY <1>5, TableIs DEF Sound, Ranges
  <2>2. ASSUME NEW i \in DOMAIN t.ranges \ {n}
        PROVE  /\ t.ranges[i] \in others
               /\ t.ranges[i][1] \in Int /\ t.ranges[i][2] \in Int
               /\ t.ranges[i][1] < t.ranges[i][2] /\ Apart(me, t.ranges[i])
    <3>1. t.ranges[i] \in Ranges BY TableIs
    <3> QED BY <3>1, <1>5 DEF Sound, Ranges
  <2>3. CASE upper
    <3>1. above /\ r = <<me[1], m>> BY <1>2, <1>5, <2>3
    <3>2. ASSUME NEW i \in DOMAIN t.ranges \ {n} PROVE Apart(<<me[1], m>>, t.ranges[i])
      <4> DEFINE o == t.ranges[i]
                 a == me[1]
                 b == me[2]
      <4>1. o \in others /\ o[1] \in Int /\ o[2] \in Int /\ o[1] < o[2] /\ Apart(me, o) BY <2>2
      <4>2. ~(a < o[1] /\ m > o[1]) /\ ~(a < o[2] /\ m > o[2]) BY <3>1, <4>1
      <4>3. b <= o[1] \/ o[2] <= a BY <4>1 DEF Apart
      <4>4. a \in Int /\ b \in Int /\ a < b BY <2>1
      <4> HIDE DEF o, a, b, others, me
      <4>5. m <= o[1] \/ o[2] <= a BY <4>1, <4>2, <4>3, <4>4
      <4> QED BY <4>5 DEF Apart, o, a
    <3>3. me[1] < m BY <3>1
    <3> HIDE DEF me, r
    <3>4. Sound([t EXCEPT !.ranges[n] = <<me[1], m>>]) BY <3>2, <3>3, <2>1, <1>5, PutBetween
    <3> QED BY <3>1, <3>4
  <2>4. CASE ~upper
    <3>1. below /\ r = <<m, me[2]>> BY <1>2, <1>5, <2>4
    <3>2. ASSUME NEW i \in DOMAIN t.ranges \ {n} PROVE Apart(<<m, me[2]>>, t.ranges[i])
      <4> DEFINE o == t.ranges[i]
                 a == me[1]
                 b == me[2]
      <4>1. o \in others /\ o[1] \in Int /\ o[2] \in Int /\ o[1] < o[2] /\ Apart(me, o) BY <2>2
      <4>2. ~(b > o[1] /\ m < o[1]) /\ ~(b > o[2] /\ m < o[2]) BY <3>1, <4>1
      <4>3. b <= o[1] \/ o[2] <= a BY <4>1 DEF Apart
      <4>4. a \in Int /\ b \in Int /\ a < b BY <2>1
      <4> HIDE DEF o, a, b, others, me
      <4>5. b <= o[1] \/ o[2] <= m BY <4>1, <4>2, <4>3, <4>4
      <4> QED BY <4>5 DEF Apart, o, b
    <3>3. m < me[2] BY <3>1
    <3> HIDE DEF me, r
    <3>4. Sound([t EXCEPT !.ranges[n] = <<m, me[2]>>]) BY <3>2, <3>3, <2>1, <1>5, PutBetween
    <3> QED BY <3>1, <3>4
  <2> QED BY <2>3, <2>4
<1> HIDE DEF u, r, k, me, others
<1>6. u \in Tables /\ u.enforceConsistency = t.enforceConsistency BY <1>1, <1>3, <1>4
<1>7. Sound(t) /\ t.enforceConsistency => Sound(u) BY <1>1, <1>3, <1>5
<1> QED BY <1>6, <1>7 DEF u

LEMMA MoveBothIs ==
    ASSUME NEW t \in Tables, NEW n \in DOMAIN t.ranges,
           NEW low \in Int, NEW high \in Int
    PROVE  /\ moveBothRanges(t, n, low, high) \in Tables
           /\ moveBothRanges(t, n, low, high).enforceConsistency = t.enforceConsistency
           /\ Sound(t) /\ low < high => Sound(moveBothRanges(t, n, low, high))
<1> DEFINE me == t.ranges[n]
           others == {t.ranges[i] : i \in DOMAIN t.ranges \ {n}}
           free == \A o \in others : \A limit \in 1..2 :
                      /\ ~(me[1] < o[limit] /\ high > o[limit])
                      /\ ~(me[2] > o[limit] /\ low < o[limit])
           r == <<low, high>>
           u == moveBothRanges(t, n, low, high)
<1>1. u = t \/ (free /\ u = [t EXCEPT !.ranges[n] = r]) BY DEF moveBothRanges
<1>2. /\ [t EXCEPT !.ranges[n] = r] \in Tables
      /\ [t EXCEPT !.ranges[n] = r].enforceConsistency = t.enforceConsistency
  <2>1. r \in Ranges BY DEF Ranges
  <2> HIDE DEF r
  <2> QED BY <2>1, RangeSet
<1>3. ASSUME Sound(t), low < high, free PROVE Sound([t EXCEPT !.ranges[n] = r])
  <2>1. me[1] \in Int /\ me[2] \in Int /\ me[1] < me[2]
    BY <1>3, TableIs DEF Sound, Ranges
  <2>2. ASSUME NEW i \in DOMAIN t.ranges \ {n} PROVE Apart(r, t.ranges[i])
    <3> DEFINE o == t.ranges[i]
               a == me[1]
               b == me[2]
    <3>1. o \in others /\ o \in Ranges BY TableIs
    <3>2. o[1] \in Int /\ o[2] \in Int /\ o[1] < o[2] /\ Apart(me, o)
      BY <3>1, <1>3 DEF Sound, Ranges
    <3>3. ~(a < o[1] /\ high > o[1]) /\ ~(b > o[2] /\ low < o[2])
      BY <3>1, <1>3
    <3>4. b <= o[1] \/ o[2] <= a BY <3>2 DEF Apart
    <3>5. a \in Int /\ b \in Int /\ a < b BY <2>1
    <3> HIDE DEF o, a, b, others, me
    <3>6. high <= o[1] \/ o[2] <= low BY <3>2, <3>3, <3>4, <3>5
    <3> QED BY <3>6 DEF Apart, o
  <2> QED BY <2>2, <1>3, PutBetween
<1> HIDE DEF u, r, me, others
<1> QED BY <1>1, <1>2, <1>3 DEF u, r

LEMMA IonOfRangeSound ==
    ASSUME NEW t \in Tables, Sound(t), NEW n \in DOMAIN t.ids, NEW ion \in DOMAIN t.ions
    PROVE  Sound([t EXCEPT !.ids[n] = ion])
<1> DEFINE u == [t EXCEPT !.ids[n] = ion]
<1>1. ion \in Int BY TableIs
<1>2. /\ u.ranges = t.ranges /\ u.ions = t.ions /\ u.ids = [t.ids EXCEPT ![n] = ion]
  BY <1>1, IonOfRangeSet
<1>3. /\ DOMAIN u.ids = DOMAIN t.ids /\ Len(u.ids) = Len(t.ids)
      /\ \A i \in DOMAIN t.ids : u.ids[i] = IF i = n THEN ion ELSE t.ids[i]
  BY <1>1, <1>2, TableIs, ElementSet
<1>4. \A i \in DOMAIN u.ids : u.ids[i] \in DOMAIN u.ions BY <1>2, <1>3 DEF Sound
<1> HIDE DEF u
<1>5. Sound(u) BY <1>2, <1>3, <1>4 DEF Sound
<1> QED BY <1>5 DEF u

\* An ion that has its names to itself can be replaced.
LEMMA IonNamesSound ==
    ASSUME NEW t \in Tables, Sound(t), NEW n \in DOMAIN t.ions, NEW ion \in Ions,
           \A i \in DOMAIN t.ions \ {n} :
              t.ions[i].short # ion.short /\ t.ions[i].long # ion.long
    PROVE  Sound([t EXCEPT !.ions[n] = ion])
<1> DEFINE u == [t EXCEPT !.ions[n] = ion]
<1>1. u.ranges = t.ranges /\ u.ids = t.ids /\ u.ions = [t.ions EXCEPT ![n] = ion] BY IonSet
<1>2. /\ DOMAIN u.ions = DOMAIN t.ions
      /\ \A i \in DOMAIN t.ions : u.ions[i] = IF i = n THEN ion ELSE t.ions[i]
  BY <1>1, TableIs, ElementSet
<1> HIDE DEF u
<1>3. ASSUME NEW i \in DOMAIN u.ions, NEW j \in DOMAIN u.ions, i # j
      PROVE  u.ions[i].short # u.ions[j].short /\ u.ions[i].long # u.ions[j].long
  BY <1>2, <1>3 DEF Sound
<1>4. Sound(u) BY <1>1, <1>2, <1>3 DEF Sound
<1> QED BY <1>4 DEF u

\* An ion gets a name, short and long, or a colour.
LEMMA IonRenamed ==
    ASSUME NEW t \in Tables, NEW n \in DOMAIN t.ions, NEW name \in Names
    PROVE  LET u == [t EXCEPT !.ions[n] = [@ EXCEPT !.short = name, !.long = name]] IN
           /\ u \in Tables /\ u.enforceConsistency = t.enforceConsistency
           /\ Sound(t) /\ ~Taken(t, n, name) => Sound(u)
<1> DEFINE old == t.ions[n]
           ion == [old EXCEPT !.short = name, !.long = name]
           u == [t EXCEPT !.ions[n] = [@ EXCEPT !.short = name, !.long = name]]
<1>1. old \in Ions BY TableIs
<1>2. u = [t EXCEPT !.ions[n] = ion] OBVIOUS
<1> HIDE DEF old, u
<1>3. ion \in Ions /\ ion.short = name /\ ion.long = name BY <1>1 DEF Ions, AllNames
<1> HIDE DEF ion
<1>4. u \in Tables /\ u.enforceConsistency = t.enforceConsistency BY <1>2, <1>3, IonSet
<1>5. ASSUME Sound(t), ~Taken(t, n, name) PROVE Sound(u)
  BY <1>2, <1>3, <1>5, IonNamesSound DEF Taken
<1> QED BY <1>4, <1>5 DEF u

LEMMA IonColoured ==
    ASSUME NEW t \in Tables, NEW n \in DOMAIN t.ions, NEW colour \in Colours
    PROVE  LET u == [t EXCEPT !.ions[n].colour = colour] IN
           /\ u \in Tables /\ u.enforceConsistency = t.enforceConsistency
           /\ Sound(t) => Sound(u)
<1> DEFINE old == t.ions[n]
           ion == [old EXCEPT !.colour = colour]
           u == [t EXCEPT !.ions[n].colour = colour]
<1>1. old \in Ions BY TableIs
<1>2. u = [t EXCEPT !.ions[n] = ion] OBVIOUS
<1>3. \A i \in DOMAIN t.ions \ {n} : Sound(t) =>
         t.ions[i].short # old.short /\ t.ions[i].long # old.long
  BY DEF Sound
<1> HIDE DEF old, u
<1>4. ion \in Ions /\ ion.short = old.short /\ ion.long = old.long BY <1>1 DEF Ions
<1> HIDE DEF ion
<1>5. u \in Tables /\ u.enforceConsistency = t.enforceConsistency BY <1>2, <1>4, IonSet
<1>6. ASSUME Sound(t) PROVE Sound(u) BY <1>2, <1>3, <1>4, <1>6, IonNamesSound
<1> QED BY <1>5, <1>6 DEF u

\* Whether the table is to be consistent says nothing of what is in it.
LEMMA ConsistencySound ==
    ASSUME NEW t \in Tables, NEW c \in BOOLEAN
    PROVE  Sound([t EXCEPT !.enforceConsistency = c]) <=> Sound(t)
BY ConsistencySet DEF Sound

-----------------------------------------------------------------------------
(* The steps.                                                              *)

LEMMA InitOK == Init => IInv
<1> SUFFICES ASSUME Init PROVE IInv OBVIOUS
<1>1. /\ rng = [f \in Filters |-> Opened[FirstFiles[f]]]
      /\ noted = [f \in Filters |-> OfFile(FirstFiles[f])]
      /\ isOpen = FALSE /\ okEnabled = FALSE /\ unsure = FALSE /\ selected = 0 /\ hit = NoHit
  BY DEF Init
<1>2. ASSUME NEW f \in Filters
      PROVE  /\ rng[f] \in Tables /\ rng[f].enforceConsistency
             /\ noted[f] \in SUBSET Ways /\ "unchecked" \notin noted[f]
             /\ noted[f] = {} => Sound(rng[f])
  BY <1>1, FilesAssumption DEF OfFile, Ways
<1>3. selected \notin DOMAIN Plots
  <2>1. DOMAIN Plots = 1..Len(Plots) /\ Len(Plots) \in Nat BY PlotsAssumption
  <2> QED BY <2>1, <1>1
<1>4. TypeOK
  <2>1. rng \in [Filters -> Tables] /\ noted \in [Filters -> SUBSET Ways]
    BY <1>1, <1>2
  <2> QED BY <2>1, <1>1, <1>3 DEF TypeOK
<1>5. Checked /\ SoundWhereNothingNoted BY <1>2 DEF Checked, SoundWhereNothingNoted
<1>6. Shown BY <1>1 DEF Shown, RangesShown, IonsShown, RegionsShown
<1>7. EditsHitWhatIsShown /\ OkOnlyWhenConsistent
  BY <1>1 DEF EditsHitWhatIsShown, OkOnlyWhenConsistent, NoHit
<1> QED BY <1>4, <1>5, <1>6, <1>7 DEF IInv

\* Outside the dialog a filter's table is replaced.
LEMMA SetRngStep ==
    ASSUME IInv, ~isOpen, NEW f \in Filters, NEW t \in Tables,
           NEW ways \in SUBSET Ways, SetRng(f, t, ways),
           "unchecked" \notin ways => t.enforceConsistency,
           ways = {} => Sound(t)
    PROVE  IInv'
<1>1. /\ rng' = [rng EXCEPT ![f] = t] /\ noted' = [noted EXCEPT ![f] = ways] /\ hit' = NoHit
      /\ UNCHANGED <<isOpen, modified, selected, rangeRows, ionRows, regions,
                     incompleteRanges, incompleteIons, okEnabled, unsure>>
  BY DEF SetRng, dialog
<1>2. /\ rng \in [Filters -> Tables]
      /\ noted \in [Filters -> SUBSET Ways]
  BY DEF IInv, TypeOK
<1>3. ASSUME NEW g \in Filters
      PROVE  /\ rng'[g] = IF g = f THEN t ELSE rng[g]
             /\ noted'[g] = IF g = f THEN ways ELSE noted[g]
  BY <1>1, <1>2
<1>4. TypeOK'
  <2>1. rng' \in [Filters -> Tables] /\ noted' \in [Filters -> SUBSET Ways]
    BY <1>1, <1>2
  <2> QED BY <2>1, <1>1 DEF IInv, TypeOK, DialogTyped
<1>5. Checked' /\ SoundWhereNothingNoted'
  BY <1>3 DEF IInv, Checked, SoundWhereNothingNoted
<1>6. Shown'
  BY <1>1 DEF IInv, Shown, RangesShown, IonsShown, RegionsShown
<1>7. EditsHitWhatIsShown' /\ OkOnlyWhenConsistent'
  BY <1>1 DEF EditsHitWhatIsShown, OkOnlyWhenConsistent, NoHit, IInv, TypeOK
<1> QED BY <1>4, <1>5, <1>6, <1>7 DEF IInv

LEMMA OutsideStep ==
    ASSUME IInv,
           updateRng \/ MoveRange \/ DragRange \/ SetRangeIon \/ SetIonName \/ SetIonColour
    PROVE  IInv'
<1>1. ~isOpen BY DEF updateRng, MoveRange, DragRange, SetRangeIon, SetIonName, SetIonColour
<1>2. ASSUME NEW f \in Filters
      PROVE  /\ rng[f] \in Tables /\ noted[f] \in SUBSET Ways
             /\ "unchecked" \notin noted[f] => rng[f].enforceConsistency
             /\ noted[f] = {} => Sound(rng[f])
             /\ rng[f].enforceConsistency \in BOOLEAN
             /\ DOMAIN rng[f].ids = DOMAIN rng[f].ranges
             /\ \A n \in DOMAIN rng[f].ranges :
                   rng[f].ranges[n][1] \in Int /\ rng[f].ranges[n][2] \in Int
  <2>1. /\ rng[f] \in Tables /\ noted[f] \in SUBSET Ways
        /\ "unchecked" \notin noted[f] => rng[f].enforceConsistency
        /\ noted[f] = {} => Sound(rng[f])
    BY DEF IInv, TypeOK, Checked, SoundWhereNothingNoted
  <2>2. /\ rng[f].enforceConsistency \in BOOLEAN
        /\ DOMAIN rng[f].ids = DOMAIN rng[f].ranges
        /\ \A n \in DOMAIN rng[f].ranges : rng[f].ranges[n] \in Ranges
    BY <2>1, TableIs
  <2> QED BY <2>1, <2>2 DEF Ranges
<1>3. \A m \in Masses : m \in Int BY BoundsAssumption
<1>4. CASE updateRng
  <2>1. PICK f \in Filters, file \in Readable :
           SetRng(f, ReadAs(f, file), OfFile(file) \cup (noted[f] \cap {"unchecked"}))
    BY <1>4 DEF updateRng
  <2>2. Opened[file] \in Tables /\ rng[f].enforceConsistency \in BOOLEAN
    BY <1>2, FilesAssumption
  <2> DEFINE t == ReadAs(f, file)
             ways == OfFile(file) \cup (noted[f] \cap {"unchecked"})
  <2>3. t \in Tables /\ t.enforceConsistency = rng[f].enforceConsistency
        /\ (Sound(t) <=> Sound(Opened[file]))
    BY <2>2, ConsistencySet, ConsistencySound DEF ReadAs
  <2>4. /\ ways \in SUBSET Ways
        /\ "unchecked" \notin ways => "unchecked" \notin noted[f]
        /\ ways = {} => Sound(Opened[file])
    BY DEF OfFile, Ways
  <2>5. SetRng(f, t, ways) BY <2>1
  <2> HIDE DEF t, ways
  <2> QED BY <2>3, <2>4, <2>5, <1>1, <1>2, SetRngStep
<1>5. CASE MoveRange
  <2>1. PICK f \in Filters : \E n \in DOMAIN rng[f].ranges, upper \in BOOLEAN, mass \in Masses :
           SetRng(f, moveRange(rng[f], n, upper, mass), noted[f])
    BY <1>5 DEF MoveRange
  <2>2. PICK n \in DOMAIN rng[f].ranges, upper \in BOOLEAN, mass \in Masses :
           SetRng(f, moveRange(rng[f], n, upper, mass), noted[f])
    BY <2>1
  <2> DEFINE t == moveRange(rng[f], n, upper, mass)
  <2>3. /\ t \in Tables /\ t.enforceConsistency = rng[f].enforceConsistency
        /\ Sound(rng[f]) /\ rng[f].enforceConsistency => Sound(t)
    <3>1. rng[f] \in Tables /\ mass \in Int BY <1>2, <1>3
    <3> QED BY <3>1, MoveRangeIs
  <2>4. SetRng(f, t, noted[f]) BY <2>2
  <2> HIDE DEF t
  <2>5. noted[f] = {} => Sound(t) BY <2>3, <1>2
  <2> QED BY <2>3, <2>4, <2>5, <1>1, <1>2, SetRngStep
<1>6. CASE DragRange
  <2>1. PICK f \in Filters : \E n \in DOMAIN rng[f].ranges, to \in Masses :
          LET delta == (rng[f].ranges[n][2] - rng[f].ranges[n][1]) \div 2 IN
          /\ 2 * delta = rng[f].ranges[n][2] - rng[f].ranges[n][1]
          /\ SetRng(f, moveBothRanges(rng[f], n, to - delta, to + delta), noted[f])
    BY <1>6 DEF DragRange
  <2>2. PICK n \in DOMAIN rng[f].ranges, to \in Masses :
          LET delta == (rng[f].ranges[n][2] - rng[f].ranges[n][1]) \div 2 IN
          /\ 2 * delta = rng[f].ranges[n][2] - rng[f].ranges[n][1]
          /\ SetRng(f, moveBothRanges(rng[f], n, to - delta, to + delta), noted[f])
    BY <2>1
  <2> DEFINE delta == (rng[f].ranges[n][2] - rng[f].ranges[n][1]) \div 2
             t == moveBothRanges(rng[f], n, to - delta, to + delta)
  <2>3. /\ 2 * delta = rng[f].ranges[n][2] - rng[f].ranges[n][1]
        /\ SetRng(f, t, noted[f])
    BY <2>2
  <2>4. /\ to \in Int /\ rng[f].ranges[n][1] \in Int /\ rng[f].ranges[n][2] \in Int
        /\ delta \in Int
    BY <1>2, <1>3
  <2>5. Sound(rng[f]) => rng[f].ranges[n][1] < rng[f].ranges[n][2] BY DEF Sound
  <2> HIDE DEF delta
  <2>6. Sound(rng[f]) => to - delta < to + delta BY <2>3, <2>4, <2>5
  <2>7. /\ t \in Tables /\ t.enforceConsistency = rng[f].enforceConsistency
        /\ Sound(rng[f]) => Sound(t)
    <3>1. rng[f] \in Tables /\ to - delta \in Int /\ to + delta \in Int BY <1>2, <2>4
    <3> DEFINE low == to - delta
               high == to + delta
    <3>2. low \in Int /\ high \in Int /\ (Sound(rng[f]) => low < high) BY <3>1, <2>6
    <3>3. t = moveBothRanges(rng[f], n, low, high) OBVIOUS
    <3> HIDE DEF low, high, t
    <3> QED BY <3>1, <3>2, <3>3, MoveBothIs
  <2> HIDE DEF t
  <2> QED BY <2>3, <2>7, <1>1, <1>2, SetRngStep
<1>7. CASE SetRangeIon
  <2>1. PICK f \in Filters : \E n \in DOMAIN rng[f].ranges :
          \E ion \in 1..(Len(rng[f].ranges) + 1) \ {rng[f].ids[n]} :
             SetRng(f, [rng[f] EXCEPT !.ids[n] = ion],
                    noted[f] \cup IF ion \in DOMAIN rng[f].ions THEN {} ELSE {"ion"})
    BY <1>7 DEF SetRangeIon
  <2>2. PICK n \in DOMAIN rng[f].ranges :
          \E ion \in 1..(Len(rng[f].ranges) + 1) \ {rng[f].ids[n]} :
             SetRng(f, [rng[f] EXCEPT !.ids[n] = ion],
                    noted[f] \cup IF ion \in DOMAIN rng[f].ions THEN {} ELSE {"ion"})
    BY <2>1
  <2>3. PICK ion \in 1..(Len(rng[f].ranges) + 1) :
             SetRng(f, [rng[f] EXCEPT !.ids[n] = ion],
                    noted[f] \cup IF ion \in DOMAIN rng[f].ions THEN {} ELSE {"ion"})
    BY <2>2
  <2> DEFINE t == [rng[f] EXCEPT !.ids[n] = ion]
             ways == noted[f] \cup IF ion \in DOMAIN rng[f].ions THEN {} ELSE {"ion"}
  <2>4. rng[f] \in Tables /\ n \in DOMAIN rng[f].ids /\ ion \in Int
    <3>1. rng[f] \in Tables /\ n \in DOMAIN rng[f].ids BY <1>2
    <3>2. Len(rng[f].ranges) \in Nat BY <3>1, TableIs
    <3> QED BY <3>1, <3>2
  <2>5. t \in Tables /\ t.enforceConsistency = rng[f].enforceConsistency
    BY <2>4, IonOfRangeSet
  <2>6. /\ ways \in SUBSET Ways
        /\ "unchecked" \notin ways => "unchecked" \notin noted[f]
        /\ ways = {} => noted[f] = {} /\ ion \in DOMAIN rng[f].ions
    BY <1>2 DEF Ways
  <2>7. ways = {} => Sound(t) BY <2>4, <2>6, <1>2, IonOfRangeSound
  <2>8. SetRng(f, t, ways) BY <2>3
  <2> HIDE DEF t, ways
  <2> QED BY <2>5, <2>6, <2>7, <2>8, <1>1, <1>2, SetRngStep
<1>8. CASE SetIonName
  <2>1. PICK f \in Filters, name \in Names : \E n \in DOMAIN rng[f].ions :
           SetRng(f, [rng[f] EXCEPT !.ions[n] = [@ EXCEPT !.short = name, !.long = name]],
                  noted[f] \cup IF Taken(rng[f], n, name) THEN {"name"} ELSE {})
    BY <1>8 DEF SetIonName
  <2>2. PICK n \in DOMAIN rng[f].ions :
           SetRng(f, [rng[f] EXCEPT !.ions[n] = [@ EXCEPT !.short = name, !.long = name]],
                  noted[f] \cup IF Taken(rng[f], n, name) THEN {"name"} ELSE {})
    BY <2>1
  <2> DEFINE t == [rng[f] EXCEPT !.ions[n] = [@ EXCEPT !.short = name, !.long = name]]
             ways == noted[f] \cup IF Taken(rng[f], n, name) THEN {"name"} ELSE {}
  <2>3. rng[f] \in Tables BY <1>2
  <2>4. /\ t \in Tables /\ t.enforceConsistency = rng[f].enforceConsistency
        /\ Sound(rng[f]) /\ ~Taken(rng[f], n, name) => Sound(t)
    BY <2>3, IonRenamed
  <2>5. SetRng(f, t, ways) BY <2>2
  <2> HIDE DEF t
  <2>6. /\ ways \in SUBSET Ways
        /\ "unchecked" \notin ways => "unchecked" \notin noted[f]
        /\ ways = {} => noted[f] = {} /\ ~Taken(rng[f], n, name)
    BY <1>2 DEF Ways
  <2> HIDE DEF ways
  <2> QED BY <2>4, <2>5, <2>6, <1>1, <1>2, SetRngStep
<1>9. CASE SetIonColour
  <2>1. PICK f \in Filters, colour \in Colours : \E n \in DOMAIN rng[f].ions :
           SetRng(f, [rng[f] EXCEPT !.ions[n].colour = colour], noted[f])
    BY <1>9 DEF SetIonColour
  <2>2. PICK n \in DOMAIN rng[f].ions :
           SetRng(f, [rng[f] EXCEPT !.ions[n].colour = colour], noted[f])
    BY <2>1
  <2> DEFINE t == [rng[f] EXCEPT !.ions[n].colour = colour]
  <2>3. rng[f] \in Tables BY <1>2
  <2>4. /\ t \in Tables /\ t.enforceConsistency = rng[f].enforceConsistency
        /\ Sound(rng[f]) => Sound(t)
    BY <2>3, IonColoured
  <2>5. SetRng(f, t, noted[f]) BY <2>2
  <2> HIDE DEF t
  <2> QED BY <2>4, <2>5, <1>1, <1>2, SetRngStep
<1> QED BY <1>4, <1>5, <1>6, <1>7, <1>8, <1>9

-----------------------------------------------------------------------------
(* The dialog.                                                             *)

LEMMA InDialog ==
    ASSUME IInv, isOpen
    PROVE  /\ selected \in DOMAIN Plots /\ PlotFilter \in Filters
           /\ currentRange = modified[PlotFilter]
           /\ DialogTyped /\ Shown /\ isOpen = TRUE
           /\ modified \in [Filters -> Tables]
           /\ \A f \in Filters : modified[f] \in Tables /\ ~modified[f].enforceConsistency
<1>1. selected \in DOMAIN Plots /\ isOpen = TRUE /\ DialogTyped BY DEF IInv, TypeOK
<1>2. PlotFilter \in Filters BY <1>1, PlotsAssumption DEF PlotFilter
<1>3. Shown BY DEF IInv
<1>4. modified \in [Filters -> Tables] /\ \A f \in Filters : ~modified[f].enforceConsistency
  BY <1>1 DEF DialogTyped
<1> QED BY <1>1, <1>2, <1>3, <1>4 DEF currentRange

\* What is left to show of a step in the dialog.
LEMMA DialogStep ==
    ASSUME IInv, isOpen, UNCHANGED <<outside, isOpen>>, selected' \in DOMAIN Plots,
           DialogTyped', Shown', EditsHitWhatIsShown', OkOnlyWhenConsistent',
           okEnabled' \in BOOLEAN, unsure' \in BOOLEAN
    PROVE  IInv'
<1>1. rng' = rng /\ noted' = noted /\ isOpen' = isOpen BY DEF outside
<1>2. isOpen = TRUE BY InDialog
<1>3. TypeOK' BY <1>1, <1>2 DEF IInv, TypeOK
<1>4. Checked' /\ SoundWhereNothingNoted'
  BY <1>1 DEF IInv, Checked, SoundWhereNothingNoted
<1> QED BY <1>3, <1>4 DEF IInv

LEMMA EditedIs ==
    ASSUME IInv, isOpen, NEW t \in Tables, ~t.enforceConsistency
    PROVE  /\ Edited(t) \in [Filters -> Tables]
           /\ \A f \in Filters : ~Edited(t)[f].enforceConsistency
           /\ Edited(t)[PlotFilter] = t
           /\ \A f \in Filters \ {PlotFilter} : Edited(t)[f] = modified[f]
<1>1. /\ modified \in [Filters -> Tables] /\ PlotFilter \in Filters
      /\ \A f \in Filters : ~modified[f].enforceConsistency
  BY InDialog
<1>2. Edited(t) = [modified EXCEPT ![PlotFilter] = t] BY DEF Edited
<1>3. Edited(t) \in [Filters -> Tables] BY <1>1, <1>2
<1>4. \A f \in Filters : Edited(t)[f] = IF f = PlotFilter THEN t ELSE modified[f]
  BY <1>1, <1>2
<1> QED BY <1>1, <1>3, <1>4

LEMMA ReadyIs ==
    ASSUME NEW tables \in [Filters -> Tables], setRangeReady(tables), modified' = tables
    PROVE  okEnabled' \in BOOLEAN /\ unsure' \in BOOLEAN /\ OkOnlyWhenConsistent'
<1>1. okEnabled' = (\A f \in Filters : isSelfConsistent(tables[f])) /\ unsure' = FALSE
  BY DEF setRangeReady
<1>2. okEnabled' \in BOOLEAN /\ unsure' \in BOOLEAN BY <1>1
<1>3. okEnabled' => \A f \in Filters : isSelfConsistent(modified'[f]) BY <1>1
<1> QED BY <1>2, <1>3 DEF OkOnlyWhenConsistent

LEMMA BeginsItself ==
    ASSUME NEW T, NEW s \in Seq(T)
    PROVE  Begins(s, s)
BY DEF Begins

LEMMA BeginsAppended ==
    ASSUME NEW T, NEW s \in Seq(T), NEW x \in T
    PROVE  Begins(s, Append(s, x))
BY DEF Begins

LEMMA BeginsOn ==
    ASSUME NEW T, NEW a \in Seq(T), NEW b \in Seq(T), NEW c \in Seq(T), Begins(a, b), Begins(b, c)
    PROVE  Begins(a, c)
<1>1. \A i \in DOMAIN a : i \in DOMAIN b BY DEF Begins
<1>2. Len(a) <= Len(c) BY DEF Begins
<1> QED BY <1>1, <1>2 DEF Begins

\* A grid that was just filled, and one that is left.
LEMMA RangeGridFilled ==
    ASSUME IInv, isOpen, isOpen' = isOpen, NEW t \in Tables, NEW pending \in Seq(PendingRanges),
           generateRangeEntries(t, pending), modified'[PlotFilter] = t
    PROVE  /\ rangeRows' \in [of : Filters \cup {"mixed"}, shown : Seq(Ranges), pending : Nat]
           /\ Len(pending) = rangeRows'.pending
           /\ RangesShown'
<1>1. rangeRows' = [of |-> PlotFilter, shown |-> t.ranges, pending |-> Len(pending)]
  BY DEF generateRangeEntries, RangeRows
<1>2. PlotFilter \in Filters /\ t.ranges \in Seq(Ranges) /\ Len(pending) \in Nat
  BY InDialog, TableIs
<1>3. /\ rangeRows' \in [of : Filters \cup {"mixed"}, shown : Seq(Ranges), pending : Nat]
      /\ Len(pending) = rangeRows'.pending
  BY <1>1, <1>2
<1>4. rangeRows'.of = PlotFilter /\ rangeRows'.shown = modified'[PlotFilter].ranges BY <1>1
<1>5. RangesShown' BY <1>4 DEF RangesShown, RowsFit
<1> QED BY <1>3, <1>5

LEMMA IonGridFilled ==
    ASSUME IInv, isOpen, isOpen' = isOpen, NEW t \in Tables, NEW pending \in Seq(PendingIons),
           generateIonEntries(t, pending), modified'[PlotFilter] = t
    PROVE  /\ ionRows' \in [of : Filters \cup {"mixed"}, shown : Seq(AllNames), pending : Nat]
           /\ Len(pending) = ionRows'.pending
           /\ IonsShown'
<1>1. ionRows' = [of |-> PlotFilter, shown |-> ShortNames(t.ions), pending |-> Len(pending)]
  BY DEF generateIonEntries, IonRows, ShortNames
<1>2. PlotFilter \in Filters /\ t.ions \in Seq(Ions) /\ Len(pending) \in Nat
  BY InDialog, TableIs
<1>3. ShortNames(t.ions) \in Seq(AllNames)
  <2>1. \A ion \in Ions : ion.short \in AllNames BY DEF Ions
  <2>2. \A i \in DOMAIN t.ions : t.ions[i] \in Ions BY <1>2
  <2>3. \A i \in DOMAIN t.ions : t.ions[i].short \in AllNames BY <2>1, <2>2
  <2> QED BY <2>3, <1>2 DEF ShortNames
<1>4. /\ ionRows' \in [of : Filters \cup {"mixed"}, shown : Seq(AllNames), pending : Nat]
      /\ Len(pending) = ionRows'.pending
  BY <1>1, <1>2, <1>3
<1>5. ionRows'.of = PlotFilter /\ ionRows'.shown = ShortNames(modified'[PlotFilter].ions)
  BY <1>1
<1>6. IonsShown' BY <1>5 DEF IonsShown
<1> QED BY <1>4, <1>6

LEMMA RangeGridLeft ==
    ASSUME IInv, isOpen, isOpen' = isOpen, rangeRows' = rangeRows,
           \A f \in Filters : modified'[f].ranges = modified[f].ranges
    PROVE  RangesShown'
BY DEF IInv, Shown, RangesShown

LEMMA IonGridLeft ==
    ASSUME IInv, isOpen, isOpen' = isOpen, ionRows' = ionRows,
           \A f \in Filters : modified'[f].ions = modified[f].ions
    PROVE  IonsShown'
BY DEF IInv, Shown, IonsShown

\* The selected plot's regions are drawn, or all are left.
LEMMA RegionsDrawn ==
    ASSUME IInv, isOpen, isOpen' = isOpen, NEW t \in Tables,
           generatePlotRegions(t), modified' \in [Filters -> Tables], modified'[PlotFilter] = t,
           \A f \in Filters \ {PlotFilter} : Begins(modified[f].ranges, modified'[f].ranges)
    PROVE  /\ regions' \in [DOMAIN Plots -> [shown : Seq(Ranges), emptied : BOOLEAN]]
           /\ RegionsShown'
<1>1. /\ selected \in DOMAIN Plots /\ PlotFilter \in Filters /\ PlotFilter = Plots[selected]
      /\ regions \in [DOMAIN Plots -> [shown : Seq(Ranges), emptied : BOOLEAN]]
      /\ \A p \in DOMAIN Plots : Plots[p] \in Filters
      /\ \A f \in Filters : modified[f].ranges \in Seq(Ranges) /\ modified'[f].ranges \in Seq(Ranges)
  BY InDialog, PlotsAssumption, TableIs DEF DialogTyped, PlotFilter
<1>2. regions' = [regions EXCEPT ![selected] = Drawn(t)] BY DEF generatePlotRegions
<1>3. Drawn(t) = [shown |-> t.ranges, emptied |-> FALSE] /\ t.ranges \in Seq(Ranges)
  BY TableIs DEF Drawn
<1>4. regions' \in [DOMAIN Plots -> [shown : Seq(Ranges), emptied : BOOLEAN]]
  BY <1>1, <1>2, <1>3
<1>5. ASSUME NEW p \in DOMAIN Plots, Sole(p), ~regions'[p].emptied
      PROVE  Begins(regions'[p].shown, modified'[Plots[p]].ranges)
  <2>1. CASE p = selected
    <3>1. regions'[p].shown = t.ranges BY <2>1, <1>1, <1>2, <1>3
    <3>2. Begins(t.ranges, t.ranges) BY <1>3, BeginsItself
    <3> QED BY <2>1, <3>1, <3>2, <1>1
  <2>2. CASE p # selected
    <3>1. regions'[p] = regions[p] BY <2>2, <1>1, <1>2
    <3>2. Plots[p] # PlotFilter BY <2>2, <1>1, <1>5 DEF Sole
    <3>3. Begins(regions[p].shown, modified[Plots[p]].ranges)
      BY <3>1, <1>5 DEF IInv, Shown, RegionsShown
    <3>4. Begins(modified[Plots[p]].ranges, modified'[Plots[p]].ranges) BY <3>2, <1>1
    <3>5. /\ regions[p].shown \in Seq(Ranges) /\ modified[Plots[p]].ranges \in Seq(Ranges)
          /\ modified'[Plots[p]].ranges \in Seq(Ranges)
      BY <1>1
    <3> QED BY <3>1, <3>3, <3>4, <3>5, BeginsOn
  <2> QED BY <2>1, <2>2
<1>6. RegionsShown' BY <1>5 DEF RegionsShown, Sole
<1> QED BY <1>4, <1>6

LEMMA RegionsLeft ==
    ASSUME IInv, isOpen, isOpen' = isOpen, regions' = regions,
           \A f \in Filters : modified'[f].ranges = modified[f].ranges
    PROVE  RegionsShown'
<1>1. \A p \in DOMAIN Plots : Plots[p] \in Filters BY PlotsAssumption
<1> QED BY <1>1 DEF IInv, Shown, RegionsShown, Sole

\* A row of a grid that was filled for this copy is that of the range with its
\* number, which it shows, or else of a place past the table's end.
LEMMA RangeRowHit ==
    ASSUME IInv, isOpen, NEW row \in DOMAIN rangeRows.shown
    PROVE  /\ rangeRows.of = PlotFilter =>
                 /\ RowsFit(rangeRows, currentRange.ranges)
                 /\ InTable(RangeOfRow(row)) => RangeOfRow(row) = row
                 /\ ~InTable(RangeOfRow(row)) => row <= rangeRows.pending
           /\ hit' = RangeHit(row) => EditsHitWhatIsShown'
<1>1. /\ PlotFilter \in Filters /\ currentRange = modified[PlotFilter] /\ isOpen = TRUE
      /\ modified[PlotFilter] \in Tables /\ currentRange.ranges \in Seq(Ranges)
  BY InDialog, TableIs
<1>2. /\ rangeRows.pending \in Nat /\ rangeRows.shown \in Seq(Ranges)
  BY InDialog DEF DialogTyped
<1>3. ASSUME rangeRows.of = PlotFilter
      PROVE  /\ RowsFit(rangeRows, currentRange.ranges)
             /\ InTable(RangeOfRow(row)) <=> row > rangeRows.pending
             /\ row > rangeRows.pending => RangeOfRow(row) = row
  <2>1. RowsFit(rangeRows, currentRange.ranges) BY <1>1, <1>3 DEF IInv, Shown, RangesShown
  <2>2. /\ row \in 1..Len(rangeRows.shown) /\ Len(rangeRows.shown) \in Nat
        /\ DOMAIN currentRange.ranges = 1..Len(rangeRows.shown)
    BY <2>1, <1>1, <1>2 DEF RowsFit
  <2> QED BY <2>1, <2>2, <1>2 DEF RangeOfRow, InTable
<1>4. ASSUME hit' = RangeHit(row) PROVE EditsHitWhatIsShown'
  <2>1. /\ hit'.known <=> rangeRows.of # PlotFilter
        /\ hit'.past <=> row <= rangeRows.pending
    BY <1>4 DEF RangeHit
  <2>2. CASE rangeRows.of = PlotFilter /\ row > rangeRows.pending
    <3>1. hit'.shown = rangeRows.shown[row] /\ hit'.was = currentRange.ranges[row]
      BY <1>3, <1>4, <2>2 DEF RangeHit
    <3>2. row \in Nat BY <1>2
    <3> QED BY <3>1, <3>2, <2>1, <1>2, <1>3, <2>2 DEF EditsHitWhatIsShown, RowsFit
  <2>3. CASE rangeRows.of = PlotFilter /\ row <= rangeRows.pending
    <3>1. row \in Nat BY <1>2
    <3>2. ~InTable(RangeOfRow(row)) BY <3>1, <1>2, <1>3, <2>3
    <3>3. hit'.was = <<>> BY <3>2, <1>4 DEF RangeHit
    <3> QED BY <3>3, <2>1, <2>3 DEF EditsHitWhatIsShown
  <2>4. CASE rangeRows.of # PlotFilter BY <2>1, <2>4 DEF EditsHitWhatIsShown
  <2>5. row \in Nat BY <1>2
  <2> QED BY <2>2, <2>3, <2>4, <2>5, <1>2
<1>5. row \in Nat BY <1>2
<1> QED BY <1>2, <1>3, <1>4, <1>5

LEMMA IonRowHit ==
    ASSUME IInv, isOpen, NEW row \in DOMAIN ionRows.shown, IonRow(row)
    PROVE  /\ row \in DOMAIN currentRange.ions
           /\ ionRows.of = PlotFilter => ionRows.shown = ShortNames(currentRange.ions)
           /\ hit' = IonHit(row) => EditsHitWhatIsShown'
<1>1. /\ PlotFilter \in Filters /\ currentRange = modified[PlotFilter] /\ isOpen = TRUE
  BY InDialog
<1>2. row \in DOMAIN currentRange.ions BY DEF IonRow
<1>3. ionRows.of = PlotFilter => ionRows.shown = ShortNames(currentRange.ions)
  BY <1>1 DEF IInv, Shown, IonsShown
<1>4. ASSUME hit' = IonHit(row) PROVE EditsHitWhatIsShown'
  <2>1. hit'.known <=> ionRows.of # PlotFilter BY <1>4 DEF IonHit
  <2>2. hit'.shown = ionRows.shown[row] /\ hit'.was = currentRange.ions[row].short /\ ~hit'.past
    BY <1>4 DEF IonHit
  <2>3. ShortNames(currentRange.ions)[row] = currentRange.ions[row].short
    BY <1>2 DEF ShortNames
  <2> QED BY <2>1, <2>2, <2>3, <1>3 DEF EditsHitWhatIsShown
<1> QED BY <1>2, <1>3, <1>4

LEMMA NoHitHits == ASSUME hit' = NoHit PROVE EditsHitWhatIsShown'
BY DEF EditsHitWhatIsShown, NoHit

-----------------------------------------------------------------------------
(* The steps of the dialog.                                                *)

LEMMA OpenStep == ASSUME IInv, OnEditRange PROVE IInv'
<1>1. /\ isOpen' = TRUE /\ selected' = 1 /\ okEnabled' = TRUE /\ unsure' = TRUE /\ hit' = NoHit
      /\ modified' = [f \in Filters |-> [rng[f] EXCEPT !.enforceConsistency = FALSE]]
      /\ rangeRows' = RangeRows(rng[Plots[1]], Plots[1], <<>>)
      /\ ionRows' = IonRows(rng[Plots[1]], Plots[1], <<>>)
      /\ regions' = [p \in DOMAIN Plots |-> Drawn(rng[Plots[p]])]
      /\ incompleteRanges' = <<>> /\ incompleteIons' = <<>>
      /\ rng' = rng /\ noted' = noted
  BY DEF OnEditRange, outside
<1>2. rng \in [Filters -> Tables] /\ \A f \in Filters : rng[f] \in Tables
  BY DEF IInv, TypeOK
<1>3. 1 \in DOMAIN Plots /\ \A p \in DOMAIN Plots : Plots[p] \in Filters
  BY PlotsAssumption
<1>4. ASSUME NEW f \in Filters
      PROVE  /\ modified'[f] \in Tables /\ ~modified'[f].enforceConsistency
             /\ modified'[f].ranges = rng[f].ranges /\ modified'[f].ions = rng[f].ions
  <2>1. modified'[f] = [rng[f] EXCEPT !.enforceConsistency = FALSE] BY <1>1
  <2> QED BY <2>1, <1>2, ConsistencySet
<1>5. \A f \in Filters : /\ rng[f].ranges \in Seq(Ranges)
                         /\ ShortNames(rng[f].ions) \in Seq(AllNames)
  <2>1. \A ion \in Ions : ion.short \in AllNames BY DEF Ions
  <2>2. ASSUME NEW f \in Filters PROVE ShortNames(rng[f].ions) \in Seq(AllNames)
    <3>1. rng[f].ions \in Seq(Ions) BY <1>2, TableIs
    <3>2. \A i \in DOMAIN rng[f].ions : rng[f].ions[i] \in Ions BY <3>1
    <3> QED BY <3>1, <3>2, <2>1 DEF ShortNames
  <2> QED BY <2>2, <1>2, TableIs
<1>6. modified' \in [Filters -> Tables]
  <2>1. modified' = [f \in Filters |-> modified'[f]] BY <1>1
  <2> QED BY <2>1, <1>4
<1>7. rangeRows' = [of |-> Plots[1], shown |-> rng[Plots[1]].ranges, pending |-> 0]
  BY <1>1 DEF RangeRows
<1>8. ionRows' = [of |-> Plots[1], shown |-> ShortNames(rng[Plots[1]].ions), pending |-> 0]
  BY <1>1 DEF IonRows, ShortNames
<1>9. /\ rangeRows' \in [of : Filters \cup {"mixed"}, shown : Seq(Ranges), pending : Nat]
      /\ ionRows' \in [of : Filters \cup {"mixed"}, shown : Seq(AllNames), pending : Nat]
      /\ rangeRows'.pending = 0 /\ ionRows'.pending = 0
  BY <1>3, <1>5, <1>7, <1>8
<1>10. ASSUME NEW p \in DOMAIN Plots
       PROVE  /\ regions'[p] \in [shown : Seq(Ranges), emptied : BOOLEAN]
              /\ regions'[p].shown = rng[Plots[p]].ranges
  BY <1>1, <1>3, <1>5 DEF Drawn
<1>11. regions' \in [DOMAIN Plots -> [shown : Seq(Ranges), emptied : BOOLEAN]]
  <2>1. regions' = [p \in DOMAIN Plots |-> regions'[p]] BY <1>1
  <2> QED BY <2>1, <1>10
<1>12. DialogTyped'
  <2>1. incompleteRanges' \in Seq(PendingRanges) /\ incompleteIons' \in Seq(PendingIons)
        /\ Len(incompleteRanges') = 0 /\ Len(incompleteIons') = 0
    BY <1>1
  <2> QED BY <2>1, <1>4, <1>6, <1>9, <1>11 DEF DialogTyped
<1>13. TypeOK' BY <1>1, <1>3, <1>12 DEF IInv, TypeOK
<1>14. RangesShown' /\ IonsShown'
  BY <1>3, <1>4, <1>7, <1>8 DEF RangesShown, RowsFit, IonsShown
<1>15. RegionsShown'
  <2>1. \A p \in DOMAIN Plots : Begins(rng[Plots[p]].ranges, rng[Plots[p]].ranges)
    BY <1>3, <1>5, BeginsItself
  <2>2. \A p \in DOMAIN Plots : Begins(regions'[p].shown, modified'[Plots[p]].ranges)
    BY <2>1, <1>3, <1>4, <1>10
  <2> QED BY <2>2 DEF RegionsShown
<1>16. Checked' /\ SoundWhereNothingNoted'
  BY <1>1 DEF IInv, Checked, SoundWhereNothingNoted
<1>17. EditsHitWhatIsShown' /\ OkOnlyWhenConsistent'
  BY <1>1, NoHitHits DEF OkOnlyWhenConsistent
<1> QED BY <1>13, <1>14, <1>15, <1>16, <1>17 DEF IInv, Shown

LEMMA CloseStep ==
    ASSUME IInv, OnBtnOK \/ OnBtnCancel
    PROVE  IInv'
<1>1. isOpen /\ Closed BY DEF OnBtnOK, OnBtnCancel
<1>2. isOpen' = FALSE /\ selected' = 0 /\ okEnabled' = FALSE /\ unsure' = FALSE /\ hit' = NoHit
  BY <1>1 DEF Closed
<1>3. selected' \notin DOMAIN Plots
  <2>1. DOMAIN Plots = 1..Len(Plots) /\ Len(Plots) \in Nat BY PlotsAssumption
  <2> QED BY <2>1, <1>2
<1>4. /\ rng \in [Filters -> Tables]
      /\ noted \in [Filters -> SUBSET Ways]
  BY DEF IInv, TypeOK
<1>5. /\ rng' \in [Filters -> Tables]
      /\ noted' \in [Filters -> SUBSET Ways]
      /\ Checked' /\ SoundWhereNothingNoted'
  <2>1. CASE OnBtnOK
    <3>1. rng' = modified /\ noted' = [f \in Filters |-> noted[f] \cup {"unchecked"}]
      BY <2>1 DEF OnBtnOK
    <3>2. modified \in [Filters -> Tables] BY <1>1, InDialog
    <3>3. \A f \in Filters : "unchecked" \in noted'[f] BY <3>1
    <3>4. noted' \in [Filters -> SUBSET Ways] BY <3>1, <1>4 DEF Ways
    <3> QED BY <3>1, <3>2, <3>3, <3>4 DEF Checked, SoundWhereNothingNoted
  <2>2. CASE OnBtnCancel
    <3>1. rng' = rng /\ noted' = noted BY <2>2 DEF OnBtnCancel, outside
    <3> QED BY <3>1, <1>4 DEF IInv, Checked, SoundWhereNothingNoted
  <2> QED BY <2>1, <2>2
<1>6. TypeOK' BY <1>2, <1>3, <1>5 DEF TypeOK
<1>7. Shown' BY <1>2 DEF Shown, RangesShown, IonsShown, RegionsShown
<1>8. EditsHitWhatIsShown' /\ OkOnlyWhenConsistent'
  BY <1>2, NoHitHits DEF OkOnlyWhenConsistent
<1> QED BY <1>5, <1>6, <1>7, <1>8 DEF IInv

LEMMA ListStep == ASSUME IInv, OnListPlots PROVE IInv'
<1>1. /\ isOpen /\ selected' \in DOMAIN Plots /\ hit' = NoHit
      /\ UNCHANGED <<outside, isOpen, modified, rangeRows, ionRows, regions, incompleteRanges,
                     incompleteIons, okEnabled, unsure>>
  BY DEF OnListPlots
<1>2. DialogTyped' BY <1>1, InDialog DEF DialogTyped
<1>3. RangesShown' /\ IonsShown' /\ RegionsShown'
  BY <1>1 DEF IInv, Shown, RangesShown, IonsShown, RegionsShown, Sole
<1>4. OkOnlyWhenConsistent' BY <1>1 DEF IInv, OkOnlyWhenConsistent
<1>5. okEnabled' \in BOOLEAN /\ unsure' \in BOOLEAN BY <1>1 DEF IInv, TypeOK
<1> QED BY <1>1, <1>2, <1>3, <1>4, <1>5, NoHitHits, DialogStep DEF Shown

\* The number of an ion, or 0, which is no ion's.
LEMMA IonFound ==
    ASSUME NEW t \in Tables, NEW name
    PROVE  getIonID(t, name) \in Nat
<1> DEFINE n == Len(t.ions)
           found == {i \in 1..n : t.ions[i].short = name}
<1>1. n \in Nat BY TableIs
<1>2. getIonID(t, name) = IF \E i \in 1..n : t.ions[i].short = name THEN Min(found) ELSE 0
  BY DEF getIonID, First
<1> HIDE DEF n
<1>3. ASSUME \E i \in 1..n : t.ions[i].short = name PROVE Min(found) \in Nat
  <2>1. found # {} /\ found \subseteq Nat BY <1>1, <1>3
  <2> HIDE DEF found
  <2>2. \E m \in found : \A k \in found : m <= k BY <2>1, LeastNumber
  <2>3. Min(found) \in found BY <2>2 DEF Min
  <2> QED BY <2>1, <2>3
<1> QED BY <1>2, <1>3

LEMMA RangeCellStep == ASSUME IInv, OnGridRangesCellChange PROVE IInv'
<1>1. /\ isOpen
      /\ UNCHANGED <<outside, isOpen, selected, ionRows, incompleteRanges, incompleteIons>>
  BY DEF OnGridRangesCellChange
<1>2. /\ selected \in DOMAIN Plots /\ PlotFilter \in Filters /\ currentRange = modified[PlotFilter]
      /\ modified \in [Filters -> Tables] /\ DialogTyped
      /\ currentRange \in Tables /\ ~currentRange.enforceConsistency
  BY <1>1, InDialog
<1> DEFINE cells(row) ==
      LET n == RangeOfRow(row)
          set(t) ==
             LET new == IF InTable(n) THEN t ELSE currentRange IN
             /\ modified' = Edited(new)
             /\ generatePlotRegions(new)
             /\ setRangeReady(Edited(new))
      IN  \/ \E name \in Names :
                /\ getIonID(currentRange, name) # 0
                /\ set([currentRange EXCEPT !.ids[n] = getIonID(currentRange, name)])
                /\ UNCHANGED rangeRows
          \/ \E mass \in Masses :
                /\ InTable(n) => mass < currentRange.ranges[n][2]
                /\ set(SetLimit(currentRange, n, 1, mass))
                /\ rangeRows' = [rangeRows EXCEPT !.shown[row][1] = mass, !.of = Mixed(@)]
          \/ \E mass \in Masses :
                /\ InTable(n) => mass > currentRange.ranges[n][1]
                /\ set(SetLimit(currentRange, n, 2, mass))
                /\ rangeRows' = [rangeRows EXCEPT !.shown[row][2] = mass, !.of = Mixed(@)]
<1>3. PICK row \in DOMAIN rangeRows.shown :
         hit' = RangeHit(row) /\ cells(row)
  BY DEF OnGridRangesCellChange
<1> DEFINE n == RangeOfRow(row)
           new(t) == IF InTable(n) THEN t ELSE currentRange
<1>4. /\ EditsHitWhatIsShown'
      /\ InTable(n) <=> n \in DOMAIN currentRange.ranges
      /\ rangeRows.of = PlotFilter =>
            /\ RowsFit(rangeRows, currentRange.ranges)
            /\ InTable(n) => n = row
            /\ ~InTable(n) => row <= rangeRows.pending
  BY <1>1, <1>3, RangeRowHit DEF InTable
<1>5. /\ rangeRows \in [of : Filters \cup {"mixed"}, shown : Seq(Ranges), pending : Nat]
      /\ Len(incompleteRanges) = rangeRows.pending
  BY <1>2 DEF DialogTyped
\* What follows of any new table that keeps the ions.
<1>6. ASSUME NEW t \in Tables, ~t.enforceConsistency, t.ions = currentRange.ions,
             modified' = Edited(t), generatePlotRegions(t), setRangeReady(Edited(t)),
             rangeRows' \in [of : Filters \cup {"mixed"}, shown : Seq(Ranges), pending : Nat],
             rangeRows'.pending = rangeRows.pending, RangesShown'
      PROVE  IInv'
  <2>1. /\ modified' \in [Filters -> Tables]
        /\ \A f \in Filters : ~modified'[f].enforceConsistency
        /\ modified'[PlotFilter] = t
        /\ \A f \in Filters \ {PlotFilter} : modified'[f] = modified[f]
    BY <1>1, <1>6, EditedIs
  <2>2. \A f \in Filters : modified'[f].ions = modified[f].ions BY <1>2, <1>6, <2>1
  <2>3. IonsShown' BY <1>1, <2>2, IonGridLeft
  <2>4. \A f \in Filters \ {PlotFilter} : Begins(modified[f].ranges, modified'[f].ranges)
    BY <1>2, <2>1, TableIs, BeginsItself
  <2>5. /\ regions' \in [DOMAIN Plots -> [shown : Seq(Ranges), emptied : BOOLEAN]]
        /\ RegionsShown'
    BY <1>1, <1>6, <2>1, <2>4, RegionsDrawn
  <2>6. okEnabled' \in BOOLEAN /\ unsure' \in BOOLEAN /\ OkOnlyWhenConsistent'
    BY <1>6, <2>1, ReadyIs
  <2>7. DialogTyped' BY <1>1, <1>2, <1>5, <1>6, <2>1, <2>5 DEF DialogTyped
  <2>8. selected' \in DOMAIN Plots BY <1>1, <1>2
  <2> QED BY <1>1, <1>4, <1>6, <2>3, <2>5, <2>6, <2>7, <2>8, DialogStep DEF Shown
<1>7. ASSUME NEW name \in Names, NEW t,
             t = new([currentRange EXCEPT !.ids[n] = getIonID(currentRange, name)]),
             modified' = Edited(t), generatePlotRegions(t), setRangeReady(Edited(t)),
             rangeRows' = rangeRows
      PROVE  IInv'
  <2> DEFINE ion == getIonID(currentRange, name)
             u == [currentRange EXCEPT !.ids[n] = ion]
  <2>1. ion \in Int BY <1>2, IonFound
  <2>2. InTable(n) => n \in DOMAIN currentRange.ids BY <1>2, <1>4, TableIs
  <2>3. t = IF InTable(n) THEN u ELSE currentRange BY <1>7
  <2> HIDE DEF ion, n
  <2>4. InTable(n) => /\ u \in Tables /\ u.ranges = currentRange.ranges
                      /\ u.ions = currentRange.ions /\ ~u.enforceConsistency
    BY <1>2, <2>1, <2>2, IonOfRangeSet
  <2> HIDE DEF u
  <2>5. t \in Tables /\ t.ranges = currentRange.ranges /\ t.ions = currentRange.ions
        /\ ~t.enforceConsistency
    BY <1>2, <2>3, <2>4
  <2>6. \A f \in Filters : modified'[f].ranges = modified[f].ranges
    BY <1>1, <1>2, <1>7, <2>5, EditedIs
  <2>7. RangesShown' BY <1>1, <1>7, <2>6, RangeGridLeft
  <2> QED BY <1>5, <1>6, <1>7, <2>5, <2>7
<1>8. ASSUME NEW k \in {1, 2}, NEW mass \in Masses, NEW t,
             t = new(SetLimit(currentRange, n, k, mass)),
             modified' = Edited(t), generatePlotRegions(t), setRangeReady(Edited(t)),
             rangeRows' = [rangeRows EXCEPT !.shown[row][k] = mass, !.of = Mixed(@)]
      PROVE  IInv'
  <2> DEFINE u == SetLimit(currentRange, n, k, mass)
             typed == [rangeRows.shown EXCEPT ![row][k] = mass]
  <2>1. mass \in Int BY BoundsAssumption
  <2>2. t = IF InTable(n) THEN u ELSE currentRange BY <1>8
  <2>3. InTable(n) => /\ u \in Tables /\ u.ranges = [currentRange.ranges EXCEPT ![n][k] = mass]
                      /\ u.ions = currentRange.ions /\ ~u.enforceConsistency
    <3> HIDE DEF n
    <3> QED BY <1>2, <1>4, <2>1, SetLimitIs
  <2> HIDE DEF u
  <2>4. t \in Tables /\ t.ions = currentRange.ions /\ ~t.enforceConsistency
    BY <1>2, <2>2, <2>3
  <2>5. rangeRows.shown \in Seq(Ranges) BY <1>5
  <2> DEFINE x == [rangeRows.shown[row] EXCEPT ![k] = mass]
  <2>6. x \in Ranges
    <3> DEFINE r == rangeRows.shown[row]
    <3>1. r \in Ranges BY <2>5
    <3> HIDE DEF r
    <3>2. [r EXCEPT ![k] = mass] \in Ranges BY <3>1, <2>1, LimitSet
    <3> QED BY <3>2 DEF r
  <2>7. typed = [rangeRows.shown EXCEPT ![row] = x] OBVIOUS
  <2> HIDE DEF x
  <2>8. /\ typed \in Seq(Ranges) /\ Len(typed) = Len(rangeRows.shown)
        /\ DOMAIN typed = DOMAIN rangeRows.shown
        /\ \A i \in DOMAIN rangeRows.shown :
              typed[i] = IF i = row THEN x ELSE rangeRows.shown[i]
    BY <2>5, <2>6, <2>7, ElementSet
  <2>9. /\ rangeRows'.shown = typed /\ rangeRows'.of = Mixed(rangeRows.of)
        /\ rangeRows' \in [of : Filters \cup {"mixed"}, shown : Seq(Ranges), pending : Nat]
        /\ rangeRows'.pending = rangeRows.pending
    <3>1. Mixed(rangeRows.of) \in Filters \cup {"mixed"} BY <1>5 DEF Mixed
    <3>2. rangeRows' = [rangeRows EXCEPT !.shown = typed, !.of = Mixed(rangeRows.of)] BY <1>8
    <3> HIDE DEF typed
    <3> QED BY <3>1, <3>2, <1>5, <2>8
  <2>10. modified'[PlotFilter] = t BY <1>1, <1>8, <2>4, EditedIs
  <2>11. RangesShown'
    <3> SUFFICES ASSUME rangeRows'.of \in Filters
                 PROVE  RowsFit(rangeRows', modified'[rangeRows'.of].ranges)
      BY DEF RangesShown
    <3>1. rangeRows.of = PlotFilter /\ rangeRows'.of = PlotFilter
      BY <2>9, PlotsAssumption DEF Mixed
    <3>2. RowsFit(rangeRows, currentRange.ranges) BY <3>1, <1>4
    <3>3. CASE InTable(n)
      <4>1. n = row /\ t = u /\ n \in DOMAIN currentRange.ranges BY <3>1, <3>3, <1>4, <2>2
      <4>2. t.ranges = [currentRange.ranges EXCEPT ![n][k] = mass] BY <4>1, <2>3, <3>3
      <4>3. /\ currentRange.ranges \in Seq(Ranges) BY <1>2, TableIs
      <4>4. /\ Len(t.ranges) = Len(currentRange.ranges)
            /\ \A i \in DOMAIN currentRange.ranges :
                  t.ranges[i] = IF i = n THEN [currentRange.ranges[n] EXCEPT ![k] = mass]
                                ELSE currentRange.ranges[i]
        <5> HIDE DEF n
        <5> QED BY <4>1, <4>2, <4>3
      <4>5. n > rangeRows.pending => x = t.ranges[n]
        BY <3>2, <4>1, <4>4 DEF RowsFit, x
      <4>6. DOMAIN rangeRows.shown = DOMAIN currentRange.ranges
        BY <3>2, <4>3, <2>5 DEF RowsFit
      <4> HIDE DEF n, typed
      <4>7. Len(rangeRows'.shown) = Len(t.ranges) BY <2>8, <2>9, <3>2, <4>4 DEF RowsFit
      <4>8. ASSUME NEW i \in DOMAIN rangeRows'.shown, i > rangeRows'.pending
            PROVE  rangeRows'.shown[i] = t.ranges[i]
        <5>1. i \in DOMAIN rangeRows.shown /\ i > rangeRows.pending BY <4>8, <2>8, <2>9
        <5> QED BY <5>1, <2>8, <2>9, <3>2, <4>1, <4>4, <4>5, <4>6 DEF RowsFit
      <4> QED BY <3>1, <4>7, <4>8, <2>10 DEF RowsFit
    <3>4. CASE ~InTable(n)
      <4>1. t = currentRange /\ row <= rangeRows.pending BY <3>1, <3>4, <1>4, <2>2
      <4> HIDE DEF n, typed
      <4> QED BY <3>1, <3>2, <4>1, <2>8, <2>9, <2>10 DEF RowsFit
    <3> QED BY <3>3, <3>4
  <2> HIDE DEF n
  <2> QED BY <1>6, <1>8, <2>4, <2>9, <2>11
<1>9. \/ \E name \in Names :
           LET t == new([currentRange EXCEPT !.ids[n] = getIonID(currentRange, name)]) IN
           /\ modified' = Edited(t) /\ generatePlotRegions(t) /\ setRangeReady(Edited(t))
           /\ rangeRows' = rangeRows
      \/ \E k \in {1, 2}, mass \in Masses :
           LET t == new(SetLimit(currentRange, n, k, mass)) IN
           /\ modified' = Edited(t) /\ generatePlotRegions(t) /\ setRangeReady(Edited(t))
           /\ rangeRows' = [rangeRows EXCEPT !.shown[row][k] = mass, !.of = Mixed(@)]
  <2>1. cells(row) BY <1>3
  <2> QED BY <2>1
<1> HIDE DEF n, new
<1>10. CASE \E name \in Names :
           LET t == new([currentRange EXCEPT !.ids[n] = getIonID(currentRange, name)]) IN
           /\ modified' = Edited(t) /\ generatePlotRegions(t) /\ setRangeReady(Edited(t))
           /\ rangeRows' = rangeRows
  BY <1>7, <1>10
<1>11. CASE \E k \in {1, 2}, mass \in Masses :
           LET t == new(SetLimit(currentRange, n, k, mass)) IN
           /\ modified' = Edited(t) /\ generatePlotRegions(t) /\ setRangeReady(Edited(t))
           /\ rangeRows' = [rangeRows EXCEPT !.shown[row][k] = mass, !.of = Mixed(@)]
  BY <1>8, <1>11
<1> QED BY <1>9, <1>10, <1>11

\* An incomplete range that is typed stays one.
LEMMA RangeTyped ==
    ASSUME NEW p \in PendingRanges
    PROVE  /\ p.of \in Filters
           /\ \A m \in Masses : /\ [p EXCEPT !.start = <<m>>] \in PendingRanges
                                /\ [p EXCEPT !.end = <<m>>] \in PendingRanges
           /\ \A ion \in Nat : [p EXCEPT !.parent = ion] \in PendingRanges
           /\ Finished(p) => p.start[1] \in Int /\ p.end[1] \in Int /\ p.parent \in Int
<1>1. /\ p.of \in Filters /\ p.parent \in Nat
      /\ p.start \in {<<>>} \cup {<<m>> : m \in Masses}
      /\ p.end \in {<<>>} \cup {<<m>> : m \in Masses}
  BY DEF PendingRanges
<1>2. /\ \A m \in Masses : /\ [p EXCEPT !.start = <<m>>] \in PendingRanges
                           /\ [p EXCEPT !.end = <<m>>] \in PendingRanges
      /\ \A ion \in Nat : [p EXCEPT !.parent = ion] \in PendingRanges
  BY DEF PendingRanges
<1>3. ASSUME NEW m \in Masses PROVE <<m>>[1] \in Int BY BoundsAssumption
<1>4. Finished(p) => p.start[1] \in Int /\ p.end[1] \in Int
  BY <1>1, <1>3 DEF Finished
<1> QED BY <1>1, <1>2, <1>4

LEMMA PendingRangeStep == ASSUME IInv, EditIncompleteRange PROVE IInv'
<1>1. /\ isOpen
      /\ generateRangeEntries(modified'[PlotFilter], incompleteRanges')
      /\ generatePlotRegions(modified'[PlotFilter])
      /\ hit' = NoHit
      /\ UNCHANGED <<outside, isOpen, selected, ionRows, incompleteIons, okEnabled>>
  BY DEF EditIncompleteRange
<1>2. /\ selected \in DOMAIN Plots /\ PlotFilter \in Filters /\ isOpen = TRUE
      /\ modified \in [Filters -> Tables] /\ DialogTyped
      /\ \A f \in Filters : modified[f] \in Tables /\ ~modified[f].enforceConsistency
  BY <1>1, InDialog
<1>3. incompleteRanges \in Seq(PendingRanges) BY <1>2 DEF DialogTyped
<1> DEFINE typed(k) == {[incompleteRanges[k] EXCEPT !.start = <<m>>] : m \in Masses}
               \cup {[incompleteRanges[k] EXCEPT !.end = <<m>>] : m \in Masses}
               \cup {[incompleteRanges[k] EXCEPT !.parent =
                        getIonID(modified[incompleteRanges[k].of], name)] :
                     name \in {n \in Names : getIonID(modified[incompleteRanges[k].of], n) # 0}}
           put(k, p) ==
          /\ modified' = IF Finished(p)
                         THEN [modified EXCEPT ![p.of] = addRange(@, p.start[1], p.end[1], p.parent)]
                         ELSE modified
          /\ incompleteRanges' = IF Finished(p) THEN SwapPop(incompleteRanges, k)
                                 ELSE [incompleteRanges EXCEPT ![k] = p]
          /\ unsure' = (unsure \/ Finished(p))
<1>4. PICK k \in DOMAIN incompleteRanges : \E p \in typed(k) : put(k, p)
  BY DEF EditIncompleteRange
<1>5. PICK p \in typed(k) : put(k, p) BY <1>4
<1>6. p \in PendingRanges
  <2> DEFINE old == incompleteRanges[k]
  <2>1. old \in PendingRanges BY <1>3
  <2>2. old.of \in Filters BY <2>1, RangeTyped
  <2>3. modified[old.of] \in Tables BY <2>2, <1>2
  <2>4. \/ \E m \in Masses : p = [old EXCEPT !.start = <<m>>]
        \/ \E m \in Masses : p = [old EXCEPT !.end = <<m>>]
        \/ \E name \in Names : p = [old EXCEPT !.parent = getIonID(modified[old.of], name)]
    BY <1>5
  <2>5. \A name \in Names : getIonID(modified[old.of], name) \in Nat BY <2>3, IonFound
  <2> HIDE DEF old
  <2>6. CASE \E m \in Masses : p = [old EXCEPT !.start = <<m>>] BY <2>1, <2>6, RangeTyped
  <2>7. CASE \E m \in Masses : p = [old EXCEPT !.end = <<m>>] BY <2>1, <2>7, RangeTyped
  <2>8. CASE \E name \in Names : p = [old EXCEPT !.parent = getIonID(modified[old.of], name)]
    <3>1. PICK ion \in Nat : p = [old EXCEPT !.parent = ion] BY <2>5, <2>8
    <3> QED BY <3>1, <2>1, RangeTyped
  <2> QED BY <2>4, <2>6, <2>7, <2>8
<1>7. put(k, p) BY <1>5
<1> HIDE DEF typed
<1>8. incompleteRanges' \in Seq(PendingRanges)
  <2>1. SwapPop(incompleteRanges, k) \in Seq(PendingRanges) BY <1>3, SwapPopIs
  <2>2. [incompleteRanges EXCEPT ![k] = p] \in Seq(PendingRanges) BY <1>3, <1>6, ElementSet
  <2> QED BY <2>1, <2>2, <1>7
<1>9. /\ modified' \in [Filters -> Tables]
      /\ \A f \in Filters :
            /\ modified'[f] \in Tables /\ ~modified'[f].enforceConsistency
            /\ modified'[f].ions = modified[f].ions
            /\ Begins(modified[f].ranges, modified'[f].ranges)
  <2>1. ASSUME NEW f \in Filters
        PROVE  modified[f].ranges \in Seq(Ranges) /\ Begins(modified[f].ranges, modified[f].ranges)
    <3>1. modified[f].ranges \in Seq(Ranges) BY <1>2, TableIs
    <3> QED BY <3>1, BeginsItself
  <2>2. CASE Finished(p)
    <3> DEFINE t == modified[p.of]
               u == addRange(t, p.start[1], p.end[1], p.parent)
    <3>1. p.of \in Filters /\ p.start[1] \in Int /\ p.end[1] \in Int /\ p.parent \in Int
      BY <1>6, <2>2, RangeTyped
    <3>2. t \in Tables /\ ~t.enforceConsistency BY <3>1, <1>2
    <3>3. modified' = [modified EXCEPT ![p.of] = u] BY <1>7, <2>2
    <3>4. /\ u \in Tables /\ u.ions = t.ions /\ ~u.enforceConsistency
          /\ u.ranges = Append(t.ranges, <<p.start[1], p.end[1]>>)
      <4> DEFINE start == p.start[1]
                 end == p.end[1]
                 ion == p.parent
      <4> HIDE DEF t
      <4>1. u = addRange(t, start, end, ion) OBVIOUS
      <4>2. start \in Int /\ end \in Int /\ ion \in Int BY <3>1
      <4> HIDE DEF u, start, end, ion
      <4>3. /\ u \in Tables /\ u.ions = t.ions /\ ~u.enforceConsistency
            /\ u.ranges = Append(t.ranges, <<start, end>>)
        BY ONLY <3>2, <4>1, <4>2, AddRangeIs
      <4> QED BY <4>3 DEF start, end
    <3>5. Begins(t.ranges, u.ranges)
      <4>1. t.ranges \in Seq(Ranges) /\ <<p.start[1], p.end[1]>> \in Ranges
        BY <3>1, <2>1 DEF Ranges
      <4> QED BY <4>1, <3>4, BeginsAppended
    <3> HIDE DEF u
    <3>6. \A f \in Filters : modified'[f] = IF f = p.of THEN u ELSE modified[f]
      BY <1>2, <3>1, <3>3
    <3>7. modified' \in [Filters -> Tables] BY <1>2, <3>1, <3>3, <3>4
    <3> QED BY <1>2, <2>1, <3>4, <3>5, <3>6, <3>7
  <2>3. CASE ~Finished(p)
    <3>1. modified' = modified BY <1>7, <2>3
    <3> QED BY <3>1, <1>2, <2>1
  <2> QED BY <2>2, <2>3
<1>10. modified'[PlotFilter] \in Tables BY <1>2, <1>9
<1>11. /\ rangeRows' \in [of : Filters \cup {"mixed"}, shown : Seq(Ranges), pending : Nat]
       /\ Len(incompleteRanges') = rangeRows'.pending
       /\ RangesShown'
  <2> DEFINE pending == incompleteRanges'
             t == modified'[PlotFilter]
  <2>1. pending \in Seq(PendingRanges) /\ generateRangeEntries(t, pending) /\ t \in Tables
        /\ modified'[PlotFilter] = t
    BY <1>1, <1>8, <1>10
  <2>2. isOpen' = isOpen BY <1>1
  <2> HIDE DEF pending, t
  <2> QED BY <2>1, <2>2, <1>1, RangeGridFilled DEF pending
<1>12. regions' \in [DOMAIN Plots -> [shown : Seq(Ranges), emptied : BOOLEAN]] /\ RegionsShown'
  <2> DEFINE t == modified'[PlotFilter]
  <2>1. generatePlotRegions(t) /\ t \in Tables /\ modified'[PlotFilter] = t /\ isOpen' = isOpen
    BY <1>1, <1>10
  <2> HIDE DEF t
  <2> QED BY <2>1, <1>1, <1>9, RegionsDrawn
<1>13. IonsShown' BY <1>1, <1>9, IonGridLeft
<1>14. DialogTyped' BY <1>1, <1>2, <1>8, <1>9, <1>11, <1>12 DEF DialogTyped
<1>15. okEnabled' \in BOOLEAN /\ unsure' \in BOOLEAN /\ OkOnlyWhenConsistent'
  <2>1. okEnabled \in BOOLEAN /\ unsure \in BOOLEAN BY DEF IInv, TypeOK
  <2>2. ~unsure' => modified' = modified BY <1>7
  <2>3. ~unsure' => ~unsure BY <1>7
  <2>4. Finished(p) \in BOOLEAN BY DEF Finished
  <2>5. unsure' \in BOOLEAN BY <1>7, <2>1, <2>4
  <2>6. OkOnlyWhenConsistent' BY <1>1, <2>2, <2>3 DEF IInv, OkOnlyWhenConsistent
  <2> QED BY <1>1, <2>1, <2>5, <2>6
<1>16. selected' \in DOMAIN Plots BY <1>1, <1>2
<1> QED BY <1>1, <1>11, <1>12, <1>13, <1>14, <1>15, <1>16, NoHitHits, DialogStep DEF Shown

LEMMA IonCellStep == ASSUME IInv, OnGridIonsCellChange PROVE IInv'
<1>1. /\ isOpen /\ setRangeReady(modified')
      /\ UNCHANGED <<outside, isOpen, selected, rangeRows, incompleteRanges, incompleteIons>>
  BY DEF OnGridIonsCellChange
<1>2. /\ selected \in DOMAIN Plots /\ PlotFilter \in Filters /\ currentRange = modified[PlotFilter]
      /\ modified \in [Filters -> Tables] /\ DialogTyped
      /\ currentRange \in Tables /\ ~currentRange.enforceConsistency
  BY <1>1, InDialog
<1> DEFINE cells(row) ==
       \/ \E name \in Names :
                /\ modified' = Edited([currentRange EXCEPT !.ions[row].short = name])
                /\ ionRows' = [ionRows EXCEPT !.shown[row] = name, !.of = Mixed(@)]
                /\ UNCHANGED regions
       \/ \E name \in Names :
                /\ modified' = Edited([currentRange EXCEPT !.ions[row].long = name])
                /\ UNCHANGED <<ionRows, regions>>
       \/ \E colour \in Colours :
                /\ modified' = Edited([currentRange EXCEPT !.ions[row].colour = colour])
                /\ generatePlotRegions(currentRange)
                /\ UNCHANGED ionRows
<1>3. PICK row \in DOMAIN ionRows.shown : IonRow(row) /\ hit' = IonHit(row) /\ cells(row)
  BY DEF OnGridIonsCellChange
<1>4. /\ row \in DOMAIN currentRange.ions /\ EditsHitWhatIsShown'
      /\ ionRows.of = PlotFilter => ionRows.shown = ShortNames(currentRange.ions)
  BY <1>1, <1>3, IonRowHit
<1>5. /\ ionRows \in [of : Filters \cup {"mixed"}, shown : Seq(AllNames), pending : Nat]
      /\ Len(incompleteIons) = ionRows.pending
      /\ regions \in [DOMAIN Plots -> [shown : Seq(Ranges), emptied : BOOLEAN]]
  BY <1>2 DEF DialogTyped
\* What follows of any new table with the same ranges.
<1>6. ASSUME NEW t \in Tables, t.enforceConsistency = currentRange.enforceConsistency,
             t.ranges = currentRange.ranges,
             modified' = Edited(t), regions' = regions \/ generatePlotRegions(currentRange),
             ionRows' \in [of : Filters \cup {"mixed"}, shown : Seq(AllNames), pending : Nat],
             ionRows'.pending = ionRows.pending, IonsShown'
      PROVE  IInv'
  <2>1. /\ modified' \in [Filters -> Tables]
        /\ \A f \in Filters : ~modified'[f].enforceConsistency
        /\ modified'[PlotFilter] = t
        /\ \A f \in Filters \ {PlotFilter} : modified'[f] = modified[f]
    BY <1>1, <1>2, <1>6, EditedIs
  <2>2. \A f \in Filters : modified'[f].ranges = modified[f].ranges BY <1>2, <1>6, <2>1
  <2>3. RangesShown' BY <1>1, <2>2, RangeGridLeft
  <2>4. /\ regions' \in [DOMAIN Plots -> [shown : Seq(Ranges), emptied : BOOLEAN]]
        /\ RegionsShown'
    <3>1. CASE regions' = regions BY <3>1, <1>1, <1>5, <2>2, RegionsLeft
    <3>2. CASE generatePlotRegions(currentRange)
      <4>1. generatePlotRegions(t)
        BY <3>2, <1>6 DEF generatePlotRegions, Drawn
      <4>2. \A f \in Filters \ {PlotFilter} : Begins(modified[f].ranges, modified'[f].ranges)
        BY <1>2, <2>1, TableIs, BeginsItself
      <4> QED BY <4>1, <4>2, <1>1, <1>6, <2>1, RegionsDrawn
    <3> QED BY <3>1, <3>2, <1>6
  <2>5. okEnabled' \in BOOLEAN /\ unsure' \in BOOLEAN /\ OkOnlyWhenConsistent'
    <3> DEFINE tables == modified'
    <3>1. tables \in [Filters -> Tables] /\ setRangeReady(tables) /\ modified' = tables
      BY <1>1, <2>1
    <3> HIDE DEF tables
    <3> QED BY <3>1, ReadyIs
  <2>6. DialogTyped' BY <1>1, <1>2, <1>5, <1>6, <2>1, <2>4 DEF DialogTyped
  <2>7. selected' \in DOMAIN Plots BY <1>1, <1>2
  <2> QED BY <1>1, <1>4, <1>6, <2>3, <2>4, <2>5, <2>6, <2>7, DialogStep DEF Shown
\* The grid is left, and what it shows of the ions stays.
<1>7. ASSUME NEW t \in Tables, modified' = Edited(t), ~t.enforceConsistency,
             ShortNames(t.ions) = ShortNames(currentRange.ions), ionRows' = ionRows
      PROVE  IonsShown'
  <2>1. /\ modified'[PlotFilter] = t
        /\ \A f \in Filters \ {PlotFilter} : modified'[f] = modified[f]
    BY <1>1, <1>7, EditedIs
  <2>2. \A f \in Filters : ShortNames(modified'[f].ions) = ShortNames(modified[f].ions)
    BY <2>1, <1>2, <1>7
  <2> QED BY <1>1, <1>7, <2>2 DEF IInv, Shown, IonsShown
<1>8. CASE \E name \in Names :
                /\ modified' = Edited([currentRange EXCEPT !.ions[row].short = name])
                /\ ionRows' = [ionRows EXCEPT !.shown[row] = name, !.of = Mixed(@)]
                /\ UNCHANGED regions
  <2>1. PICK name \in Names :
                /\ modified' = Edited([currentRange EXCEPT !.ions[row].short = name])
                /\ ionRows' = [ionRows EXCEPT !.shown[row] = name, !.of = Mixed(@)]
                /\ UNCHANGED regions
    BY <1>8
  <2> DEFINE t == [currentRange EXCEPT !.ions[row].short = name]
             new == [ionRows.shown EXCEPT ![row] = name]
  <2>2. /\ t \in Tables /\ t.ranges = currentRange.ranges
        /\ t.enforceConsistency = currentRange.enforceConsistency
        /\ ShortNames(t.ions) = [ShortNames(currentRange.ions) EXCEPT ![row] = name]
    <3>1. t = WithShort(currentRange, row, name)
      BY DEF WithShort
    <3> HIDE DEF t
    <3> QED BY <3>1, <1>2, <1>4, IonPartSet
  <2>3. new \in Seq(AllNames)
    <3>1. name \in AllNames BY DEF AllNames
    <3>2. ionRows.shown \in Seq(AllNames) BY <1>5
    <3> QED BY <3>1, <3>2, <1>3, ElementSet
  <2>4. Mixed(ionRows.of) \in Filters \cup {"mixed"} BY <1>5 DEF Mixed
  <2>5. ionRows' = [ionRows EXCEPT !.shown = new, !.of = Mixed(ionRows.of)] BY <2>1
  <2>6. modified' = Edited(t) BY <2>1
  <2> HIDE DEF t
  <2>7. modified'[PlotFilter] = t BY <1>1, <1>2, <2>2, <2>6, EditedIs
  <2>8. new = ShortNames(t.ions) \/ ionRows.of # PlotFilter BY <1>4, <2>2
  <2> HIDE DEF new
  <2>9. /\ ionRows' \in [of : Filters \cup {"mixed"}, shown : Seq(AllNames), pending : Nat]
        /\ ionRows'.pending = ionRows.pending
        /\ ionRows'.shown = new /\ ionRows'.of = Mixed(ionRows.of)
    BY <2>3, <2>4, <2>5, <1>5
  <2>10. IonsShown'
    <3> SUFFICES ASSUME ionRows'.of \in Filters
                 PROVE  ionRows'.shown = ShortNames(modified'[ionRows'.of].ions)
      BY DEF IonsShown
    <3>1. ionRows.of = PlotFilter /\ ionRows'.of = PlotFilter
      BY <2>9, PlotsAssumption DEF Mixed
    <3> QED BY <3>1, <2>7, <2>8, <2>9
  <2> QED BY <1>6, <2>1, <2>2, <2>6, <2>9, <2>10
<1>9. CASE \E name \in Names :
                /\ modified' = Edited([currentRange EXCEPT !.ions[row].long = name])
                /\ UNCHANGED <<ionRows, regions>>
  <2>1. PICK name \in Names :
                /\ modified' = Edited([currentRange EXCEPT !.ions[row].long = name])
                /\ UNCHANGED <<ionRows, regions>>
    BY <1>9
  <2> DEFINE t == [currentRange EXCEPT !.ions[row].long = name]
  <2>2. /\ t \in Tables /\ t.ranges = currentRange.ranges
        /\ t.enforceConsistency = currentRange.enforceConsistency
        /\ ShortNames(t.ions) = ShortNames(currentRange.ions)
    <3>1. t = WithLong(currentRange, row, name)
      BY DEF WithLong
    <3> HIDE DEF t
    <3> QED BY <3>1, <1>2, <1>4, IonPartSet
  <2>3. modified' = Edited(t) BY <2>1
  <2> HIDE DEF t
  <2>4. IonsShown' BY <1>2, <1>7, <2>1, <2>2, <2>3
  <2> QED BY <1>5, <1>6, <2>1, <2>2, <2>3, <2>4
<1>10. CASE \E colour \in Colours :
                /\ modified' = Edited([currentRange EXCEPT !.ions[row].colour = colour])
                /\ generatePlotRegions(currentRange)
                /\ UNCHANGED ionRows
  <2>1. PICK colour \in Colours :
                /\ modified' = Edited([currentRange EXCEPT !.ions[row].colour = colour])
                /\ generatePlotRegions(currentRange)
                /\ UNCHANGED ionRows
    BY <1>10
  <2> DEFINE t == [currentRange EXCEPT !.ions[row].colour = colour]
  <2>2. /\ t \in Tables /\ t.ranges = currentRange.ranges
        /\ t.enforceConsistency = currentRange.enforceConsistency
        /\ ShortNames(t.ions) = ShortNames(currentRange.ions)
    <3>1. t = WithColour(currentRange, row, colour)
      BY DEF WithColour
    <3> HIDE DEF t
    <3> QED BY <3>1, <1>2, <1>4, IonPartSet
  <2>3. modified' = Edited(t) BY <2>1
  <2> HIDE DEF t
  <2>4. IonsShown' BY <1>2, <1>7, <2>1, <2>2, <2>3
  <2> QED BY <1>5, <1>6, <2>1, <2>2, <2>3, <2>4
<1> QED BY <1>3, <1>8, <1>9, <1>10

\* An incomplete ion that is typed stays one.
LEMMA IonTyped ==
    ASSUME NEW p \in PendingIons
    PROVE  /\ p.of \in Filters
           /\ \A name \in Names : /\ [p EXCEPT !.short = name] \in PendingIons
                                  /\ [p EXCEPT !.long = name] \in PendingIons
           /\ [p EXCEPT !.long = <<>>] \in PendingIons
           /\ \A c \in Colours : [p EXCEPT !.colour = c] \in PendingIons
           /\ p.short # <<>> => p.short \in Names
           /\ p.long # <<>> => p.long \in Names
           /\ p.colour # <<>> => p.colour \in Colours
BY DEF PendingIons

\* An incomplete ion becomes p, or is put into its copy.
LEMMA PutIonIs ==
    ASSUME IInv, isOpen, isOpen' = isOpen, selected' = selected,
           NEW k \in DOMAIN incompleteIons, NEW p \in PendingIons, PutIon(k, p)
    PROVE  /\ modified' \in [Filters -> Tables]
           /\ \A f \in Filters : /\ ~modified'[f].enforceConsistency
                                 /\ modified'[f].ranges = modified[f].ranges
           /\ incompleteIons' \in Seq(PendingIons)
           /\ ionRows' \in [of : Filters \cup {"mixed"}, shown : Seq(AllNames), pending : Nat]
           /\ Len(incompleteIons') = ionRows'.pending
           /\ IonsShown'
<1>1. /\ PlotFilter \in Filters /\ modified \in [Filters -> Tables] /\ DialogTyped
      /\ \A f \in Filters : modified[f] \in Tables /\ ~modified[f].enforceConsistency
  BY InDialog
<1>2. /\ incompleteIons \in Seq(PendingIons) /\ Len(incompleteIons) = ionRows.pending
      /\ ionRows \in [of : Filters \cup {"mixed"}, shown : Seq(AllNames), pending : Nat]
  BY <1>1 DEF DialogTyped
<1>3. CASE IonReady(p, modified[p.of])
  <2>1. /\ modified' = [modified EXCEPT ![p.of] = addIon(@, p.short, p.long, p.colour)]
        /\ incompleteIons' = SwapPop(incompleteIons, k)
        /\ generateIonEntries(modified'[PlotFilter], incompleteIons')
    BY <1>3 DEF PutIon
  <2>2. p.of \in Filters /\ p.short \in Names /\ p.long \in Names /\ p.colour \in Colours
    BY <1>3, IonTyped DEF IonReady
  <2> DEFINE t == modified[p.of]
             u == addIon(t, p.short, p.long, p.colour)
  <2>3. t \in Tables /\ ~t.enforceConsistency BY <1>1, <2>2
  <2>4. u \in Tables /\ u.ranges = t.ranges /\ u.enforceConsistency = t.enforceConsistency
    <3> HIDE DEF t
    <3> QED BY <2>2, <2>3, AddIonIs
  <2>5. modified' = [modified EXCEPT ![p.of] = u] BY <2>1
  <2> HIDE DEF u
  <2>6. /\ modified' \in [Filters -> Tables]
        /\ \A f \in Filters : modified'[f] = IF f = p.of THEN u ELSE modified[f]
    BY <2>2, <2>4, <2>5, <1>1
  <2>7. incompleteIons' \in Seq(PendingIons) BY <2>1, <1>2, SwapPopIs
  <2>8. modified'[PlotFilter] \in Tables BY <2>6, <1>1
  <2>9. /\ ionRows' \in [of : Filters \cup {"mixed"}, shown : Seq(AllNames), pending : Nat]
        /\ Len(incompleteIons') = ionRows'.pending
        /\ IonsShown'
    <3> DEFINE pending == incompleteIons'
               new == modified'[PlotFilter]
    <3>1. /\ pending \in Seq(PendingIons) /\ new \in Tables /\ generateIonEntries(new, pending)
          /\ modified'[PlotFilter] = new
      BY <2>1, <2>7, <2>8
    <3> HIDE DEF pending, new
    <3> QED BY <3>1, IonGridFilled DEF pending
  <2> QED BY <1>1, <2>3, <2>4, <2>6, <2>7, <2>9
<1>4. CASE ~IonReady(p, modified[p.of])
  <2>1. /\ incompleteIons' = [incompleteIons EXCEPT ![k] = p]
        /\ modified' = modified /\ ionRows' = ionRows
    BY <1>4 DEF PutIon
  <2>2. incompleteIons' \in Seq(PendingIons) /\ Len(incompleteIons') = Len(incompleteIons)
    BY <2>1, <1>2, ElementSet
  <2>3. IonsShown' BY <2>1, IonGridLeft
  <2> QED BY <2>1, <2>2, <2>3, <1>1, <1>2
<1> QED BY <1>3, <1>4

LEMMA PendingIonStep == ASSUME IInv, EditIncompleteIon PROVE IInv'
<1>1. /\ isOpen /\ hit' = NoHit
      /\ UNCHANGED <<outside, isOpen, selected, rangeRows, regions, incompleteRanges>>
  BY DEF EditIncompleteIon
<1>2. /\ selected \in DOMAIN Plots /\ modified \in [Filters -> Tables] /\ DialogTyped
  BY <1>1, InDialog
<1>3. incompleteIons \in Seq(PendingIons) BY <1>2 DEF DialogTyped
<1>4. PICK k \in DOMAIN incompleteIons :
         LET p == incompleteIons[k]
             t == modified[p.of]
         IN  \/ /\ \/ \E name \in Names :
                        getIonID(t, name) = 0 /\ PutIon(k, [p EXCEPT !.short = name])
                   \/ \E name \in Names :
                        /\ getIonIDByLongName(t, name) = 0
                        /\ PutIon(k, [p EXCEPT !.long =
                              IF getIonIDByLongName(t, p.short) = 0 THEN name ELSE <<>>])
                /\ unsure' = (unsure \/ modified' # modified) /\ UNCHANGED okEnabled
             \/ /\ \E c \in Colours : PutIon(k, [p EXCEPT !.colour = c])
                /\ setRangeReady(modified')
  BY DEF EditIncompleteIon
<1> DEFINE p == incompleteIons[k]
           t == modified[p.of]
<1>5. p \in PendingIons BY <1>3
<1>6. \/ /\ \E new \in PendingIons : PutIon(k, new)
         /\ unsure' = (unsure \/ modified' # modified) /\ okEnabled' = okEnabled
      \/ /\ \E new \in PendingIons : PutIon(k, new)
         /\ setRangeReady(modified')
  <2>1. CASE /\ \/ \E name \in Names :
                        getIonID(t, name) = 0 /\ PutIon(k, [p EXCEPT !.short = name])
                \/ \E name \in Names :
                        /\ getIonIDByLongName(t, name) = 0
                        /\ PutIon(k, [p EXCEPT !.long =
                              IF getIonIDByLongName(t, p.short) = 0 THEN name ELSE <<>>])
             /\ unsure' = (unsure \/ modified' # modified) /\ UNCHANGED okEnabled
    <3>1. CASE \E name \in Names :
                  getIonID(t, name) = 0 /\ PutIon(k, [p EXCEPT !.short = name])
      <4>1. PICK name \in Names : PutIon(k, [p EXCEPT !.short = name]) BY <3>1
      <4> DEFINE new == [p EXCEPT !.short = name]
      <4>2. new \in PendingIons
        <5> HIDE DEF p
        <5> QED BY <1>5, IonTyped
      <4>3. PutIon(k, new) BY <4>1
      <4> HIDE DEF new
      <4> QED BY <4>2, <4>3, <2>1
    <3>2. CASE \E name \in Names :
                  /\ getIonIDByLongName(t, name) = 0
                  /\ PutIon(k, [p EXCEPT !.long =
                        IF getIonIDByLongName(t, p.short) = 0 THEN name ELSE <<>>])
      <4>1. PICK name \in Names :
               PutIon(k, [p EXCEPT !.long =
                  IF getIonIDByLongName(t, p.short) = 0 THEN name ELSE <<>>])
        BY <3>2
      <4> DEFINE long == IF getIonIDByLongName(t, p.short) = 0 THEN name ELSE <<>>
                 new == [p EXCEPT !.long = long]
      <4>2. long = name \/ long = <<>> OBVIOUS
      <4>3. PutIon(k, new) BY <4>1
      <4>4. new \in PendingIons
        <5> HIDE DEF p, long
        <5> QED BY <4>2, <1>5, IonTyped
      <4> HIDE DEF new
      <4> QED BY <4>3, <4>4, <2>1
    <3> QED BY <2>1, <3>1, <3>2
  <2>2. CASE (\E c \in Colours : PutIon(k, [p EXCEPT !.colour = c])) /\ setRangeReady(modified')
    <3>1. PICK c \in Colours : PutIon(k, [p EXCEPT !.colour = c]) BY <2>2
    <3> DEFINE new == [p EXCEPT !.colour = c]
    <3>2. new \in PendingIons
      <4> HIDE DEF p
      <4> QED BY <1>5, IonTyped
    <3>3. PutIon(k, new) BY <3>1
    <3> HIDE DEF new
    <3> QED BY <3>2, <3>3, <2>2
  <2> QED BY <1>4, <2>1, <2>2
<1>7. PICK new \in PendingIons : PutIon(k, new) BY <1>6
<1>8. /\ modified' \in [Filters -> Tables]
      /\ \A f \in Filters : /\ ~modified'[f].enforceConsistency
                            /\ modified'[f].ranges = modified[f].ranges
      /\ incompleteIons' \in Seq(PendingIons)
      /\ ionRows' \in [of : Filters \cup {"mixed"}, shown : Seq(AllNames), pending : Nat]
      /\ Len(incompleteIons') = ionRows'.pending
      /\ IonsShown'
  BY <1>1, <1>7, PutIonIs
<1>9. RangesShown' BY <1>1, <1>8, RangeGridLeft
<1>10. RegionsShown' BY <1>1, <1>8, RegionsLeft
<1>11. okEnabled' \in BOOLEAN /\ unsure' \in BOOLEAN /\ OkOnlyWhenConsistent'
  <2>1. CASE unsure' = (unsure \/ modified' # modified) /\ okEnabled' = okEnabled
    <3>1. okEnabled \in BOOLEAN /\ unsure \in BOOLEAN BY DEF IInv, TypeOK
    <3>2. OkOnlyWhenConsistent' BY <2>1 DEF IInv, OkOnlyWhenConsistent
    <3> QED BY <2>1, <3>1, <3>2
  <2>2. CASE setRangeReady(modified')
    <3> DEFINE tables == modified'
    <3>1. tables \in [Filters -> Tables] /\ setRangeReady(tables) /\ modified' = tables
      BY <2>2, <1>8
    <3> HIDE DEF tables
    <3> QED BY <3>1, ReadyIs
  <2> QED BY <1>6, <2>1, <2>2
<1>12. DialogTyped' BY <1>1, <1>2, <1>8 DEF DialogTyped
<1>13. selected' \in DOMAIN Plots BY <1>1, <1>2
<1> QED BY <1>1, <1>8, <1>9, <1>10, <1>11, <1>12, <1>13, NoHitHits, DialogStep DEF Shown

LEMMA AddStep == ASSUME IInv, OnBtnRangeIonAdd PROVE IInv'
<1>1. /\ isOpen /\ setRangeReady(modified) /\ hit' = NoHit /\ modified' = modified
      /\ UNCHANGED <<outside, isOpen, selected, regions>>
  BY DEF OnBtnRangeIonAdd
<1>2. /\ selected \in DOMAIN Plots /\ PlotFilter \in Filters /\ currentRange = modified[PlotFilter]
      /\ modified \in [Filters -> Tables] /\ DialogTyped /\ Shown
      /\ currentRange \in Tables
  BY <1>1, InDialog
<1>3. incompleteRanges \in Seq(PendingRanges) /\ incompleteIons \in Seq(PendingIons)
  BY <1>2 DEF DialogTyped
<1>4. modified'[PlotFilter] = currentRange BY <1>1, <1>2
<1>5. RegionsShown' BY <1>1, RegionsLeft
<1>6. okEnabled' \in BOOLEAN /\ unsure' \in BOOLEAN /\ OkOnlyWhenConsistent'
  BY <1>1, <1>2, ReadyIs
<1>7. DialogTyped' /\ RangesShown' /\ IonsShown'
  <2>1. CASE /\ incompleteRanges' = Append(incompleteRanges, NewRange(PlotFilter))
             /\ generateRangeEntries(currentRange, incompleteRanges')
             /\ UNCHANGED <<incompleteIons, ionRows>>
    <3>1. NewRange(PlotFilter) \in PendingRanges BY <1>2 DEF NewRange, PendingRanges
    <3> DEFINE pending == Append(incompleteRanges, NewRange(PlotFilter))
    <3>2. pending \in Seq(PendingRanges) BY <3>1, <1>3
    <3>3. generateRangeEntries(currentRange, pending) /\ incompleteRanges' = pending BY <2>1
    <3> HIDE DEF pending
    <3>4. /\ rangeRows' \in [of : Filters \cup {"mixed"}, shown : Seq(Ranges), pending : Nat]
          /\ Len(pending) = rangeRows'.pending
          /\ RangesShown'
      <4>1. isOpen' = isOpen BY <1>1
      <4> QED BY <1>1, <1>2, <1>4, <3>2, <3>3, <4>1, RangeGridFilled
    <3>5. DialogTyped' BY <1>1, <1>2, <2>1, <3>2, <3>3, <3>4 DEF DialogTyped
    <3>6. IonsShown' BY <1>1, <2>1, IonGridLeft
    <3> QED BY <3>4, <3>5, <3>6
  <2>2. CASE /\ incompleteIons' = Append(incompleteIons, NewPendingIon(PlotFilter))
             /\ generateIonEntries(currentRange, incompleteIons')
             /\ UNCHANGED <<incompleteRanges, rangeRows>>
    <3>1. NewPendingIon(PlotFilter) \in PendingIons BY <1>2 DEF NewPendingIon, PendingIons
    <3> DEFINE pending == Append(incompleteIons, NewPendingIon(PlotFilter))
    <3>2. pending \in Seq(PendingIons) BY <3>1, <1>3
    <3>3. generateIonEntries(currentRange, pending) /\ incompleteIons' = pending BY <2>2
    <3> HIDE DEF pending
    <3>4. /\ ionRows' \in [of : Filters \cup {"mixed"}, shown : Seq(AllNames), pending : Nat]
          /\ Len(pending) = ionRows'.pending
          /\ IonsShown'
      <4>1. isOpen' = isOpen BY <1>1
      <4> QED BY <1>1, <1>2, <1>4, <3>2, <3>3, <4>1, IonGridFilled
    <3>5. DialogTyped' BY <1>1, <1>2, <2>2, <3>2, <3>3, <3>4 DEF DialogTyped
    <3>6. RangesShown' BY <1>1, <2>2, RangeGridLeft
    <3> QED BY <3>4, <3>5, <3>6
  <2> QED BY <2>1, <2>2 DEF OnBtnRangeIonAdd
<1>8. selected' \in DOMAIN Plots BY <1>1, <1>2
<1> QED BY <1>1, <1>5, <1>6, <1>7, <1>8, NoHitHits, DialogStep DEF Shown

\* The copy that is shown is changed or not, and all follows but the ions' grid.
LEMMA Redrawn ==
    ASSUME IInv, isOpen, UNCHANGED <<outside, isOpen, selected>>,
           NEW t \in Tables, ~t.enforceConsistency, modified' = Edited(t),
           NEW pending \in Seq(PendingRanges), incompleteRanges' = pending,
           generateRangeEntries(t, pending), generatePlotRegions(t), setRangeReady(modified'),
           EditsHitWhatIsShown', IonsShown',
           ionRows' \in [of : Filters \cup {"mixed"}, shown : Seq(AllNames), pending : Nat],
           incompleteIons' \in Seq(PendingIons), Len(incompleteIons') = ionRows'.pending
    PROVE  IInv'
<1>1. /\ selected \in DOMAIN Plots /\ modified \in [Filters -> Tables]
      /\ \A f \in Filters : modified[f] \in Tables
  BY InDialog
<1>2. /\ modified' \in [Filters -> Tables]
      /\ \A f \in Filters : ~modified'[f].enforceConsistency
      /\ modified'[PlotFilter] = t
      /\ \A f \in Filters \ {PlotFilter} : modified'[f] = modified[f]
  BY EditedIs
<1>3. /\ rangeRows' \in [of : Filters \cup {"mixed"}, shown : Seq(Ranges), pending : Nat]
      /\ Len(pending) = rangeRows'.pending
      /\ RangesShown'
  BY <1>2, RangeGridFilled
<1>4. \A f \in Filters \ {PlotFilter} : Begins(modified[f].ranges, modified'[f].ranges)
  BY <1>1, <1>2, TableIs, BeginsItself
<1>5. regions' \in [DOMAIN Plots -> [shown : Seq(Ranges), emptied : BOOLEAN]] /\ RegionsShown'
  BY <1>2, <1>4, RegionsDrawn
<1>6. okEnabled' \in BOOLEAN /\ unsure' \in BOOLEAN /\ OkOnlyWhenConsistent'
  <2> DEFINE tables == modified'
  <2>1. tables \in [Filters -> Tables] /\ setRangeReady(tables) /\ modified' = tables BY <1>2
  <2> HIDE DEF tables
  <2> QED BY <2>1, ReadyIs
<1>7. DialogTyped' BY <1>2, <1>3, <1>5 DEF DialogTyped
<1> QED BY <1>1, <1>3, <1>5, <1>6, <1>7, DialogStep DEF Shown

\* Nothing put in the place of what is there is nothing changed.
LEMMA EditedSame ==
    ASSUME IInv, isOpen
    PROVE  Edited(currentRange) = modified
BY InDialog DEF Edited

LEMMA RemoveRangeStep == ASSUME IInv, RemoveRange PROVE IInv'
<1>1. /\ isOpen
      /\ generateRangeEntries(modified'[PlotFilter], incompleteRanges')
      /\ generatePlotRegions(modified'[PlotFilter])
      /\ setRangeReady(modified')
      /\ UNCHANGED <<outside, isOpen, selected, ionRows, incompleteIons>>
  BY DEF RemoveRange
<1>2. /\ PlotFilter \in Filters /\ currentRange = modified[PlotFilter]
      /\ DialogTyped /\ Shown
      /\ currentRange \in Tables /\ ~currentRange.enforceConsistency
  BY <1>1, InDialog
<1>3. incompleteRanges \in Seq(PendingRanges) BY <1>2 DEF DialogTyped
<1>4. \E t \in Tables :
         /\ ~t.enforceConsistency /\ modified' = Edited(t) /\ t.ions = currentRange.ions
         /\ incompleteRanges' \in Seq(PendingRanges) /\ EditsHitWhatIsShown'
  <2>1. CASE \E row \in DOMAIN rangeRows.shown :
                /\ currentRange.ranges # <<>>
                /\ hit' = RangeHit(row)
                /\ modified' = Edited(eraseRange(currentRange,
                       IF InTable(RangeOfRow(row)) THEN RangeOfRow(row)
                       ELSE Len(currentRange.ranges)))
                /\ UNCHANGED incompleteRanges
    <3>1. PICK row \in DOMAIN rangeRows.shown :
                /\ currentRange.ranges # <<>>
                /\ hit' = RangeHit(row)
                /\ modified' = Edited(eraseRange(currentRange,
                       IF InTable(RangeOfRow(row)) THEN RangeOfRow(row)
                       ELSE Len(currentRange.ranges)))
                /\ incompleteRanges' = incompleteRanges
      BY <2>1
    <3> DEFINE n == IF InTable(RangeOfRow(row)) THEN RangeOfRow(row)
                    ELSE Len(currentRange.ranges)
               t == eraseRange(currentRange, n)
    <3>2. n \in DOMAIN currentRange.ranges
      <4>1. currentRange.ranges \in Seq(Ranges) BY <1>2, TableIs
      <4>2. Len(currentRange.ranges) \in DOMAIN currentRange.ranges BY <3>1, <4>1
      <4> QED BY <4>2 DEF InTable
    <3>3. EditsHitWhatIsShown' BY <1>1, <3>1, RangeRowHit
    <3>4. modified' = Edited(t) BY <3>1
    <3> HIDE DEF n
    <3>5. t \in Tables /\ ~t.enforceConsistency /\ t.ions = currentRange.ions
      BY <1>2, <3>2, EraseRangeIs
    <3> QED BY <1>3, <3>1, <3>3, <3>4, <3>5
  <2>2. CASE /\ \E k \in DOMAIN incompleteRanges : incompleteRanges' = SwapPop(incompleteRanges, k)
             /\ hit' = NoHit /\ UNCHANGED modified
    <3>1. incompleteRanges' \in Seq(PendingRanges) BY <1>3, <2>2, SwapPopIs
    <3>2. modified' = Edited(currentRange) BY <1>1, <2>2, EditedSame
    <3> QED BY <1>2, <2>2, <3>1, <3>2, NoHitHits
  <2> QED BY <2>1, <2>2 DEF RemoveRange
<1>5. PICK t \in Tables :
         /\ ~t.enforceConsistency /\ modified' = Edited(t) /\ t.ions = currentRange.ions
         /\ incompleteRanges' \in Seq(PendingRanges) /\ EditsHitWhatIsShown'
  BY <1>4
<1>6. /\ modified'[PlotFilter] = t
      /\ \A f \in Filters \ {PlotFilter} : modified'[f] = modified[f]
  BY <1>1, <1>5, EditedIs
<1>7. IonsShown'
  <2>1. \A f \in Filters : modified'[f].ions = modified[f].ions BY <1>2, <1>5, <1>6
  <2> QED BY <2>1, <1>1, IonGridLeft
<1>8. /\ ionRows' \in [of : Filters \cup {"mixed"}, shown : Seq(AllNames), pending : Nat]
      /\ incompleteIons' \in Seq(PendingIons) /\ Len(incompleteIons') = ionRows'.pending
  BY <1>1, <1>2 DEF DialogTyped
<1> DEFINE pending == incompleteRanges'
<1>9. /\ pending \in Seq(PendingRanges) /\ incompleteRanges' = pending
      /\ generateRangeEntries(t, pending) /\ generatePlotRegions(t)
  BY <1>1, <1>5, <1>6
<1> HIDE DEF pending
<1> QED BY <1>1, <1>5, <1>7, <1>8, <1>9, Redrawn

LEMMA RemoveIonStep == ASSUME IInv, RemoveIon PROVE IInv'
<1>1. /\ isOpen
      /\ generateIonEntries(modified'[PlotFilter], incompleteIons')
      /\ generateRangeEntries(modified'[PlotFilter], incompleteRanges)
      /\ generatePlotRegions(modified'[PlotFilter])
      /\ setRangeReady(modified')
      /\ UNCHANGED <<outside, isOpen, selected, incompleteRanges>>
  BY DEF RemoveIon
<1>2. /\ PlotFilter \in Filters /\ currentRange = modified[PlotFilter] /\ DialogTyped
      /\ currentRange \in Tables /\ ~currentRange.enforceConsistency
  BY <1>1, InDialog
<1>3. incompleteRanges \in Seq(PendingRanges) /\ incompleteIons \in Seq(PendingIons)
  BY <1>2 DEF DialogTyped
<1>4. \E t \in Tables :
         /\ ~t.enforceConsistency /\ modified' = Edited(t)
         /\ incompleteIons' \in Seq(PendingIons) /\ EditsHitWhatIsShown'
  <2>1. CASE \E row \in DOMAIN ionRows.shown :
                /\ IonRow(row)
                /\ hit' = IonHit(row)
                /\ modified' = Edited(eraseIon(currentRange, row))
                /\ UNCHANGED incompleteIons
    <3>1. PICK row \in DOMAIN ionRows.shown :
                /\ IonRow(row)
                /\ hit' = IonHit(row)
                /\ modified' = Edited(eraseIon(currentRange, row))
                /\ incompleteIons' = incompleteIons
      BY <2>1
    <3>2. row \in DOMAIN currentRange.ions /\ EditsHitWhatIsShown'
      BY <1>1, <3>1, IonRowHit
    <3>3. row \in Int BY <1>2, <3>2, TableIs
    <3> DEFINE t == eraseIon(currentRange, row)
    <3>4. t \in Tables /\ ~t.enforceConsistency BY <1>2, <3>3, EraseIonIs
    <3> QED BY <1>3, <3>1, <3>2, <3>4
  <2>2. CASE /\ \E k \in DOMAIN incompleteIons : incompleteIons' = SwapPop(incompleteIons, k)
             /\ hit' = NoHit /\ UNCHANGED modified
    <3>1. incompleteIons' \in Seq(PendingIons) BY <1>3, <2>2, SwapPopIs
    <3>2. modified' = Edited(currentRange) BY <1>1, <2>2, EditedSame
    <3> QED BY <1>2, <2>2, <3>1, <3>2, NoHitHits
  <2> QED BY <2>1, <2>2 DEF RemoveIon
<1>5. PICK t \in Tables :
         /\ ~t.enforceConsistency /\ modified' = Edited(t)
         /\ incompleteIons' \in Seq(PendingIons) /\ EditsHitWhatIsShown'
  BY <1>4
<1>6. modified'[PlotFilter] = t BY <1>1, <1>5, EditedIs
<1>7. /\ ionRows' \in [of : Filters \cup {"mixed"}, shown : Seq(AllNames), pending : Nat]
      /\ Len(incompleteIons') = ionRows'.pending /\ IonsShown'
  <2> DEFINE pending == incompleteIons'
  <2>1. pending \in Seq(PendingIons) /\ generateIonEntries(t, pending) /\ isOpen' = isOpen
    BY <1>1, <1>5, <1>6
  <2> HIDE DEF pending
  <2> QED BY <2>1, <1>1, <1>6, IonGridFilled DEF pending
<1>8. /\ incompleteRanges' = incompleteRanges
      /\ generateRangeEntries(t, incompleteRanges) /\ generatePlotRegions(t)
  BY <1>1, <1>6
<1> QED BY <1>1, <1>3, <1>5, <1>7, <1>8, Redrawn

LEMMA DraggedIs ==
    ASSUME NEW r \in Ranges, NEW edge \in 1..3, NEW mass \in Masses
    PROVE  Dragged(r, edge, mass) \in Ranges
<1>1. mass \in Int BY BoundsAssumption
<1>2. PICK a \in Int, b \in Int : r = <<a, b>> BY DEF Ranges
<1>3. r[1] = a /\ r[2] = b BY <1>2
<1>4. CASE edge = 3
  <2> DEFINE delta == (b - a) \div 2
  <2>1. delta \in Int BY <1>2
  <2> HIDE DEF delta
  <2>2. mass - delta \in Int /\ mass + delta \in Int BY <1>1, <2>1
  <2>3. Dragged(r, edge, mass) = <<mass - delta, mass + delta>>
    BY <1>3, <1>4 DEF Dragged, delta
  <2> QED BY <2>2, <2>3 DEF Ranges
<1>5. CASE edge # 3
  <2> DEFINE new == [r EXCEPT ![edge] = mass]
  <2>1. edge \in {1, 2} BY <1>5
  <2>2. new \in Ranges BY <2>1, <1>1, LimitSet
  <2>3. Dragged(r, edge, mass) = Sorted(new) BY <1>5 DEF Dragged
  <2> HIDE DEF new
  <2>4. Sorted(new) = new \/ Sorted(new) = <<new[2], new[1]>> BY DEF Sorted
  <2>5. <<new[2], new[1]>> \in Ranges BY <2>2 DEF Ranges
  <2> QED BY <2>2, <2>3, <2>4, <2>5
<1> QED BY <1>4, <1>5

\* The same change of two sequences of which one begins the other.
LEMMA BeginsChanged ==
    ASSUME NEW T, NEW a \in Seq(T), NEW b \in Seq(T), Begins(a, b),
           NEW n \in DOMAIN a, n \in DOMAIN b, NEW x \in T
    PROVE  Begins([a EXCEPT ![n] = x], [b EXCEPT ![n] = x])
<1> DEFINE c == [a EXCEPT ![n] = x]
           d == [b EXCEPT ![n] = x]
<1>1. /\ Len(c) = Len(a) /\ DOMAIN c = DOMAIN a /\ Len(d) = Len(b)
  BY ElementSet
<1>2. DOMAIN a \subseteq DOMAIN b BY DEF Begins
<1>3. \A i \in DOMAIN a : c[i] = IF i = n THEN x ELSE a[i] OBVIOUS
<1>4. \A i \in DOMAIN a : d[i] = IF i = n THEN x ELSE b[i] BY <1>2
<1>5. \A i \in DOMAIN a : c[i] = d[i] BY <1>3, <1>4 DEF Begins
<1> HIDE DEF c, d
<1>6. Len(c) <= Len(d) BY <1>1 DEF Begins
<1>7. Begins(c, d) BY <1>1, <1>5, <1>6 DEF Begins
<1> QED BY <1>7 DEF c, d

LEMMA PlotUpdateStep == ASSUME IInv, onPlotUpdate PROVE IInv'
<1>1. /\ isOpen
      /\ UNCHANGED <<outside, isOpen, selected, incompleteRanges, incompleteIons>>
  BY DEF onPlotUpdate
<1>2. /\ selected \in DOMAIN Plots /\ PlotFilter \in Filters /\ currentRange = modified[PlotFilter]
      /\ modified \in [Filters -> Tables] /\ DialogTyped /\ Shown /\ isOpen = TRUE
      /\ currentRange \in Tables /\ ~currentRange.enforceConsistency
      /\ \A f \in Filters : modified[f] \in Tables
  BY <1>1, InDialog
<1>3. /\ incompleteRanges \in Seq(PendingRanges) /\ incompleteIons \in Seq(PendingIons)
      /\ regions \in [DOMAIN Plots -> [shown : Seq(Ranges), emptied : BOOLEAN]]
  BY <1>2 DEF DialogTyped
<1> DEFINE Drag(n, edge, mass) ==
          LET r == currentRange.ranges[n]
              shown == regions[selected].shown[n]
              empty == edge # 3 /\ mass = r[3 - edge]
              t == IF empty THEN currentRange
                   ELSE [currentRange EXCEPT !.ranges[n] = Dragged(r, edge, mass)]
          IN  /\ Draggable(r, edge) /\ Draggable(shown, edge)
              /\ hit' = [shown |-> shown, was |-> r, past |-> FALSE,
                         known |-> \/ regions[selected].emptied
                                   \/ \E p \in DOMAIN Plots \ {selected} : Plots[p] = PlotFilter]
              /\ modified' = Edited(t)
              /\ regions' = [regions EXCEPT
                     ![selected].shown[n] = Dragged(shown, edge, mass),
                     ![selected].emptied = @ \/ empty]
              /\ generateRangeEntries(t, incompleteRanges)
              /\ generateIonEntries(t, incompleteIons)
              /\ setRangeReady(Edited(t))
<1>4. PICK n \in DOMAIN regions[selected].shown \cap DOMAIN currentRange.ranges :
         \E edge \in 1..3, mass \in Masses : Drag(n, edge, mass)
  BY DEF onPlotUpdate
<1>5. PICK edge \in 1..3, mass \in Masses : Drag(n, edge, mass) BY <1>4
<1> DEFINE was == regions[selected].shown
           ranges == currentRange.ranges
           empty == edge # 3 /\ mass = ranges[n][3 - edge]
           t == IF empty THEN currentRange
                ELSE [currentRange EXCEPT !.ranges[n] = Dragged(ranges[n], edge, mass)]
           new == [was EXCEPT ![n] = Dragged(was[n], edge, mass)]
           isEmptied == regions[selected].emptied \/ empty
<1>6. /\ hit' = [shown |-> was[n], was |-> ranges[n], past |-> FALSE,
                 known |-> \/ regions[selected].emptied
                           \/ \E p \in DOMAIN Plots \ {selected} : Plots[p] = PlotFilter]
      /\ modified' = Edited(t)
      /\ regions' = [regions EXCEPT ![selected].shown[n] = Dragged(was[n], edge, mass),
                                    ![selected].emptied = @ \/ empty]
      /\ generateRangeEntries(t, incompleteRanges)
      /\ generateIonEntries(t, incompleteIons)
      /\ setRangeReady(Edited(t))
  BY <1>5
<1>7. /\ regions' = [regions EXCEPT ![selected] = [@ EXCEPT !.shown = new, !.emptied = isEmptied]]
  BY <1>6
<1>8. /\ was \in Seq(Ranges) /\ ranges \in Seq(Ranges) /\ n \in DOMAIN was /\ n \in DOMAIN ranges
      /\ was[n] \in Ranges /\ ranges[n] \in Ranges
      /\ Dragged(was[n], edge, mass) \in Ranges /\ Dragged(ranges[n], edge, mass) \in Ranges
  <2>1. was \in Seq(Ranges) /\ n \in DOMAIN was BY <1>2, <1>3, <1>4
  <2>2. ranges \in Seq(Ranges) /\ n \in DOMAIN ranges BY <1>2, <1>4, TableIs
  <2> HIDE DEF was, ranges
  <2>3. was[n] \in Ranges /\ ranges[n] \in Ranges BY <2>1, <2>2
  <2> QED BY <2>1, <2>2, <2>3, DraggedIs
<1>9. isEmptied \in BOOLEAN /\ new \in Seq(Ranges)
  <2>1. regions[selected].emptied \in BOOLEAN BY <1>2, <1>3
  <2>2. new \in Seq(Ranges)
    <3> HIDE DEF was
    <3> QED BY <1>8, ElementSet
  <2> QED BY <2>1, <2>2
<1>10. /\ t \in Tables /\ ~t.enforceConsistency
       /\ ~empty => t.ranges = [ranges EXCEPT ![n] = Dragged(ranges[n], edge, mass)]
  <2> DEFINE r == Dragged(ranges[n], edge, mass)
             moved == [currentRange EXCEPT !.ranges[n] = r]
  <2>1. r \in Ranges /\ n \in DOMAIN currentRange.ranges BY <1>8
  <2>2. moved \in Tables /\ moved.ranges = [currentRange.ranges EXCEPT ![n] = r]
        /\ moved.enforceConsistency = currentRange.enforceConsistency
    <3> HIDE DEF r
    <3> QED BY <2>1, <1>2, RangeSet
  <2>3. t = IF empty THEN currentRange ELSE moved OBVIOUS
  <2> HIDE DEF empty, moved, r, t
  <2> QED BY <2>2, <2>3, <1>2 DEF r
\* What the region and the range were, where nothing else can have come between.
<1>11. ASSUME Sole(selected), ~regions[selected].emptied
       PROVE  Begins(was, ranges) /\ was[n] = ranges[n]
  <2>1. Begins(was, ranges) BY <1>2, <1>11 DEF Shown, RegionsShown, PlotFilter
  <2> HIDE DEF was, ranges
  <2> QED BY <2>1, <1>8 DEF Begins
<1>12. EditsHitWhatIsShown'
  <2>1. CASE hit'.known BY <2>1 DEF EditsHitWhatIsShown
  <2>2. CASE ~hit'.known
    <3>1. /\ ~regions[selected].emptied
          /\ ~\E p \in DOMAIN Plots \ {selected} : Plots[p] = PlotFilter
      BY <1>6, <2>2
    <3>2. Sole(selected) BY <3>1 DEF Sole, PlotFilter
    <3>3. was[n] = ranges[n] BY <3>1, <3>2, <1>11
    <3>4. hit'.shown = was[n] /\ hit'.was = ranges[n] /\ ~hit'.past BY <1>6
    <3> QED BY <3>3, <3>4 DEF EditsHitWhatIsShown
  <2> QED BY <2>1, <2>2
<1>13. /\ modified' \in [Filters -> Tables]
       /\ \A f \in Filters : ~modified'[f].enforceConsistency
       /\ modified'[PlotFilter] = t
       /\ \A f \in Filters \ {PlotFilter} : modified'[f] = modified[f]
  <2> HIDE DEF t
  <2> QED BY <1>1, <1>6, <1>10, EditedIs
<1>14. regions' \in [DOMAIN Plots -> [shown : Seq(Ranges), emptied : BOOLEAN]]
       /\ regions'[selected].shown = new /\ (regions'[selected].emptied <=> isEmptied)
       /\ \A p \in DOMAIN Plots \ {selected} : regions'[p] = regions[p]
  <2> HIDE DEF new, isEmptied
  <2>1. regions[selected] \in [shown : Seq(Ranges), emptied : BOOLEAN] BY <1>2, <1>3
  <2> DEFINE one == [regions[selected] EXCEPT !.shown = new, !.emptied = isEmptied]
  <2>2. one \in [shown : Seq(Ranges), emptied : BOOLEAN] /\ one.shown = new
        /\ one.emptied = isEmptied
    BY <2>1, <1>9
  <2>3. regions' = [regions EXCEPT ![selected] = one] BY <1>7
  <2> HIDE DEF one
  <2> QED BY <2>2, <2>3, <1>2, <1>3
<1>15. RegionsShown'
  <2> SUFFICES ASSUME NEW p \in DOMAIN Plots, Sole(p), ~regions'[p].emptied
               PROVE  Begins(regions'[p].shown, modified'[Plots[p]].ranges)
    BY DEF RegionsShown, Sole
  <2>1. CASE p = selected
    <3>1. ~regions[selected].emptied /\ ~empty BY <2>1, <1>14
    <3>2. Begins(was, ranges) /\ was[n] = ranges[n] BY <2>1, <3>1, <1>11
    <3>3. t.ranges = [ranges EXCEPT ![n] = Dragged(was[n], edge, mass)] BY <3>1, <3>2, <1>10
    <3>4. Plots[p] = PlotFilter BY <2>1 DEF PlotFilter
    <3> HIDE DEF was, ranges, t, isEmptied, empty
    <3>5. Begins(new, t.ranges) BY <3>2, <3>3, <1>8, BeginsChanged
    <3> HIDE DEF new
    <3> QED BY <2>1, <3>4, <3>5, <1>13, <1>14
  <2>2. CASE p # selected
    <3>1. Plots[p] \in Filters /\ Plots[p] # PlotFilter
      BY <2>2, <1>2, PlotsAssumption DEF Sole, PlotFilter
    <3>2. regions'[p] = regions[p] BY <2>2, <1>14
    <3>3. modified'[Plots[p]] = modified[Plots[p]] BY <3>1, <1>13
    <3>4. Begins(regions[p].shown, modified[Plots[p]].ranges)
      BY <3>2, <1>2 DEF Shown, RegionsShown
    <3> QED BY <3>2, <3>3, <3>4
  <2> QED BY <2>1, <2>2
<1> HIDE DEF t, new, was, ranges, empty, isEmptied
<1>16. isOpen' = isOpen /\ generateRangeEntries(t, incompleteRanges)
       /\ generateIonEntries(t, incompleteIons)
  BY <1>1, <1>6
<1>17. /\ rangeRows' \in [of : Filters \cup {"mixed"}, shown : Seq(Ranges), pending : Nat]
       /\ Len(incompleteRanges) = rangeRows'.pending
       /\ RangesShown'
  BY <1>1, <1>3, <1>10, <1>13, <1>16, RangeGridFilled
<1>18. /\ ionRows' \in [of : Filters \cup {"mixed"}, shown : Seq(AllNames), pending : Nat]
       /\ Len(incompleteIons) = ionRows'.pending
       /\ IonsShown'
  BY <1>1, <1>3, <1>10, <1>13, <1>16, IonGridFilled
<1>19. okEnabled' \in BOOLEAN /\ unsure' \in BOOLEAN /\ OkOnlyWhenConsistent'
  <2>1. Edited(t) \in [Filters -> Tables] BY <1>6, <1>13
  <2> QED BY <2>1, <1>6, ReadyIs
<1>20. DialogTyped' BY <1>1, <1>3, <1>13, <1>14, <1>17, <1>18 DEF DialogTyped
<1>21. selected' \in DOMAIN Plots BY <1>1, <1>2
<1> QED BY <1>1, <1>12, <1>15, <1>17, <1>18, <1>19, <1>20, <1>21, DialogStep DEF Shown

-----------------------------------------------------------------------------
(* The invariant holds, and what follows from it.                          *)

LEMMA NextStep == ASSUME IInv, [Next]_vars PROVE IInv'
<1>1. CASE updateRng \/ MoveRange \/ DragRange \/ SetRangeIon \/ SetIonName \/ SetIonColour
  BY <1>1, OutsideStep
<1>2. CASE OnEditRange BY <1>2, OpenStep
<1>3. CASE OnListPlots BY <1>3, ListStep
<1>4. CASE OnGridRangesCellChange BY <1>4, RangeCellStep
<1>5. CASE EditIncompleteRange BY <1>5, PendingRangeStep
<1>6. CASE OnGridIonsCellChange BY <1>6, IonCellStep
<1>7. CASE EditIncompleteIon BY <1>7, PendingIonStep
<1>8. CASE OnBtnRangeIonAdd BY <1>8, AddStep
<1>9. CASE RemoveRange BY <1>9, RemoveRangeStep
<1>10. CASE RemoveIon BY <1>10, RemoveIonStep
<1>11. CASE onPlotUpdate BY <1>11, PlotUpdateStep
<1>12. CASE OnBtnOK \/ OnBtnCancel BY <1>12, CloseStep
<1>13. CASE UNCHANGED vars
  <2>1. /\ UNCHANGED <<rng, isOpen, modified, selected, rangeRows, ionRows, regions>>
        /\ UNCHANGED <<incompleteRanges, incompleteIons, okEnabled, hit, unsure, noted>>
    BY <1>13 DEF vars
  <2>2. TypeOK' BY <2>1 DEF IInv, TypeOK, DialogTyped
  <2>3. Checked' /\ SoundWhereNothingNoted'
    BY <2>1 DEF IInv, Checked, SoundWhereNothingNoted
  <2>4. Shown' BY <2>1 DEF IInv, Shown, RangesShown, IonsShown, RegionsShown, Sole
  <2>5. EditsHitWhatIsShown' /\ OkOnlyWhenConsistent'
    BY <2>1 DEF IInv, EditsHitWhatIsShown, OkOnlyWhenConsistent
  <2> QED BY <2>2, <2>3, <2>4, <2>5 DEF IInv
<1> QED BY <1>1, <1>2, <1>3, <1>4, <1>5, <1>6, <1>7, <1>8, <1>9, <1>10, <1>11, <1>12, <1>13
        DEF Next

LEMMA Invariant == Spec => []IInv
<1>1. Init => IInv BY InitOK
<1>2. IInv /\ [Next]_vars => IInv' BY NextStep
<1> QED BY <1>1, <1>2, PTL DEF Spec

\* A filter's ranges have a start below their end, no inner point in common and an
\* ion each, and its ions names of their own, however often it is read, dragged,
\* renamed, typed and edited in the dialog, unless its file was not so, a range was
\* given a number of no ion or an ion the name of another, or the dialog's OK
\* turned the checks off (APTRanges.cpp:2701, 2762, rangeFile.cpp:879, 934).
THEOREM RangesStaySound == Spec => []RangesSound
<1>1. IInv => RangesSound BY DEF IInv, RangesSound, SoundWhereNothingNoted
<1> QED BY <1>1, Invariant, PTL

\* An edit of a row and a drag in a plot change what the row and the plot show, for
\* any number of plots, unless another plot was chosen since the grid was filled,
\* another plot shows the same ranges, or an edge was dragged onto the other; and
\* for any number of incomplete rows, those they were entered over, and no others,
\* stand for places past the table (rangeEditDialog.cpp:727, 755, 792, 486).
THEOREM EditsHit == Spec => []EditsHitWhatIsShown
<1>1. IInv => EditsHitWhatIsShown BY DEF IInv
<1> QED BY <1>1, Invariant, PTL

\* OK is enabled for consistent copies only, unless nothing was changed yet or an
\* incomplete range or ion was put in since (rangeEditDialog.cpp:809, 1054, 1196).
THEOREM OkNeedsConsistency == Spec => []OkOnlyWhenConsistent
<1>1. IInv => OkOnlyWhenConsistent BY DEF IInv
<1> QED BY <1>1, Invariant, PTL

=============================================================================
