--------------------------- MODULE PlotPane_proofs ---------------------------
(***************************************************************************)
(* That the list, the pane and the grid agree, and what becomes of a       *)
(* region that is held, for any filters, plots, tables and positions of    *)
(* the mouse. First the operators on plots and tables; then the invariant, *)
(* and every step that keeps it.                                           *)
(***************************************************************************)
EXTENDS PlotPane, Containers

-----------------------------------------------------------------------------
(* Least and greatest numbers.                                             *)

\* A set of numbers that are not below some number has a least one.
LEMMA Least ==
    ASSUME NEW S \in SUBSET Int, NEW b \in Int, \A n \in S : b <= n, S # {}
    PROVE  Min(S) \in S /\ \A n \in S : Min(S) <= n
<1> DEFINE N == {k \in Nat : k + b \in S}
<1>1. \A n \in S : n - b \in Nat /\ (n - b) + b = n
  <2> SUFFICES ASSUME NEW n \in S PROVE n - b \in Nat /\ (n - b) + b = n OBVIOUS
  <2>1. n \in Int /\ b <= n OBVIOUS
  <2> QED BY <2>1
<1>2. \A n \in S : n - b \in N BY <1>1
<1>3. N \in SUBSET Nat /\ N # {} BY <1>2
<1>4. PICK m \in N : \A n \in N : <<n, m>> \notin OpToRel(<, Nat)
  <2> HIDE DEF N
  <2> QED BY <1>3, WFMin, NatLessThanWellFounded, Zenon
<1>5. \A n \in N : ~(n < m)
  <2> HIDE DEF N
  <2> QED BY <1>3, <1>4, Zenon DEF OpToRel
<1>6. m + b \in S /\ m \in Nat OBVIOUS
<1>7. ASSUME NEW n \in S PROVE m + b <= n
  <2>1. ~(n - b < m) BY <1>2, <1>5
  <2>2. n \in Int OBVIOUS
  <2> QED BY <2>1, <2>2, <1>6
<1>8. \E x \in S : \A y \in S : x <= y BY <1>6, <1>7
<1> QED BY <1>8 DEF Min

LEMMA Greatest ==
    ASSUME NEW S \in SUBSET Int, NEW b \in Int, \A n \in S : n <= b, S # {}
    PROVE  Max(S) \in S /\ \A n \in S : n <= Max(S)
<1> DEFINE N == {k \in Int : -k \in S}
<1>1. \A n \in S : -n \in Int /\ -(-n) = n OBVIOUS
<1>2. \A n \in S : -n \in N BY <1>1
<1>3. N \in SUBSET Int /\ N # {} BY <1>2
<1>4. \A k \in N : -b <= k
  <2> SUFFICES ASSUME NEW k \in N PROVE -b <= k OBVIOUS
  <2>1. k \in Int /\ -k <= b OBVIOUS
  <2> QED BY <2>1
<1> HIDE DEF N
<1>5. -b \in Int OBVIOUS
<1>6. Min(N) \in N /\ \A n \in N : Min(N) <= n BY <1>3, <1>4, <1>5, Least
<1> DEFINE m == Min(N)
<1>7. m \in Int /\ -m \in S BY <1>6 DEF N
<1> HIDE DEF m
<1>8. ASSUME NEW n \in S PROVE -m >= n
  <2>1. m <= -n BY <1>2, <1>6 DEF m
  <2>2. n \in Int OBVIOUS
  <2> QED BY <2>1, <2>2, <1>7
<1>9. \E x \in S : \A y \in S : x >= y BY <1>7, <1>8
<1>10. Max(S) \in S /\ \A n \in S : Max(S) >= n BY <1>9 DEF Max
<1>11. \A n \in S : n \in Int OBVIOUS
<1> QED BY <1>10, <1>11

\* Where nothing in between is in the way, a move goes all the way.
LEMMA NothingBelow ==
    ASSUME NEW x \in Int, NEW S \in SUBSET Int, \A n \in S : n <= x
    PROVE  Max({x} \cup S) = x
<1> DEFINE T == {x} \cup S
<1>1. x \in T /\ \A y \in T : y \in Int /\ x >= y OBVIOUS
<1> HIDE DEF T
<1>2. Max(T) \in T /\ \A y \in T : Max(T) >= y BY <1>1 DEF Max
<1>3. Max(T) \in Int /\ x >= Max(T) /\ Max(T) >= x BY <1>1, <1>2
<1>4. Max(T) = x BY <1>3
<1> QED BY <1>4 DEF T

LEMMA NothingAbove ==
    ASSUME NEW x \in Int, NEW S \in SUBSET Int, \A n \in S : x <= n
    PROVE  Min({x} \cup S) = x
<1> DEFINE T == {x} \cup S
<1>1. x \in T /\ \A y \in T : y \in Int /\ x <= y OBVIOUS
<1> HIDE DEF T
<1>2. Min(T) \in T /\ \A y \in T : Min(T) <= y BY <1>1 DEF Min
<1>3. Min(T) \in Int /\ x <= Min(T) /\ Min(T) <= x BY <1>1, <1>2
<1>4. Min(T) = x BY <1>3
<1> QED BY <1>4 DEF T

LEMMA OfTwo ==
    ASSUME NEW a \in Int, NEW b \in Int
    PROVE  /\ Min({a, b}) = IF a <= b THEN a ELSE b
           /\ Max({a, b}) = IF a <= b THEN b ELSE a
<1>1. {a, b} = {a} \cup {b} /\ {a, b} = {b} \cup {a} OBVIOUS
<1>2. CASE a <= b
  <2>1. Min({a} \cup {b}) = a BY <1>2, NothingAbove
  <2>2. Max({b} \cup {a}) = b BY <1>2, NothingBelow
  <2> QED BY <2>1, <2>2, <1>1, <1>2
<1>3. CASE ~(a <= b)
  <2>1. Min({b} \cup {a}) = b BY <1>3, NothingAbove
  <2>2. Max({a} \cup {b}) = a BY <1>3, NothingBelow
  <2> QED BY <2>1, <2>2, <1>1, <1>3
<1> QED BY <1>2, <1>3

-----------------------------------------------------------------------------
(* What a move of a region does to the table.                              *)

LEMMA RangePut ==
    ASSUME NEW t \in TableType, NEW n \in DOMAIN t.ranges, NEW r \in Interval
    PROVE  /\ [t EXCEPT !.ranges[n] = r] \in TableType
           /\ [t EXCEPT !.ranges[n] = r].ranges = [t.ranges EXCEPT ![n] = r]
           /\ [t EXCEPT !.ranges[n] = r].ions = t.ions
           /\ [t EXCEPT !.ranges[n] = r].ids = t.ids
           /\ [t EXCEPT !.ranges[n] = r].enforceConsistency = t.enforceConsistency
           /\ DOMAIN [t.ranges EXCEPT ![n] = r] = DOMAIN t.ranges
           /\ Len([t.ranges EXCEPT ![n] = r]) = Len(t.ranges)
           /\ \A i \in DOMAIN t.ranges :
                 [t.ranges EXCEPT ![n] = r][i] = IF i = n THEN r ELSE t.ranges[i]
<1> DEFINE new == [t.ranges EXCEPT ![n] = r]
<1>1. t.ranges \in Seq(Interval) BY DEF TableType
<1>2. /\ new \in Seq(Interval) /\ Len(new) = Len(t.ranges) /\ DOMAIN new = DOMAIN t.ranges
      /\ \A i \in DOMAIN t.ranges : new[i] = IF i = n THEN r ELSE t.ranges[i]
  BY <1>1
<1>3. [t EXCEPT !.ranges[n] = r] = [t EXCEPT !.ranges = new] OBVIOUS
<1> HIDE DEF new
<1>4. /\ [t EXCEPT !.ranges = new] \in TableType /\ [t EXCEPT !.ranges = new].ranges = new
      /\ [t EXCEPT !.ranges = new].ions = t.ions /\ [t EXCEPT !.ranges = new].ids = t.ids
      /\ [t EXCEPT !.ranges = new].enforceConsistency = t.enforceConsistency
  BY <1>2 DEF TableType
<1> QED BY <1>2, <1>3, <1>4 DEF new

LEMMA LimitPut ==
    ASSUME NEW r \in Interval, NEW m \in Int
    PROVE  /\ [r EXCEPT ![1] = m] = <<m, r[2]>>
           /\ [r EXCEPT ![2] = m] = <<r[1], m>>
<1>1. PICK a \in Int, b \in Int : r = <<a, b>> BY DEF Interval
<1>2. [<<a, b>> EXCEPT ![1] = m] = <<m, b>> /\ [<<a, b>> EXCEPT ![2] = m] = <<a, m>> OBVIOUS
<1> QED BY <1>1, <1>2

\* A range of a sound table can be put anywhere where it meets no other.
LEMMA PutBetween ==
    ASSUME NEW t \in TableType, Sound(t), NEW n \in DOMAIN t.ranges,
           NEW r \in Interval, r[1] < r[2],
           \A i \in DOMAIN t.ranges \ {n} : Apart(r, t.ranges[i])
    PROVE  Sound([t EXCEPT !.ranges[n] = r])
<1> DEFINE u == [t EXCEPT !.ranges[n] = r]
<1>1. /\ u.ions = t.ions /\ u.ids = t.ids /\ DOMAIN u.ranges = DOMAIN t.ranges
      /\ Len(u.ranges) = Len(t.ranges)
      /\ \A i \in DOMAIN t.ranges : u.ranges[i] = IF i = n THEN r ELSE t.ranges[i]
  BY RangePut
<1> HIDE DEF u
<1>2. \A i \in DOMAIN u.ranges : u.ranges[i][1] < u.ranges[i][2] BY <1>1 DEF Sound
<1>3. ASSUME NEW i \in DOMAIN u.ranges, NEW j \in DOMAIN u.ranges, i # j
      PROVE  Apart(u.ranges[i], u.ranges[j])
  <2>1. \A k \in DOMAIN t.ranges \ {n} : Apart(r, t.ranges[k]) /\ Apart(t.ranges[k], r)
    BY DEF Apart
  <2>2. i # n /\ j # n => Apart(t.ranges[i], t.ranges[j]) BY <1>1, <1>3 DEF Sound
  <2> QED BY <1>1, <1>3, <2>1, <2>2
<1>4. Sound(u) BY <1>1, <1>2, <1>3 DEF Sound
<1> QED BY <1>4 DEF u

LEMMA MovesAre == ToSet(Moves) = {"EXTEND_XMINUS", "TRANSLATE_X", "EXTEND_XPLUS"}
BY DEF ToSet, Moves

\* r is where the range n is to go; what is on one side of it stays there.
GoesTo(t, n, r) ==
    /\ r \in Interval /\ r[1] < r[2]
    /\ \A i \in DOMAIN t.ranges \ {n} :
          /\ t.ranges[n][2] <= t.ranges[i][1] => r[2] <= t.ranges[i][1]
          /\ t.ranges[i][2] <= t.ranges[n][1] => t.ranges[i][2] <= r[1]

LEMMA GoesToSound ==
    ASSUME NEW t \in TableType, Sound(t), NEW n \in DOMAIN t.ranges, NEW r, GoesTo(t, n, r)
    PROVE  Sound([t EXCEPT !.ranges[n] = r])
<1>1. ASSUME NEW i \in DOMAIN t.ranges \ {n} PROVE Apart(r, t.ranges[i])
  <2>1. Apart(t.ranges[n], t.ranges[i]) BY DEF Sound
  <2> QED BY <2>1 DEF Apart, GoesTo
<1> QED BY <1>1, PutBetween DEF GoesTo

\* Where a move of the region goes that is over a range: as the mouse says.
MovedTo(me, move, x, r) ==
    CASE move = "EXTEND_XMINUS" -> r[1] = x /\ r[2] = me[2]
      [] move = "TRANSLATE_X" -> r[1] + r[2] = 2 * x
      [] move = "EXTEND_XPLUS" -> r[1] = me[1] /\ r[2] = x

\* The tests of moveRange and moveBothRanges keep a range where it is between the
\* others, of which it meets none.
LEMMA Between ==
    ASSUME NEW a \in Int, NEW b \in Int, a < b, NEW low \in Int, NEW high \in Int, low < high,
           NEW c \in Int, NEW d \in Int, c < d,
           high = b \/ (~(a < c /\ high > c) /\ ~(a < d /\ high > d)),
           low = a \/ (~(b > c /\ low < c) /\ ~(b > d /\ low < d))
    PROVE  (b <= c => high <= c) /\ (d <= a => d <= low)
OBVIOUS

LEMMA RegionMoves ==
    ASSUME NEW t \in TableType, NEW n \in DOMAIN t.ranges, NEW move \in ToSet(Moves), NEW x \in Int,
           setPropFromRegion(t, n, move, x) # t
    PROVE  \E r \in Interval :
              /\ setPropFromRegion(t, n, move, x) = [t EXCEPT !.ranges[n] = r]
              /\ Sound(t) /\ t.enforceConsistency =>
                    GoesTo(t, n, r) /\ MovedTo(t.ranges[n], move, x, r)
<1> DEFINE me == t.ranges[n]
           u == setPropFromRegion(t, n, move, x)
           half == (me[2] - me[1] + 1) \div 2
           others == {t.ranges[i] : i \in DOMAIN t.ranges \ {n}}
           above(a, to) == \A o \in others : \A limit \in 1..2 : ~(a < o[limit] /\ to > o[limit])
           below(b, to) == \A o \in others : \A limit \in 1..2 : ~(b > o[limit] /\ to < o[limit])
           Fits(r) == /\ r[1] < r[2]
                      /\ r[2] = me[2] \/ above(me[1], r[2])
                      /\ r[1] = me[1] \/ below(me[2], r[1])
<1>1. me \in Interval /\ me[1] \in Int /\ me[2] \in Int BY DEF TableType, Interval
<1>2. half \in Int BY <1>1
<1>3. Sound(t) => me[1] < me[2] BY DEF Sound
\* What the tests of any move have in common.
<1>4. ASSUME NEW r \in Interval, Sound(t), Fits(r) PROVE GoesTo(t, n, r)
  <2>1. r[1] \in Int /\ r[2] \in Int BY DEF Interval
  <2>2. ASSUME NEW i \in DOMAIN t.ranges \ {n}
        PROVE  /\ me[2] <= t.ranges[i][1] => r[2] <= t.ranges[i][1]
               /\ t.ranges[i][2] <= me[1] => t.ranges[i][2] <= r[1]
    <3> DEFINE o == t.ranges[i]
    <3>1. o \in others OBVIOUS
    <3>2. o[1] \in Int /\ o[2] \in Int BY DEF TableType, Interval
    <3>3. o[1] < o[2] BY <1>4 DEF Sound
    <3>4. 1 \in 1..2 /\ 2 \in 1..2 OBVIOUS
    <3>5. r[2] = me[2] \/ (~(me[1] < o[1] /\ r[2] > o[1]) /\ ~(me[1] < o[2] /\ r[2] > o[2]))
      BY <3>1, <3>4, <1>4
    <3>6. r[1] = me[1] \/ (~(me[2] > o[1] /\ r[1] < o[1]) /\ ~(me[2] > o[2] /\ r[1] < o[2]))
      BY <3>1, <3>4, <1>4
    <3> HIDE DEF o, me
    <3>7. (me[2] <= o[1] => r[2] <= o[1]) /\ (o[2] <= me[1] => o[2] <= r[1])
      BY <3>2, <3>3, <3>5, <3>6, <1>1, <1>3, <1>4, <2>1, Between
    <3> QED BY <3>7 DEF o
  <2> QED BY <2>2, <1>4 DEF GoesTo
<1>5. CASE move = "EXTEND_XMINUS"
  <2>1. u = moveRange(t, n, FALSE, x) BY <1>5 DEF setPropFromRegion
  <2>2. /\ u = [t EXCEPT !.ranges[n][1] = x]
        /\ t.enforceConsistency => x < me[2] /\ below(me[2], x)
    BY <2>1 DEF moveRange
  <2> DEFINE r == <<x, me[2]>>
  <2>3. u = [t EXCEPT !.ranges[n] = r]
    <3>1. [t EXCEPT !.ranges[n][1] = x] = [t EXCEPT !.ranges[n] = [me EXCEPT ![1] = x]]
      OBVIOUS
    <3> HIDE DEF u, me
    <3>2. [me EXCEPT ![1] = x] = r BY <1>1, LimitPut
    <3> QED BY <2>2, <3>1, <3>2
  <2>4. r \in Interval /\ r[1] = x /\ r[2] = me[2] BY <1>1 DEF Interval
  <2>5. t.enforceConsistency => Fits(r) BY <2>2, <2>4
  <2>6. MovedTo(me, move, x, r) BY <1>5, <2>4 DEF MovedTo
  <2> HIDE DEF r, Fits, me, u
  <2> QED BY <2>3, <2>4, <2>5, <2>6, <1>4 DEF u, me
<1>6. CASE move = "EXTEND_XPLUS"
  <2>1. u = moveRange(t, n, TRUE, x) BY <1>6 DEF setPropFromRegion
  <2>2. /\ u = [t EXCEPT !.ranges[n][2] = x]
        /\ t.enforceConsistency => x > me[1] /\ above(me[1], x)
    BY <2>1 DEF moveRange
  <2> DEFINE r == <<me[1], x>>
  <2>3. u = [t EXCEPT !.ranges[n] = r]
    <3>1. [t EXCEPT !.ranges[n][2] = x] = [t EXCEPT !.ranges[n] = [me EXCEPT ![2] = x]]
      OBVIOUS
    <3> HIDE DEF u, me
    <3>2. [me EXCEPT ![2] = x] = r BY <1>1, LimitPut
    <3> QED BY <2>2, <3>1, <3>2
  <2>4. r \in Interval /\ r[1] = me[1] /\ r[2] = x BY <1>1 DEF Interval
  <2>5. t.enforceConsistency => Fits(r) BY <2>2, <2>4
  <2>6. MovedTo(me, move, x, r) BY <1>6, <2>4 DEF MovedTo
  <2> HIDE DEF r, Fits, me, u
  <2> QED BY <2>3, <2>4, <2>5, <2>6, <1>4 DEF u, me
<1>7. CASE move = "TRANSLATE_X"
  <2> DEFINE r == <<x - half, x + half>>
  <2>1. u = moveBothRanges(t, n, x - half, x + half) BY <1>7 DEF setPropFromRegion
  <2>2. u = [t EXCEPT !.ranges[n] = r] /\ above(me[1], x + half) /\ below(me[2], x - half)
    BY <2>1 DEF moveBothRanges
  <2>3. r \in Interval /\ r[1] = x - half /\ r[2] = x + half BY <1>2 DEF Interval
  <2>4. Sound(t) => half > 0
    <3>1. me[1] < me[2] => half > 0
      <4> HIDE DEF me
      <4> QED BY <1>1
    <3> QED BY <3>1, <1>3
  <2>5. Sound(t) => r[1] < r[2]
    <3> HIDE DEF half, r
    <3> QED BY <2>3, <2>4, <1>2
  <2>6. Sound(t) => Fits(r) BY <2>2, <2>3, <2>5
  <2>7. r[1] + r[2] = 2 * x
    <3> HIDE DEF half, r
    <3> QED BY <2>3, <1>2
  <2>8. MovedTo(me, move, x, r) BY <1>7, <2>7 DEF MovedTo
  <2> HIDE DEF r, Fits, me, u, half
  <2> QED BY <2>2, <2>3, <2>6, <2>8, <1>4 DEF u, me
<1> QED BY <1>5, <1>6, <1>7, MovesAre

\* The pane draws a region that is moved as far as the next ones, and that is
\* where the range goes if it goes at all.
LEMMA LimitShown ==
    ASSUME NEW t \in TableType, Sound(t), NEW n \in DOMAIN t.ranges,
           NEW move \in ToSet(Moves), NEW x \in Int,
           NEW r, GoesTo(t, n, r), MovedTo(t.ranges[n], move, x, r),
           NEW regions, DOMAIN regions = DOMAIN t.ranges,
           \A k \in DOMAIN regions : regions[k].bounds = t.ranges[k]
    PROVE  findRegionLimit(regions, n, move, x) = x
<1> DEFINE me == regions[n].bounds
           middle == me[1] + me[2]
           others == {regions[k].bounds : k \in DOMAIN regions \ {n}}
           below == {b[2] : b \in {o \in others : 2 * o[2] < middle}}
           above == {b[1] : b \in {o \in others : 2 * o[1] > middle}}
           overAbove == {b[1] : b \in {o \in others : 2 * o[2] > middle}}
<1>1. me = t.ranges[n] /\ me[1] \in Int /\ me[2] \in Int /\ me[1] < me[2]
  BY DEF Sound, TableType, Interval
<1>2. r[1] \in Int /\ r[2] \in Int /\ r[1] < r[2] BY DEF GoesTo, Interval
<1>3. ASSUME NEW o \in others
      PROVE  /\ o[1] \in Int /\ o[2] \in Int /\ o[1] < o[2]
             /\ me[2] <= o[1] \/ o[2] <= me[1]
             /\ (me[2] <= o[1] => r[2] <= o[1]) /\ (o[2] <= me[1] => o[2] <= r[1])
  <2>1. PICK k \in DOMAIN regions \ {n} : o = t.ranges[k] OBVIOUS
  <2>2. o \in Interval /\ o[1] < o[2] BY <2>1 DEF Sound, TableType
  <2>3. Apart(t.ranges[n], o) BY <2>1 DEF Sound
  <2> QED BY <1>1, <2>1, <2>2, <2>3 DEF Apart, GoesTo, Interval
<1> HIDE DEF me, others
<1>4. below \in SUBSET Int /\ \A b \in below : b <= r[1]
  <2> SUFFICES ASSUME NEW o \in others, 2 * o[2] < middle PROVE o[2] \in Int /\ o[2] <= r[1]
    OBVIOUS
  <2> QED BY <1>1, <1>2, <1>3
<1>5. above \in SUBSET Int /\ \A b \in above : r[2] <= b
  <2> SUFFICES ASSUME NEW o \in others, 2 * o[1] > middle PROVE o[1] \in Int /\ r[2] <= o[1]
    OBVIOUS
  <2> QED BY <1>1, <1>2, <1>3
<1>6. overAbove \in SUBSET Int /\ \A b \in overAbove : r[2] <= b
  <2> SUFFICES ASSUME NEW o \in others, 2 * o[2] > middle PROVE o[1] \in Int /\ r[2] <= o[1]
    OBVIOUS
  <2> QED BY <1>1, <1>2, <1>3
<1> HIDE DEF below, above, overAbove
<1>7. CASE move = "EXTEND_XMINUS"
  <2>1. findRegionLimit(regions, n, move, x) = Min({me[2], Max({x} \cup below)})
    BY <1>7 DEF findRegionLimit, me, others, below, middle
  <2>2. r[1] = x /\ r[2] = me[2] BY <1>1, <1>7 DEF MovedTo
  <2>3. Max({x} \cup below) = x BY <1>4, <2>2, NothingBelow
  <2>4. Min({me[2], x}) = x
    <3>1. x < me[2] BY <1>2, <2>2
    <3>2. Min({me[2], x}) = IF me[2] <= x THEN me[2] ELSE x BY <1>1, OfTwo
    <3> QED BY <3>1, <3>2, <1>1
  <2> QED BY <2>1, <2>3, <2>4
<1>8. CASE move = "EXTEND_XPLUS"
  <2>1. findRegionLimit(regions, n, move, x) = Max({me[1], Min({x} \cup overAbove)})
    BY <1>8 DEF findRegionLimit, me, others, overAbove, middle
  <2>2. r[2] = x /\ r[1] = me[1] BY <1>1, <1>8 DEF MovedTo
  <2>3. Min({x} \cup overAbove) = x BY <1>6, <2>2, NothingAbove
  <2>4. Max({me[1], x}) = x
    <3>1. me[1] < x BY <1>2, <2>2
    <3>2. Max({me[1], x}) = IF me[1] <= x THEN x ELSE me[1] BY <1>1, OfTwo
    <3> QED BY <3>1, <3>2, <1>1
  <2> QED BY <2>1, <2>3, <2>4
<1>9. CASE move = "TRANSLATE_X"
  <2>1. findRegionLimit(regions, n, move, x)
          = IF 2 * x > middle THEN Min({x} \cup above) ELSE Max({x} \cup below)
    BY <1>9 DEF findRegionLimit, me, others, above, below, middle
  <2>2. r[1] + r[2] = 2 * x BY <1>9 DEF MovedTo
  <2>3. r[1] <= x /\ x <= r[2] BY <2>2, <1>2
  <2>4. \A b \in above : x <= b
    <3> SUFFICES ASSUME NEW b \in above PROVE x <= b OBVIOUS
    <3> QED BY <2>3, <1>2, <1>5
  <2>5. \A b \in below : b <= x
    <3> SUFFICES ASSUME NEW b \in below PROVE b <= x OBVIOUS
    <3> QED BY <2>3, <1>2, <1>4
  <2>6. Min({x} \cup above) = x /\ Max({x} \cup below) = x
    BY <2>4, <2>5, <1>4, <1>5, NothingAbove, NothingBelow
  <2> QED BY <2>1, <2>6
<1> QED BY <1>7, <1>8, <1>9, MovesAre

-----------------------------------------------------------------------------
(* The plots.                                                              *)

RegionType == [bounds : Interval, id : Nat, parent : {"ranger"} \X (0..1)]
PlotType ==
    [parent : Slots \X (0..1), index : 1..2, type : Types, plotMode : {"1D", "2D", "none"},
     visible : BOOLEAN, x : Interval, y : Interval, regions : Seq(RegionType)]
PlotsOfData(ps) ==
    /\ ps \in Seq(PlotType)
    /\ \A i \in DOMAIN ps : ps[i].x = Extents[ps[i].type].x /\ ps[i].y = Extents[ps[i].type].y

PlottersApart ==
    /\ plotters \in Seq(PlotterType)
    /\ \A i, j \in DOMAIN plotters : plotters[i].at = plotters[j].at => i = j

LEMMA OnlySome ==
    ASSUME NEW T, NEW seq \in Seq(T), NEW S \in SUBSET (1..Len(seq))
    PROVE  /\ Only(seq, S) \in Seq(T)
           /\ DOMAIN Only(seq, S) = 1..Cardinality(S)
           /\ \A i \in 1..Cardinality(S) :
                 Nth(S, i) \in S /\ Only(seq, S)[i] = seq[Nth(S, i)]
           /\ \A i, j \in 1..Cardinality(S) : Nth(S, i) = Nth(S, j) => i = j
BY OnlyIs

\* No two streams are of one filter and have one index.
LEMMA StreamsAre ==
    ASSUME PlottersApart
    PROVE  /\ PlotStreams \in Seq([of : PlotterType, index : 1..2])
           /\ \A i, j \in DOMAIN PlotStreams :
                 /\ PlotStreams[i].of.at = PlotStreams[j].of.at
                 /\ PlotStreams[i].index = PlotStreams[j].index
                 => i = j
<1> DEFINE T == [of : PlotterType, index : 1..2]
           N == 2 * Len(plotters)
           both == [q \in 1..N |-> [of |-> plotters[(q + 1) \div 2], index |-> 2 - (q % 2)]]
           S == StreamPlaces(plotters)
<1>1. Len(plotters) \in Nat /\ DOMAIN plotters = 1..Len(plotters) BY DEF PlottersApart
<1>2. ASSUME NEW q \in 1..N
      PROVE  /\ (q + 1) \div 2 \in DOMAIN plotters /\ 2 - (q % 2) \in 1..2
             /\ q = 2 * ((q + 1) \div 2) - (q % 2) /\ q % 2 \in {0, 1}
  BY <1>1
<1>3. both \in Seq(T) /\ Len(both) = N
  <2>1. \A q \in 1..N : both[q] \in T BY <1>2 DEF PlottersApart
  <2>2. N \in Nat BY <1>1
  <2> HIDE DEF N, T
  <2>3. DOMAIN both = 1..N OBVIOUS
  <2> HIDE DEF both
  <2>4. both \in [1..N -> T]
    <3>1. both = [q \in 1..N |-> both[q]] BY <2>3 DEF both
    <3> QED BY <2>1, <3>1
  <2> QED BY <2>2, <2>3, <2>4
<1>4. S \in SUBSET (1..Len(both)) BY <1>3 DEF StreamPlaces
<1> HIDE DEF S, T, N
<1>5. /\ Only(both, S) \in Seq(T)
      /\ DOMAIN Only(both, S) = 1..Cardinality(S)
      /\ \A i \in 1..Cardinality(S) : Nth(S, i) \in S /\ Only(both, S)[i] = both[Nth(S, i)]
      /\ \A i, j \in 1..Cardinality(S) : Nth(S, i) = Nth(S, j) => i = j
  <2> HIDE DEF both
  <2> QED BY <1>3, <1>4, OnlySome
<1>6. PlotStreams = Only(both, S) BY DEF PlotStreams, S, N
<1>7. ASSUME NEW i \in DOMAIN PlotStreams, NEW j \in DOMAIN PlotStreams,
             PlotStreams[i].of.at = PlotStreams[j].of.at,
             PlotStreams[i].index = PlotStreams[j].index
      PROVE  i = j
  <2> DEFINE p == Nth(S, i)
             q == Nth(S, j)
  <2>1. /\ p \in 1..N /\ q \in 1..N /\ PlotStreams[i] = both[p] /\ PlotStreams[j] = both[q]
        /\ p = q => i = j
    BY <1>3, <1>4, <1>5, <1>6
  <2> HIDE DEF p, q
  <2>2. /\ plotters[(p + 1) \div 2].at = plotters[(q + 1) \div 2].at
        /\ 2 - (p % 2) = 2 - (q % 2)
    BY <1>7, <2>1
  <2>3. (p + 1) \div 2 = (q + 1) \div 2 BY <1>2, <2>1, <2>2 DEF PlottersApart
  <2>4. p % 2 = q % 2 BY <1>2, <2>1, <2>2
  <2>5. p = q BY <1>2, <2>1, <2>3, <2>4
  <2> QED BY <2>1, <2>5
<1> QED BY <1>5, <1>6, <1>7 DEF T

LEMMA NewPlotsAre ==
    ASSUME PlottersApart, table \in TableType, gen \in 0..1,
           NEW modes, \A t \in Types : modes[t] \in PlotModes(t)
    PROVE  LET new == NewPlots(modes) IN
           /\ PlotsOfData(new)
           /\ \A i \in DOMAIN new : new[i].regions = <<>> \/ new[i].regions = Regions
           /\ \A i, j \in DOMAIN new :
                 new[i].parent = new[j].parent /\ new[i].index = new[j].index => i = j
<1> DEFINE new == NewPlots(modes)
<1>1. PlotStreams \in Seq([of : PlotterType, index : 1..2]) BY StreamsAre
<1>2. Len(PlotStreams) \in Nat /\ DOMAIN PlotStreams = 1..Len(PlotStreams) BY <1>1
<1>3. Regions \in Seq(RegionType)
  <2>1. table.ranges \in Seq(Interval) BY DEF TableType
  <2>2. Ranger \in {"ranger"} \X (0..1) BY DEF Ranger
  <2>3. \A k \in 1..Len(table.ranges) :
           [bounds |-> table.ranges[k], id |-> k, parent |-> Ranger] \in RegionType
    BY <2>1, <2>2 DEF RegionType
  <2> QED BY <2>1, <2>3 DEF Regions
<1>4. ASSUME NEW s \in [of : PlotterType, index : 1..2]
      PROVE  LET p == NewPlot(s, modes) IN
             /\ p \in PlotType /\ p.parent = At(s.of.at) /\ p.index = s.index
             /\ p.x = Extents[p.type].x /\ p.y = Extents[p.type].y
             /\ p.regions = <<>> \/ p.regions = Regions
  <2>1. s.of.at \in Slots /\ s.of.type \in Types /\ s.index \in 1..2
    BY DEF PlotterType
  <2>2. At(s.of.at) \in Slots \X (0..1) BY <2>1 DEF At
  <2>3. modes[s.of.type] \in {"1D", "2D", "none"}
    BY <2>1, ExtentsAssumption DEF PlotModes
  <2>4. Extents[s.of.type].x \in Interval /\ Extents[s.of.type].y \in Interval
    BY <2>1, ExtentsAssumption
  <2>5. (IF s.of.type = "line" THEN Regions ELSE <<>>) \in Seq(RegionType) BY <1>3
  <2> QED BY <2>1, <2>2, <2>3, <2>4, <2>5 DEF NewPlot, PlotType
<1>5. \A i \in DOMAIN new : new[i] = NewPlot(PlotStreams[i], modes)
                            /\ PlotStreams[i] \in [of : PlotterType, index : 1..2]
  <2>1. \A i \in DOMAIN PlotStreams : PlotStreams[i] \in [of : PlotterType, index : 1..2]
    <3> DEFINE T == [of : PlotterType, index : 1..2]
    <3> HIDE DEF T
    <3>1. PlotStreams \in Seq(T) BY <1>1 DEF T
    <3>2. \A i \in DOMAIN PlotStreams : PlotStreams[i] \in T BY <3>1
    <3> QED BY <3>2 DEF T
  <2>2. new = [i \in DOMAIN PlotStreams |-> NewPlot(PlotStreams[i], modes)] BY DEF NewPlots
  <2> HIDE DEF new
  <2> QED BY <2>1, <2>2
<1>6. new \in Seq(PlotType)
  <2>1. DOMAIN new = 1..Len(PlotStreams) BY <1>2 DEF NewPlots
  <2>2. new = [i \in 1..Len(PlotStreams) |-> new[i]] BY <1>2 DEF NewPlots
  <2> HIDE DEF new
  <2>3. \A i \in 1..Len(PlotStreams) : new[i] \in PlotType BY <2>1, <1>4, <1>5
  <2> QED BY <2>1, <2>2, <2>3, <1>2
<1>7. \A i \in DOMAIN new : /\ new[i].x = Extents[new[i].type].x
                            /\ new[i].y = Extents[new[i].type].y
  BY <1>4, <1>5
<1>8. \A i \in DOMAIN new : new[i].regions = <<>> \/ new[i].regions = Regions BY <1>4, <1>5
<1>9. \A i, j \in DOMAIN new :
         new[i].parent = new[j].parent /\ new[i].index = new[j].index => i = j
  <2> SUFFICES ASSUME NEW i \in DOMAIN new, NEW j \in DOMAIN new,
                      new[i].parent = new[j].parent, new[i].index = new[j].index
               PROVE  i = j
    OBVIOUS
  <2>1. i \in DOMAIN PlotStreams /\ j \in DOMAIN PlotStreams BY DEF NewPlots
  <2> HIDE DEF new
  <2>2. /\ new[i].parent = At(PlotStreams[i].of.at) /\ new[i].index = PlotStreams[i].index
        /\ new[j].parent = At(PlotStreams[j].of.at) /\ new[j].index = PlotStreams[j].index
    BY <1>4, <1>5
  <2>3. <<PlotStreams[i].of.at, gen>> = <<PlotStreams[j].of.at, gen>> BY <2>2 DEF At
  <2>4. PlotStreams[i].of.at = PlotStreams[j].of.at BY <2>3
  <2> QED BY <2>1, <2>2, <2>4, StreamsAre
<1> HIDE DEF new
<1>10. PlotsOfData(new) BY <1>6, <1>7 DEF PlotsOfData
<1> QED BY <1>8, <1>9, <1>10 DEF new

\* Plots of which only the visibility is set anew.
Reshown(ps, f) == [i \in DOMAIN ps |-> [ps[i] EXCEPT !.visible = f[i]]]

LEMMA ReshownIs ==
    ASSUME NEW ps, PlotsOfData(ps), NEW f \in [DOMAIN ps -> BOOLEAN]
    PROVE  /\ PlotsOfData(Reshown(ps, f)) /\ DOMAIN Reshown(ps, f) = DOMAIN ps
           /\ Len(Reshown(ps, f)) = Len(ps)
           /\ \A i \in DOMAIN ps :
                 /\ Reshown(ps, f)[i].visible = f[i]
                 /\ Reshown(ps, f)[i].regions = ps[i].regions
                 /\ Reshown(ps, f)[i].parent = ps[i].parent
                 /\ Reshown(ps, f)[i].index = ps[i].index
<1> DEFINE new == Reshown(ps, f)
<1>1. ps \in Seq(PlotType) /\ Len(ps) \in Nat /\ DOMAIN ps = 1..Len(ps)
  BY DEF PlotsOfData
<1>2. \A i \in DOMAIN ps : ps[i] \in PlotType
  <2> HIDE DEF PlotType
  <2> QED BY <1>1
<1>3. ASSUME NEW i \in DOMAIN ps
      PROVE  /\ new[i] \in PlotType /\ new[i].visible = f[i]
             /\ new[i].regions = ps[i].regions /\ new[i].parent = ps[i].parent
             /\ new[i].index = ps[i].index /\ new[i].type = ps[i].type
             /\ new[i].x = ps[i].x /\ new[i].y = ps[i].y
  <2> DEFINE p == ps[i]
             v == f[i]
  <2>1. new[i] = [p EXCEPT !.visible = v] BY DEF Reshown
  <2>2. p \in PlotType /\ v \in BOOLEAN BY <1>2
  <2> HIDE DEF p, v, new
  <2>3. /\ [p EXCEPT !.visible = v] \in PlotType /\ [p EXCEPT !.visible = v].visible = v
        /\ [p EXCEPT !.visible = v].regions = p.regions
        /\ [p EXCEPT !.visible = v].parent = p.parent
        /\ [p EXCEPT !.visible = v].index = p.index
        /\ [p EXCEPT !.visible = v].type = p.type
        /\ [p EXCEPT !.visible = v].x = p.x /\ [p EXCEPT !.visible = v].y = p.y
    BY <2>2 DEF PlotType
  <2> QED BY <2>1, <2>3 DEF p, v
<1>4. DOMAIN new = DOMAIN ps /\ new = [i \in 1..Len(ps) |-> new[i]] BY <1>1 DEF Reshown
<1> HIDE DEF new
<1>5. new \in Seq(PlotType) /\ Len(new) = Len(ps)
  <2> HIDE DEF PlotType
  <2>1. \A i \in 1..Len(ps) : new[i] \in PlotType BY <1>1, <1>3
  <2> QED BY <2>1, <1>1, <1>4
<1>6. ASSUME NEW i \in DOMAIN new
      PROVE  /\ new[i].x = Extents[new[i].type].x
             /\ new[i].y = Extents[new[i].type].y
  <2>1. i \in DOMAIN ps BY <1>4
  <2>2. /\ ps[i].x = Extents[ps[i].type].x
        /\ ps[i].y = Extents[ps[i].type].y
    BY <2>1 DEF PlotsOfData
  <2>3. new[i].type = ps[i].type /\ new[i].x = ps[i].x /\ new[i].y = ps[i].y
    BY <2>1, <1>3
  <2> QED BY ONLY <2>2, <2>3
<1>7. PlotsOfData(new) BY <1>5, <1>6 DEF PlotsOfData
<1> QED BY <1>3, <1>4, <1>5, <1>7 DEF new

\* The visibility of one of these plots before decides, and of no other, when no
\* two new plots are alike.
LEMMA RestoredIs ==
    ASSUME NEW ps, PlotsOfData(ps), NEW last
    PROVE  \E f \in [DOMAIN ps -> BOOLEAN] :
              /\ bestEffortRestoreVisibility(ps, last) = Reshown(ps, f)
              /\ (\A i, j \in DOMAIN ps :
                     ps[i].parent = ps[j].parent /\ ps[i].index = ps[j].index => i = j)
                 => \A i \in DOMAIN ps : f[i] <=> <<ps[i].parent, ps[i].index>> \in last
<1> DEFINE like(i, l) == <<ps[i].parent, ps[i].index>> = l
           first(i, l) == like(i, l) /\ \A j \in 1..(i - 1) : ~like(j, l)
           f == [i \in DOMAIN ps |-> \E l \in last : first(i, l)]
<1>1. DOMAIN ps = 1..Len(ps) /\ Len(ps) \in Nat BY DEF PlotsOfData
<1>2. f \in [DOMAIN ps -> BOOLEAN] OBVIOUS
<1>3. bestEffortRestoreVisibility(ps, last)
        = [i \in DOMAIN ps |-> [ps[i] EXCEPT !.visible = \E l \in last : first(i, l)]]
  BY DEF bestEffortRestoreVisibility
<1>4. \A i \in DOMAIN ps : f[i] = \E l \in last : first(i, l) OBVIOUS
<1>5. bestEffortRestoreVisibility(ps, last) = Reshown(ps, f)
  <2> HIDE DEF f, first
  <2> QED BY <1>3, <1>4 DEF Reshown
<1>6. ASSUME \A i, j \in DOMAIN ps :
                ps[i].parent = ps[j].parent /\ ps[i].index = ps[j].index => i = j,
             NEW i \in DOMAIN ps
      PROVE  f[i] <=> <<ps[i].parent, ps[i].index>> \in last
  <2>1. ASSUME NEW l \in last, first(i, l) PROVE <<ps[i].parent, ps[i].index>> \in last
    BY <2>1
  <2>2. ASSUME <<ps[i].parent, ps[i].index>> \in last
        PROVE  \E l \in last : first(i, l)
    <3> DEFINE l == <<ps[i].parent, ps[i].index>>
    <3>1. ASSUME NEW j \in 1..(i - 1) PROVE ~like(j, l)
      <4>1. j \in DOMAIN ps /\ j # i BY <1>1
      <4>2. ~(ps[i].parent = ps[j].parent /\ ps[i].index = ps[j].index)
        BY <4>1, <1>6
      <4> QED BY <4>2
    <3> QED BY <2>2, <3>1
  <2>3. (\E l \in last : first(i, l)) <=> <<ps[i].parent, ps[i].index>> \in last
    <3> HIDE DEF first
    <3> QED BY <2>1, <2>2
  <2> HIDE DEF f, first
  <2> QED BY <2>3, <1>4
<1> HIDE DEF f
<1> QED BY <1>2, <1>5, <1>6

\* Without a visible plot the bounds are of nothing; with one they are proper.
LEMMA ScanIs ==
    ASSUME NEW ps, PlotsOfData(ps)
    PROVE  LET all == scanBounds(ps) IN
           /\ all \in [x : Interval, y : Interval]
           /\ Visible(ps) # {} => all.x[1] < all.x[2] /\ all.y[1] <= all.y[2]
<1> DEFINE X1 == {ps[i].x[1] : i \in Visible(ps)}
           X2 == {ps[i].x[2] : i \in Visible(ps)}
           Y1 == {ps[i].y[1] : i \in Visible(ps)}
           Y2 == {ps[i].y[2] : i \in Visible(ps)}
           all == scanBounds(ps)
<1>1. all = [x |-> <<Min({Huge} \cup X1), Max({-Huge} \cup X2)>>,
             y |-> <<Min({Huge} \cup Y1), Max({-Huge} \cup Y2)>>]
  BY DEF scanBounds
<1>2. ASSUME NEW i \in Visible(ps)
      PROVE  LET x == ps[i].x
                 y == ps[i].y
             IN  /\ x[1] \in Int /\ x[2] \in Int /\ -Huge <= x[1] /\ x[1] < x[2] /\ x[2] <= Huge
                 /\ y[1] \in Int /\ y[2] \in Int /\ -Huge <= y[1] /\ y[1] <= y[2] /\ y[2] <= Huge
  <2>1. i \in DOMAIN ps BY DEF Visible
  <2>2. ps[i] \in PlotType
    <3> HIDE DEF PlotType
    <3> QED BY <2>1 DEF PlotsOfData
  <2>3. ps[i].type \in Types BY <2>2 DEF PlotType
  <2>4. ps[i].x = Extents[ps[i].type].x /\ ps[i].y = Extents[ps[i].type].y
    BY <2>1 DEF PlotsOfData
  <2> QED BY <2>3, <2>4, ExtentsAssumption DEF Interval
<1>3. Huge \in Int /\ -Huge \in Int /\ -Huge <= Huge BY DEF Huge
<1> HIDE DEF all
<1>4. \A S \in SUBSET Int :
         (\A n \in S : -Huge <= n /\ n <= Huge) =>
            /\ Min({Huge} \cup S) \in Int /\ \A n \in S : Min({Huge} \cup S) <= n
            /\ Max({-Huge} \cup S) \in Int /\ \A n \in S : n <= Max({-Huge} \cup S)
  <2> SUFFICES ASSUME NEW S \in SUBSET Int, \A n \in S : -Huge <= n /\ n <= Huge
               PROVE  /\ Min({Huge} \cup S) \in Int /\ \A n \in S : Min({Huge} \cup S) <= n
                      /\ Max({-Huge} \cup S) \in Int /\ \A n \in S : n <= Max({-Huge} \cup S)
    OBVIOUS
  <2> DEFINE L == {Huge} \cup S
             H == {-Huge} \cup S
  <2>1. L \in SUBSET Int /\ L # {} /\ \A n \in L : -Huge <= n BY <1>3
  <2>2. H \in SUBSET Int /\ H # {} /\ \A n \in H : n <= Huge BY <1>3
  <2>3. S \in SUBSET L /\ S \in SUBSET H OBVIOUS
  <2> HIDE DEF L, H
  <2>4. Min(L) \in L /\ \A n \in L : Min(L) <= n BY <2>1, <1>3, Least
  <2>5. Max(H) \in H /\ \A n \in H : n <= Max(H) BY <2>2, <1>3, Greatest
  <2> QED BY <2>1, <2>2, <2>3, <2>4, <2>5 DEF L, H
<1> HIDE DEF X1, X2, Y1, Y2
<1>5. /\ X1 \in SUBSET Int /\ \A n \in X1 : -Huge <= n /\ n <= Huge
      /\ Y1 \in SUBSET Int /\ \A n \in Y1 : -Huge <= n /\ n <= Huge
  <2> HIDE DEF Huge
  <2>1. \A n \in X1 : n \in Int /\ -Huge <= n /\ n <= Huge
    <3> SUFFICES ASSUME NEW i \in Visible(ps)
                 PROVE  LET n == ps[i].x[1] IN n \in Int /\ -Huge <= n /\ n <= Huge
      BY DEF X1
    <3> QED BY <1>2, <1>3
  <2>2. \A n \in Y1 : n \in Int /\ -Huge <= n /\ n <= Huge
    <3> SUFFICES ASSUME NEW i \in Visible(ps)
                 PROVE  LET n == ps[i].y[1] IN n \in Int /\ -Huge <= n /\ n <= Huge
      BY DEF Y1
    <3> QED BY <1>2, <1>3
  <2> QED BY <2>1, <2>2
<1>6. /\ X2 \in SUBSET Int /\ \A n \in X2 : -Huge <= n /\ n <= Huge
      /\ Y2 \in SUBSET Int /\ \A n \in Y2 : -Huge <= n /\ n <= Huge
  <2> HIDE DEF Huge
  <2>1. \A n \in X2 : n \in Int /\ -Huge <= n /\ n <= Huge
    <3> SUFFICES ASSUME NEW i \in Visible(ps)
                 PROVE  LET n == ps[i].x[2] IN n \in Int /\ -Huge <= n /\ n <= Huge
      BY DEF X2
    <3> QED BY <1>2, <1>3
  <2>2. \A n \in Y2 : n \in Int /\ -Huge <= n /\ n <= Huge
    <3> SUFFICES ASSUME NEW i \in Visible(ps)
                 PROVE  LET n == ps[i].y[2] IN n \in Int /\ -Huge <= n /\ n <= Huge
      BY DEF Y2
    <3> QED BY <1>2, <1>3
  <2> QED BY <2>1, <2>2
<1> HIDE DEF Huge
<1>7. /\ all.x[1] \in Int /\ \A n \in X1 : all.x[1] <= n
      /\ all.x[2] \in Int /\ \A n \in X2 : n <= all.x[2]
      /\ all.y[1] \in Int /\ \A n \in Y1 : all.y[1] <= n
      /\ all.y[2] \in Int /\ \A n \in Y2 : n <= all.y[2]
  BY <1>1, <1>4, <1>5, <1>6
<1>8. all \in [x : Interval, y : Interval]
  <2> DEFINE a == Min({Huge} \cup X1)
             b == Max({-Huge} \cup X2)
             c == Min({Huge} \cup Y1)
             d == Max({-Huge} \cup Y2)
  <2>1. a \in Int /\ b \in Int /\ c \in Int /\ d \in Int BY <1>4, <1>5, <1>6
  <2> HIDE DEF a, b, c, d
  <2>2. [x |-> <<a, b>>, y |-> <<c, d>>] \in [x : Interval, y : Interval]
    BY <2>1 DEF Interval
  <2> QED BY <2>2, <1>1 DEF a, b, c, d
<1>9. ASSUME NEW i \in Visible(ps) PROVE all.x[1] < all.x[2] /\ all.y[1] <= all.y[2]
  <2>1. /\ ps[i].x[1] \in X1 /\ ps[i].x[2] \in X2 /\ ps[i].y[1] \in Y1 /\ ps[i].y[2] \in Y2
    BY DEF X1, X2, Y1, Y2
  <2>2. /\ all.x[1] <= ps[i].x[1] /\ ps[i].x[2] <= all.x[2]
        /\ all.y[1] <= ps[i].y[1] /\ ps[i].y[2] <= all.y[2]
    BY <2>1, <1>7
  <2> QED BY <2>2, <1>2, <1>7
<1> QED BY <1>8, <1>9 DEF all

\* What is under the mouse is in a region.
LEMMA HitIs ==
    ASSUME NEW ps, PlotsOfData(ps), NEW x \in Int,
           NEW hit, hit = getRegionIdAtPosition(ps, x), hit # <<0, 0>>
    PROVE  /\ hit[1] \in DOMAIN ps /\ hit[2] \in DOMAIN ps[hit[1]].regions
           /\ InRegion(ps[hit[1]].regions[hit[2]], x)
<1> DEFINE hits(i) == {k \in DOMAIN ps[i].regions : InRegion(ps[i].regions[k], x)}
           hit1 == {i \in Visible(ps) : hits(i) # {}}
<1>1. hit = IF hit1 = {} THEN <<0, 0>> ELSE <<Min(hit1), Min(hits(Min(hit1)))>>
  BY DEF getRegionIdAtPosition
<1>2. hit1 \in SUBSET Int /\ \A i \in hit1 : 1 <= i
  <2>1. DOMAIN ps = 1..Len(ps) /\ Len(ps) \in Nat BY DEF PlotsOfData
  <2> QED BY <2>1 DEF Visible
<1>3. hit1 # {} BY <1>1
<1>4. Min(hit1) \in hit1
  <2> DEFINE S == hit1
  <2>1. S \in SUBSET Int /\ S # {} /\ \A k \in S : 1 <= k BY <1>2, <1>3
  <2> HIDE DEF S
  <2>2. Min(S) \in S BY <2>1, Least
  <2> QED BY <2>2 DEF S
<1> DEFINE i == Min(hit1)
<1>5. i \in DOMAIN ps /\ hits(i) # {} /\ hits(i) \in SUBSET DOMAIN ps[i].regions
  <2>1. i \in Visible(ps) /\ hits(i) # {} BY <1>4
  <2> HIDE DEF i
  <2> QED BY <2>1 DEF Visible
<1> HIDE DEF i
<1>6. DOMAIN ps[i].regions = 1..Len(ps[i].regions) /\ Len(ps[i].regions) \in Nat
  <2>1. ps[i] \in PlotType
    <3> HIDE DEF PlotType
    <3> QED BY <1>5 DEF PlotsOfData
  <2>2. ps[i].regions \in Seq(RegionType) BY <2>1 DEF PlotType
  <2> QED BY <2>2
<1>7. hits(i) \in SUBSET Int /\ \A k \in hits(i) : 1 <= k BY <1>6
<1>8. Min(hits(i)) \in hits(i)
  <2> DEFINE S == hits(i)
  <2>1. S \in SUBSET Int /\ S # {} /\ \A k \in S : 1 <= k BY <1>5, <1>7
  <2> HIDE DEF S
  <2>2. Min(S) \in S BY <2>1, Least
  <2> QED BY <2>2 DEF S
<1>9. hit = <<i, Min(hits(i))>> BY <1>1, <1>3 DEF i
<1> QED BY <1>5, <1>8, <1>9

-----------------------------------------------------------------------------
(* The invariant.                                                          *)

Rectangle == [x : Interval, y : Interval]
MouseType ==
    {Idle} \cup [mode : {"drag"}, start : [x : Int, y : Int]]
           \cup [mode : {"pan"}, by : Int, orig : Interval]
           \cup [mode : {"region"}, plot : Nat, region : Nat, move : ToSet(Moves),
                 was : RegionType, from : Int, on : Rectangle]

FiltersTyped == PlottersApart /\ table \in TableType /\ gen \in 0..1 /\ outdated \in BOOLEAN
PaneTyped ==
    /\ PlotsOfData(plots) /\ list \in [DOMAIN plots -> BOOLEAN]
    /\ user \in [on : BOOLEAN, x : Interval, y : Interval]
    /\ axes = {} \/ \E a \in Rectangle : axes = {a}
    /\ mouse \in MouseType
    /\ refreshing \in BOOLEAN /\ still \in BOOLEAN /\ acts \in 0..MaxActs

\* What BoundsProper says, also of what is drawn and of a shift that has begun.
Proper(b) == b.x[1] < b.x[2] /\ b.y[1] <= b.y[2]
BoundsRight ==
    odd \cap {"bounds of nothing", "reset below zero"} = {} =>
        /\ user.on => Proper(user)
        /\ \A a \in axes : Proper(a)
        /\ mouse.mode = "pan" => mouse.orig[1] < mouse.orig[2]

TableSound == table.enforceConsistency => Sound(table)
RegionsShown ==
    ~outdated => \A i \in DOMAIN plots : plots[i].regions = <<>> \/ plots[i].regions = Regions

\* A region that is held is still the one that was pressed. During a refresh no
\* drag of a region goes on once the mouse has moved.
HeldShown ==
    mouse.mode = "region" =>
        /\ refreshing => still
        /\ "refreshed held" \notin odd /\ ~outdated =>
              /\ mouse.plot \in DOMAIN plots
              /\ mouse.region \in DOMAIN plots[mouse.plot].regions
              /\ plots[mouse.plot].regions[mouse.region] = mouse.was

IInv ==
    /\ FiltersTyped /\ PaneTyped
    /\ ListShowsVisible /\ BoundsRight
    /\ TableSound /\ RegionsShown /\ HeldShown

LEMMA InitOK == Init => IInv
<1> SUFFICES ASSUME Init PROVE IInv OBVIOUS
<1>1. PICK s \in Starts : plotters = s.plotters /\ table = s.table BY DEF Init
<1>2. table \in AllTables BY <1>1 DEF AllTables
<1>3. FiltersTyped /\ TableSound
  BY <1>1, <1>2, FiltersAssumption DEF Init, FiltersTyped, PlottersApart, TableSound
<1>4. /\ plots = <<>> /\ user = NoUserBounds /\ list = <<>> /\ rawGrid = <<>> /\ axes = {}
      /\ mouse = Idle /\ refreshing = FALSE /\ acts = 0 /\ outdated = TRUE /\ still = TRUE
  BY DEF Init
<1>5. PaneTyped
  <2>1. PlotsOfData(plots) BY <1>4 DEF PlotsOfData
  <2>2. list \in [DOMAIN plots -> BOOLEAN] BY <1>4
  <2>3. user \in [on : BOOLEAN, x : Interval, y : Interval]
    BY <1>4 DEF NoUserBounds, Interval
  <2>4. mouse \in MouseType BY <1>4 DEF MouseType
  <2>5. acts \in 0..MaxActs BY <1>4, BoundsAssumption
  <2> QED BY <1>4, <2>1, <2>2, <2>3, <2>4, <2>5 DEF PaneTyped
<1>6. ListShowsVisible
  <2>1. Selection(<<>>) = <<>> BY DEF Selection
  <2>2. Visible(<<>>) = {} BY DEF Visible
  <2>3. Cardinality({}) = 0 BY FS_EmptySet
  <2>4. [n \in 1..0 |-> Nth(Visible(<<>>), n)] = <<>> OBVIOUS
  <2>5. getRawData(<<>>) = <<>> BY <2>2, <2>3, <2>4, Zenon DEF getRawData, getNumVisible
  <2> QED BY <1>4, <2>1, <2>5 DEF ListShowsVisible
<1>7. BoundsRight /\ RegionsShown /\ HeldShown
  BY <1>4 DEF BoundsRight, RegionsShown, HeldShown, NoUserBounds, Idle
<1> QED BY <1>3, <1>5, <1>6, <1>7 DEF IInv

-----------------------------------------------------------------------------
(* The steps.                                                              *)

\* A change of the filters alone.
LEMMA EditStep ==
    ASSUME IInv, Edit, PlottersApart', table' \in TableType, TableSound', gen' \in 0..1
    PROVE  IInv'
<1>1. /\ acts < MaxActs /\ acts' = acts + 1 /\ outdated' = TRUE
      /\ plots' = plots /\ list' = list /\ rawGrid' = rawGrid /\ user' = user
      /\ axes' = axes /\ mouse' = mouse /\ refreshing' = refreshing /\ still' = still
      /\ odd' = odd
  BY DEF Edit, plotVars
<1>2. FiltersTyped' BY <1>1 DEF FiltersTyped
<1>3. acts' \in 0..MaxActs
  BY <1>1, BoundsAssumption DEF IInv, PaneTyped
<1>4. PaneTyped' BY <1>1, <1>3 DEF IInv, PaneTyped
<1>5. ListShowsVisible' BY <1>1 DEF IInv, ListShowsVisible
<1>6. BoundsRight' BY <1>1 DEF IInv, BoundsRight
<1>7. RegionsShown' /\ HeldShown' BY <1>1 DEF IInv, RegionsShown, HeldShown
<1> QED BY <1>2, <1>4, <1>5, <1>6, <1>7 DEF IInv

LEMMA FilterSteps ==
    ASSUME IInv,
           \/ \E slot \in Slots, type \in Types : AddPlotter(slot, type)
           \/ \E i \in DOMAIN plotters : RemovePlotter(i)
           \/ \E i \in DOMAIN plotters, type \in Types, many \in BOOLEAN :
                 SetPlotter(i, type, many)
           \/ \E t \in Tables : EditTable(t)
           \/ \E t \in Tables : EditUndo(t)
    PROVE  IInv'
<1>1. /\ plotters \in Seq(PlotterType) /\ table \in TableType /\ gen \in 0..1 /\ TableSound
      /\ \A i, j \in DOMAIN plotters : plotters[i].at = plotters[j].at => i = j
  BY DEF IInv, FiltersTyped, PlottersApart
<1>2. Len(plotters) \in Nat /\ DOMAIN plotters = 1..Len(plotters) BY <1>1
<1>3. \A i \in DOMAIN plotters : plotters[i] \in PlotterType
  <2> QED BY <1>1
<1>4. ASSUME NEW slot \in Slots, NEW type \in Types, AddPlotter(slot, type) PROVE IInv'
  <2> DEFINE p == [at |-> slot, type |-> type, many |-> FALSE]
             new == Append(plotters, p)
  <2>1. /\ Edit /\ plotters' = new /\ table' = table /\ gen' = gen
        /\ \A i \in DOMAIN plotters : plotters[i].at # slot
    BY <1>4 DEF AddPlotter
  <2>2. p \in PlotterType /\ p.at = slot BY DEF PlotterType
  <2> HIDE DEF p
  <2>3. /\ new \in Seq(PlotterType) /\ Len(new) = Len(plotters) + 1
        /\ DOMAIN new = 1..(Len(plotters) + 1)
        /\ \A i \in DOMAIN new : new[i] = IF i \in DOMAIN plotters THEN plotters[i] ELSE p
    <3> QED BY <1>1, <1>2, <2>2
  <2>4. \A i \in DOMAIN new : i \in DOMAIN plotters \/ i = Len(plotters) + 1
    BY <1>2, <2>3
  <2> HIDE DEF new
  <2>5. \A i, j \in DOMAIN new : new[i].at = new[j].at => i = j
    BY <1>1, <2>1, <2>2, <2>3, <2>4
  <2>6. PlottersApart' BY <2>1, <2>3, <2>5 DEF PlottersApart
  <2>7. TableSound' BY <1>1, <2>1 DEF TableSound
  <2> QED BY <1>1, <2>1, <2>6, <2>7, EditStep
<1>5. ASSUME NEW i \in DOMAIN plotters, RemovePlotter(i) PROVE IInv'
  <2> DEFINE S == DOMAIN plotters \ {i}
             new == Only(plotters, S)
  <2>1. Edit /\ plotters' = new /\ table' = table /\ gen' = gen
    BY <1>5 DEF RemovePlotter
  <2>2. S \in SUBSET (1..Len(plotters)) BY <1>2
  <2>3. /\ new \in Seq(PlotterType) /\ DOMAIN new = 1..Cardinality(S)
        /\ \A k \in 1..Cardinality(S) : Nth(S, k) \in S /\ new[k] = plotters[Nth(S, k)]
        /\ \A j, k \in 1..Cardinality(S) : Nth(S, j) = Nth(S, k) => j = k
    <3> HIDE DEF S
    <3>1. plotters \in Seq(PlotterType) BY <1>1
    <3>2. /\ Only(plotters, S) \in Seq(PlotterType)
          /\ DOMAIN Only(plotters, S) = 1..Cardinality(S)
          /\ \A k \in 1..Cardinality(S) :
                Nth(S, k) \in S /\ Only(plotters, S)[k] = plotters[Nth(S, k)]
          /\ \A j, k \in 1..Cardinality(S) : Nth(S, j) = Nth(S, k) => j = k
      BY <3>1, <2>2, OnlySome
    <3> QED BY <3>2, Zenon
  <2> HIDE DEF new
  <2>4. ASSUME NEW j \in DOMAIN new, NEW k \in DOMAIN new, new[j].at = new[k].at
        PROVE  j = k
    <3>1. Nth(S, j) \in DOMAIN plotters /\ Nth(S, k) \in DOMAIN plotters BY <2>3
    <3>2. Nth(S, j) = Nth(S, k) BY <1>1, <2>3, <2>4, <3>1
    <3> QED BY <2>3, <3>2
  <2>5. PlottersApart' BY <2>1, <2>3, <2>4 DEF PlottersApart
  <2>6. TableSound' BY <1>1, <2>1 DEF TableSound
  <2> QED BY <1>1, <2>1, <2>5, <2>6, EditStep
<1>6. ASSUME NEW i \in DOMAIN plotters, NEW type \in Types, NEW many \in BOOLEAN,
             SetPlotter(i, type, many)
      PROVE  IInv'
  <2> DEFINE new == [plotters EXCEPT ![i].type = type, ![i].many = many]
             p == [plotters[i] EXCEPT !.type = type, !.many = many]
  <2>1. Edit /\ plotters' = new /\ table' = table /\ gen' = gen
    BY <1>6 DEF SetPlotter
  <2>2. p \in PlotterType /\ p.at = plotters[i].at
    <3> DEFINE old == plotters[i]
    <3>1. old \in PlotterType BY <1>3
    <3> HIDE DEF old
    <3>2. /\ [old EXCEPT !.type = type, !.many = many] \in PlotterType
          /\ [old EXCEPT !.type = type, !.many = many].at = old.at
      BY <3>1 DEF PlotterType
    <3> QED BY <3>2 DEF old
  <2>3. new = [plotters EXCEPT ![i] = p] OBVIOUS
  <2> HIDE DEF p, new
  <2>4. /\ new \in Seq(PlotterType) /\ DOMAIN new = DOMAIN plotters
        /\ \A k \in DOMAIN plotters : new[k] = IF k = i THEN p ELSE plotters[k]
    <3> QED BY <1>1, <2>2, <2>3
  <2>5. \A k \in DOMAIN plotters : new[k].at = plotters[k].at BY <2>2, <2>4
  <2>6. PlottersApart' BY <1>1, <2>1, <2>4, <2>5 DEF PlottersApart
  <2>7. TableSound' BY <1>1, <2>1 DEF TableSound
  <2> QED BY <1>1, <2>1, <2>6, <2>7, EditStep
<1>7. ASSUME NEW t \in Tables, EditTable(t) \/ EditUndo(t) PROVE IInv'
  <2>1. Edit /\ table' = t /\ plotters' = plotters /\ (gen' = gen \/ gen' = 1 - gen)
    BY <1>7 DEF EditTable, EditUndo
  <2>2. t \in TableType /\ (t.enforceConsistency => Sound(t))
    BY FiltersAssumption DEF AllTables
  <2>3. TableSound' BY <2>1, <2>2 DEF TableSound
  <2>4. PlottersApart' BY <1>1, <2>1 DEF PlottersApart
  <2>5. gen' \in 0..1 BY <1>1, <2>1
  <2> QED BY <2>1, <2>2, <2>3, <2>4, <2>5, EditStep
<1> QED BY <1>4, <1>5, <1>6, <1>7

LEMMA PlotIs ==
    ASSUME NEW ps, PlotsOfData(ps)
    PROVE  /\ \A i \in DOMAIN ps : ps[i] \in PlotType /\ ps[i].visible \in BOOLEAN
           /\ Selection(ps) \in [DOMAIN ps -> BOOLEAN]
           /\ DOMAIN ps = 1..Len(ps) /\ Len(ps) \in Nat
<1>1. ps \in Seq(PlotType) BY DEF PlotsOfData
<1>2. \A i \in DOMAIN ps : ps[i] \in PlotType BY <1>1
<1>3. \A i \in DOMAIN ps : ps[i].visible \in BOOLEAN BY <1>2 DEF PlotType
<1>4. Selection(ps) \in [DOMAIN ps -> BOOLEAN] BY <1>3 DEF Selection
<1> QED BY <1>1, <1>2, <1>3, <1>4

LEMMA StartStep == ASSUME IInv, StartRefresh PROVE IInv'
<1>1. /\ refreshing' = TRUE /\ still' = TRUE
      /\ UNCHANGED <<filterVars, plotVars, user, axes, mouse, odd, acts>>
  BY DEF StartRefresh
<1>2. FiltersTyped' /\ PaneTyped'
  BY <1>1 DEF IInv, FiltersTyped, PlottersApart, PaneTyped, filterVars, plotVars
<1>3. ListShowsVisible' /\ BoundsRight' /\ TableSound' /\ RegionsShown' /\ HeldShown'
  BY <1>1 DEF IInv, ListShowsVisible, BoundsRight, TableSound, RegionsShown, Regions, Ranger,
              HeldShown, filterVars, plotVars
<1> QED BY <1>2, <1>3 DEF IInv

LEMMA FailStep == ASSUME IInv, FailRefresh PROVE IInv'
<1>1. /\ refreshing' = FALSE /\ still' = TRUE /\ rawGrid' = getRawData(plots)
      /\ UNCHANGED <<filterVars, plots, list, user, axes, mouse, odd, acts>>
  BY DEF FailRefresh, updateRawGrid
<1>2. FiltersTyped' /\ PaneTyped'
  BY <1>1 DEF IInv, FiltersTyped, PlottersApart, PaneTyped, filterVars
<1>3. ListShowsVisible' /\ BoundsRight' /\ TableSound' /\ RegionsShown' /\ HeldShown'
  BY <1>1 DEF IInv, ListShowsVisible, BoundsRight, TableSound, RegionsShown, Regions, Ranger,
              HeldShown, filterVars
<1> QED BY <1>2, <1>3 DEF IInv

LEMMA FinishStep == ASSUME IInv, FinishRefresh PROVE IInv'
<1>1. /\ refreshing /\ rawGrid' = getRawData(plots') /\ refreshing' = FALSE /\ outdated' = FALSE
      /\ odd' = (odd \ {"clicked locked"}) \cup
                (IF mouse.mode = "region" /\ still THEN {"refreshed held"} ELSE {})
      /\ still' = TRUE
      /\ UNCHANGED <<plotters, table, gen, user, axes, mouse, acts>>
  BY DEF FinishRefresh, updateRawGrid
<1>2. PICK modes \in [Types -> {"1D", "2D", "none"}] :
         (\A t \in Types : modes[t] \in PlotModes(t)) /\ updateScene(NewPlots(modes))
  BY DEF FinishRefresh
<1> DEFINE new == NewPlots(modes)
<1>3. PlottersApart /\ table \in TableType /\ gen \in 0..1 BY DEF IInv, FiltersTyped
<1>4. /\ PlotsOfData(new)
      /\ \A i \in DOMAIN new : new[i].regions = <<>> \/ new[i].regions = Regions
  BY <1>2, <1>3, NewPlotsAre
<1>5. /\ plots' = new \/ plots' = bestEffortRestoreVisibility(new, LastVisible(plots))
      /\ list' = Selection(plots')
  BY <1>2 DEF updateScene
<1> HIDE DEF new
<1>6. /\ PlotsOfData(plots')
      /\ \A i \in DOMAIN plots' : plots'[i].regions = <<>> \/ plots'[i].regions = Regions
  <2>1. CASE plots' = new BY <1>4, <2>1
  <2>2. CASE plots' = bestEffortRestoreVisibility(new, LastVisible(plots))
    <3>1. PICK f \in [DOMAIN new -> BOOLEAN] : plots' = Reshown(new, f)
      BY <1>4, <2>2, RestoredIs
    <3> QED BY <1>4, <3>1, ReshownIs
  <2> QED BY <1>5, <2>1, <2>2
<1>7. list' \in [DOMAIN plots' -> BOOLEAN] BY <1>5, <1>6, PlotIs
<1>8. FiltersTyped' BY <1>1 DEF IInv, FiltersTyped, PlottersApart
<1>9. PlotsOfData(plots)' BY <1>6 DEF PlotsOfData
<1>10. PaneTyped' BY <1>1, <1>7, <1>9 DEF IInv, PaneTyped
<1>11. ListShowsVisible' BY <1>1, <1>5 DEF ListShowsVisible
<1>12. BoundsRight' BY <1>1 DEF IInv, BoundsRight
<1>13. TableSound' BY <1>1 DEF IInv, TableSound
<1>14. RegionsShown' BY <1>1, <1>6 DEF RegionsShown, Regions, Ranger
<1>15. HeldShown' BY <1>1 DEF IInv, HeldShown
<1> QED BY <1>8, <1>10, <1>11, <1>12, <1>13, <1>14, <1>15 DEF IInv

LEMMA ListStep == ASSUME IInv, NEW n \in DOMAIN list, OnSpectraListbox(n) PROVE IInv'
<1>1. /\ list' = [list EXCEPT ![n] = ~@]
      /\ UNCHANGED <<filterVars, user, axes, mouse, refreshing, still, acts>>
  BY DEF OnSpectraListbox
<1>2. /\ PlotsOfData(plots) /\ list \in [DOMAIN plots -> BOOLEAN] BY DEF IInv, PaneTyped
<1>3. list' \in [DOMAIN plots -> BOOLEAN] BY <1>1, <1>2
<1>4. FiltersTyped' /\ TableSound'
  BY <1>1 DEF IInv, FiltersTyped, PlottersApart, TableSound, filterVars
<1>5. CASE refreshing
  <2>1. odd' = odd \cup {"clicked locked"} /\ plots' = plots /\ rawGrid' = rawGrid
    BY <1>5 DEF OnSpectraListbox
  <2>2. PaneTyped' BY <1>1, <1>3, <2>1 DEF IInv, PaneTyped
  <2>3. ListShowsVisible' BY <2>1 DEF IInv, ListShowsVisible
  <2>4. BoundsRight' /\ RegionsShown' /\ HeldShown'
    BY <1>1, <2>1 DEF IInv, BoundsRight, RegionsShown, Regions, Ranger, HeldShown, filterVars
  <2> QED BY <1>4, <2>2, <2>3, <2>4 DEF IInv
<1>6. CASE ~refreshing
  <2>1. /\ plots' = [k \in DOMAIN plots |-> [plots[k] EXCEPT !.visible = list'[k]]]
        /\ rawGrid' = getRawData(plots')
        /\ odd' = odd \ {"clicked locked"}
    BY <1>6 DEF OnSpectraListbox, updateRawGrid
  <2>2. plots' = Reshown(plots, list') BY <2>1 DEF Reshown
  <2>3. /\ PlotsOfData(plots') /\ DOMAIN plots' = DOMAIN plots
        /\ \A i \in DOMAIN plots : /\ plots'[i].visible = list'[i]
                                   /\ plots'[i].regions = plots[i].regions
    BY <1>2, <1>3, <2>2, ReshownIs
  <2>4. PlotsOfData(plots)' BY <2>3 DEF PlotsOfData
  <2>5. PaneTyped'
    <3>1. PaneTyped BY DEF IInv
    <3>2. list' \in [DOMAIN plots' -> BOOLEAN] BY <1>3, <2>3
    <3> QED BY <1>1, <2>4, <3>1, <3>2 DEF PaneTyped
  <2>6. list' = Selection(plots')
    <3>1. list' = [i \in DOMAIN plots |-> list'[i]] BY <1>3
    <3>2. Selection(plots') = [i \in DOMAIN plots |-> list'[i]] BY <2>3 DEF Selection
    <3> QED BY <3>1, <3>2
  <2>7. ListShowsVisible' BY <2>1, <2>6 DEF ListShowsVisible
  <2>8. BoundsRight' BY <1>1, <2>1 DEF IInv, BoundsRight
  <2>9. RegionsShown'
    BY <1>1, <2>3 DEF IInv, RegionsShown, Regions, Ranger, filterVars
  <2>10. HeldShown'
    <3>1. HeldShown BY DEF IInv
    <3>2. UNCHANGED <<mouse, refreshing, still, outdated>> BY <1>1, <2>1 DEF filterVars
    <3>3. "refreshed held" \in odd <=> "refreshed held" \in odd' BY <2>1
    <3> QED BY ONLY <2>3, <3>1, <3>2, <3>3 DEF HeldShown
  <2> QED BY <1>4, <2>5, <2>7, <2>8, <2>9, <2>10 DEF IInv
<1> QED BY <1>5, <1>6, <1>2 DEF IInv, PaneTyped

-----------------------------------------------------------------------------
(* The bounds and the mouse.                                               *)

UserType == [on : BOOLEAN, x : Interval, y : Interval]

LEMMA BoundsAre ==
    ASSUME PlotsOfData(plots), NEW u \in UserType
    PROVE  /\ getBounds(plots, u) \in Rectangle
           /\ (u.on => Proper(u)) /\ (u.on \/ Visible(plots) # {}) => Proper(getBounds(plots, u))
<1>1. CASE u.on
  <2>1. getBounds(plots, u) = [x |-> u.x, y |-> u.y] BY <1>1 DEF getBounds
  <2> QED BY <1>1, <2>1 DEF UserType, Rectangle, Proper
<1>2. CASE ~u.on
  <2>1. getBounds(plots, u) = scanBounds(plots) BY <1>2 DEF getBounds
  <2> QED BY <1>2, <2>1, ScanIs DEF Rectangle, Proper
<1> QED BY <1>1, <1>2

LEMMA BoundsSet ==
    ASSUME NEW x \in Interval, NEW y \in Interval
    PROVE  /\ setBounds(x, y) \in UserType /\ setBounds(x, y).on
           /\ setBounds(x, y).x = x /\ setBounds(x, y).y = y
BY DEF setBounds, UserType

\* A step that leaves the filters, the plots and the list alone.
LEMMA PaneStep ==
    ASSUME IInv, UNCHANGED <<plotVars, plotters, gen>>, table' \in TableType, TableSound',
           outdated' \in BOOLEAN, user' \in UserType, refreshing' = refreshing,
           axes' = {} \/ \E a \in Rectangle : axes' = {a},
           mouse' \in MouseType, still' \in BOOLEAN, acts' \in 0..MaxActs,
           "clicked locked" \in odd => "clicked locked" \in odd',
           BoundsRight', RegionsShown', HeldShown'
    PROVE  IInv'
<1>1. FiltersTyped' BY DEF IInv, FiltersTyped, PlottersApart
<1>2. PaneTyped' BY DEF IInv, PaneTyped, plotVars, UserType
<1>3. ListShowsVisible' BY DEF IInv, ListShowsVisible, plotVars
<1> QED BY <1>1, <1>2, <1>3 DEF IInv

LEMMA RenderStep == ASSUME IInv, render PROVE IInv'
<1>1. /\ ~Painted /\ user' = Shifted /\ axes' = Drawn
      /\ UNCHANGED <<filterVars, plotVars, mouse, refreshing, still, odd, acts>>
  BY DEF render
<1>2. Visible(plots) # {}
  <2>1. getNumVisible(plots) # 0 BY <1>1 DEF Painted
  <2> QED BY <2>1, FS_EmptySet DEF getNumVisible
<1>3. /\ PlotsOfData(plots) /\ user \in UserType /\ mouse \in MouseType
      /\ axes = {} \/ \E a \in Rectangle : axes = {a}
  BY DEF IInv, PaneTyped, UserType
<1>4. Shown \in Rectangle /\ ((user.on => Proper(user)) => Proper(Shown))
  BY <1>2, <1>3, BoundsAre DEF Shown
<1>5. Shifted \in UserType
      /\ ((user.on => Proper(user)) /\ (mouse.mode = "pan" => mouse.orig[1] < mouse.orig[2])
            => (Shifted.on => Proper(Shifted)))
  <2>1. CASE mouse.mode = "pan"
    <3>1. mouse.by \in Int /\ mouse.orig[1] \in Int /\ mouse.orig[2] \in Int
      BY <1>3, <2>1 DEF MouseType, Idle, Interval
    <3>2. /\ Panned \in Interval /\ Panned[1] = mouse.orig[1] + mouse.by
          /\ Panned[2] = mouse.orig[2] + mouse.by
      <4>1. Panned = <<mouse.orig[1] + mouse.by, mouse.orig[2] + mouse.by>>
        BY DEF Panned
      <4> QED BY <4>1, <3>1 DEF Interval
    <3>3. Shown.y \in Interval BY <1>4 DEF Rectangle
    <3>4. Shifted = setBounds(Panned, Shown.y) BY <2>1 DEF Shifted
    <3>5. /\ Shifted \in UserType /\ Shifted.x = Panned /\ Shifted.y = Shown.y
      BY <3>2, <3>3, <3>4, BoundsSet
    <3> QED BY <1>4, <2>1, <3>1, <3>2, <3>5 DEF Proper
  <2>2. CASE mouse.mode # "pan" BY <1>3, <2>2 DEF Shifted
  <2> QED BY <2>1, <2>2
<1>6. /\ getBounds(plots, Shifted) \in Rectangle
      /\ (Shifted.on => Proper(Shifted)) => Proper(getBounds(plots, Shifted))
  BY <1>2, <1>3, <1>5, BoundsAre
<1> DEFINE default == [x |-> <<-1, 1>>, y |-> <<-1, 1>>]
<1>7. default \in Rectangle /\ Proper(default) BY DEF Rectangle, Interval, Proper
<1>8. Drawn = {getBounds(plots, Shifted)} \/ Drawn = {default} \/ Drawn = axes BY DEF Drawn
<1> HIDE DEF default
<1>9. axes' = {} \/ \E a \in Rectangle : axes' = {a} BY <1>1, <1>3, <1>6, <1>7, <1>8
<1>10. BoundsRight'
  <2> SUFFICES ASSUME odd \cap {"bounds of nothing", "reset below zero"} = {}
               PROVE  /\ user'.on => Proper(user')
                      /\ \A a \in axes' : Proper(a)
                      /\ mouse.mode = "pan" => mouse.orig[1] < mouse.orig[2]
    BY <1>1 DEF BoundsRight, Proper
  <2>1. /\ user.on => Proper(user)
        /\ \A a \in axes : Proper(a)
        /\ mouse.mode = "pan" => mouse.orig[1] < mouse.orig[2]
    BY DEF IInv, BoundsRight
  <2>2. Shifted.on => Proper(Shifted) BY <1>5, <2>1
  <2>3. Proper(getBounds(plots, Shifted)) BY <1>6, <2>2
  <2>4. user'.on => Proper(user') BY <1>1, <2>2
  <2>5. ASSUME NEW a \in Drawn PROVE Proper(a)
    <3>1. a = getBounds(plots, Shifted) \/ a = default \/ a \in axes BY <1>8
    <3>2. CASE a = getBounds(plots, Shifted) BY <2>3, <3>2
    <3>3. CASE a = default BY <1>7, <3>3
    <3>4. CASE a \in axes BY <2>1, <3>4
    <3> QED BY <3>1, <3>2, <3>3, <3>4
  <2>6. \A a \in axes' : Proper(a) BY <1>1, <2>5
  <2> QED BY <2>1, <2>4, <2>6
<1>11. TableSound' /\ RegionsShown' /\ HeldShown'
  BY <1>1 DEF IInv, TableSound, RegionsShown, Regions, Ranger, HeldShown, filterVars, plotVars
<1>12. table' \in TableType /\ outdated' \in BOOLEAN /\ still' \in BOOLEAN
       /\ acts' \in 0..MaxActs /\ mouse' \in MouseType /\ user' \in UserType
  BY <1>1, <1>3, <1>5 DEF IInv, FiltersTyped, PaneTyped, filterVars
<1> QED BY <1>1, <1>9, <1>10, <1>11, <1>12, PaneStep DEF filterVars

LEMMA PointsAre ==
    ASSUME IInv, axes # {}
    PROVE  /\ Axes \in Rectangle /\ axes = {Axes}
           /\ \A p \in InPane : p \in [x : Int, y : Int]
                                /\ p.x \in Xs \cup {Axes.x[1] - 1}
<1>1. PICK a \in Rectangle : axes = {a} BY DEF IInv, PaneTyped
<1>2. Axes = a BY <1>1 DEF Axes
<1>3. Axes.x[1] - 1 \in Int /\ Axes.y[1] - 1 \in Int BY <1>2 DEF Rectangle, Interval
<1>4. ASSUME NEW p \in InPane
      PROVE  p \in [x : Int, y : Int] /\ p.x \in Xs \cup {Axes.x[1] - 1}
  <2>1. PICK x \in Xs \cup {Axes.x[1] - 1}, y \in Ys \cup {Axes.y[1] - 1} :
           p = [x |-> x, y |-> y]
    BY DEF InPane, Points
  <2>2. x \in Int /\ y \in Int BY <1>3, <2>1, BoundsAssumption
  <2> QED BY <2>1, <2>2
<1> QED BY <1>1, <1>2, <1>4

\* A step of the mouse that leaves the filters alone: what is to be shown of it.
LEMMA MouseStep ==
    ASSUME IInv, axes # {}, UNCHANGED <<filterVars, plotVars, refreshing, axes>>,
           user' \in UserType, mouse' \in MouseType, still' \in BOOLEAN, acts' \in 0..MaxActs,
           \A o \in {"clicked locked", "bounds of nothing", "reset below zero"} :
              o \in odd => o \in odd',
           odd' \cap {"bounds of nothing", "reset below zero"} = {} /\ BoundsRight =>
              /\ user'.on => Proper(user')
              /\ mouse'.mode = "pan" => mouse'.orig[1] < mouse'.orig[2],
           HeldShown'
    PROVE  IInv'
<1>1. BoundsRight'
  <2> SUFFICES ASSUME odd' \cap {"bounds of nothing", "reset below zero"} = {}
               PROVE  /\ user'.on => Proper(user')
                      /\ \A a \in axes' : Proper(a)
                      /\ mouse'.mode = "pan" => mouse'.orig[1] < mouse'.orig[2]
    BY DEF BoundsRight, Proper
  <2>1. odd \cap {"bounds of nothing", "reset below zero"} = {} OBVIOUS
  <2>2. BoundsRight BY DEF IInv
  <2>3. \A a \in axes : Proper(a) BY <2>1, <2>2 DEF BoundsRight
  <2> QED BY <2>2, <2>3
<1>2. /\ plotters' = plotters /\ gen' = gen /\ table' = table /\ outdated' = outdated
      /\ plots' = plots
  BY DEF filterVars, plotVars
<1>3. TableSound' /\ RegionsShown'
  BY <1>2 DEF IInv, TableSound, RegionsShown, Regions, Ranger
<1>4. axes' = {} \/ \E a \in Rectangle : axes' = {a} BY DEF IInv, PaneTyped
<1>5. table' \in TableType /\ outdated' \in BOOLEAN BY <1>2 DEF IInv, FiltersTyped
<1>6. "clicked locked" \in odd => "clicked locked" \in odd' OBVIOUS
<1> QED BY <1>1, <1>2, <1>3, <1>4, <1>5, <1>6, PaneStep

LEMMA MovedStep ==
    ASSUME IInv, axes # {}, NEW by \in Shifts, NEW button \in BOOLEAN, mouseMoved(by, button)
    PROVE  IInv'
<1>1. /\ mouse' = IF ~button \/ refreshing THEN Idle ELSE DraggedTo(by)
      /\ still' = (still /\ ~(refreshing /\ mouse.mode = "region"))
      /\ UNCHANGED <<filterVars, plotVars, refreshing, user, axes, odd, acts>>
  BY DEF mouseMoved, PaneEvent
<1>2. /\ mouse \in MouseType /\ still \in BOOLEAN /\ user \in UserType
      /\ acts \in 0..MaxActs
  BY DEF IInv, PaneTyped, UserType
<1>3. by \in Int BY BoundsAssumption
<1>4. /\ DraggedTo(by) \in MouseType /\ DraggedTo(by).mode = mouse.mode
      /\ mouse.mode = "pan" => DraggedTo(by).orig = mouse.orig
      /\ mouse.mode # "pan" => DraggedTo(by) = mouse
  <2>1. CASE mouse.mode = "pan"
    <3>1. mouse \in [mode : {"pan"}, by : Int, orig : Interval]
      BY <1>2, <2>1 DEF MouseType, Idle
    <3> DEFINE new == [mouse EXCEPT !.by = by]
    <3>2. /\ new \in [mode : {"pan"}, by : Int, orig : Interval]
          /\ new.mode = mouse.mode /\ new.orig = mouse.orig
      BY <1>3, <3>1
    <3>3. DraggedTo(by) = new BY <2>1 DEF DraggedTo
    <3> QED BY <2>1, <3>2, <3>3 DEF MouseType
  <2>2. CASE mouse.mode # "pan" BY <1>2, <2>2 DEF DraggedTo
  <2> QED BY <2>1, <2>2
<1>5. mouse' = Idle \/ (~refreshing /\ mouse' = DraggedTo(by)) BY <1>1
<1>6. Idle \in MouseType /\ Idle.mode = "none" BY DEF MouseType, Idle
<1>7. mouse' \in MouseType /\ user' \in UserType /\ acts' \in 0..MaxActs
  BY <1>1, <1>2, <1>4, <1>5, <1>6
<1>8. still' \in BOOLEAN BY <1>1, <1>2
<1>9. odd' \cap {"bounds of nothing", "reset below zero"} = {} /\ BoundsRight =>
         /\ user'.on => Proper(user')
         /\ mouse'.mode = "pan" => mouse'.orig[1] < mouse'.orig[2]
  BY <1>1, <1>4, <1>5, <1>6 DEF BoundsRight
<1>10. HeldShown'
  <2>1. CASE mouse' = Idle BY <2>1, <1>6 DEF HeldShown
  <2>2. CASE ~refreshing /\ mouse' = mouse
    BY <2>2, <1>1 DEF IInv, HeldShown, filterVars, plotVars
  <2>3. CASE ~refreshing /\ mouse' = DraggedTo(by) /\ mouse.mode = "pan"
    BY <2>3, <1>4 DEF HeldShown
  <2> QED BY <2>1, <2>2, <2>3, <1>4, <1>5
<1> QED BY <1>1, <1>7, <1>8, <1>9, <1>10, MouseStep

LEMMA PressIs ==
    ASSUME IInv, Press
    PROVE  /\ UNCHANGED <<plotVars, refreshing>> /\ acts' \in 0..MaxActs
<1>1. acts \in 0..MaxActs BY DEF IInv, PaneTyped
<1> QED BY <1>1, BoundsAssumption DEF Press, PaneEvent

\* The third of a region in which a point of it is.
LEMMA Third ==
    ASSUME NEW a \in Int, NEW d \in Int, 0 < a, a < d
    PROVE  (3 * a) \div d \in 0..2
<1> DEFINE q == (3 * a) \div d
<1>1. q \in Int /\ 3 * a = d * q + ((3 * a) % d) /\ (3 * a) % d \in 0..(d - 1) OBVIOUS
<1> HIDE DEF q
<1>2. d * q <= 3 * a /\ 3 * a < d * q + d BY <1>1
<1>3. q <= 2
  <2> SUFFICES ASSUME q >= 3 PROVE FALSE BY <1>1
  <2>1. d * q >= d * 3 BY <1>1
  <2> QED BY <2>1, <1>2, <1>1
<1>4. q >= 0
  <2> SUFFICES ASSUME q <= -1 PROVE FALSE BY <1>1
  <2>1. d * q <= d * (-1) BY <1>1
  <2> QED BY <2>1, <1>2, <1>1
<1> QED BY <1>1, <1>3, <1>4 DEF q

LEMMA MoveIs ==
    ASSUME NEW r \in RegionType, NEW x \in Int, InRegion(r, x)
    PROVE  computeRegionMoveType(x, r) \in ToSet(Moves)
<1> DEFINE a == x - r.bounds[1]
           d == r.bounds[2] - r.bounds[1]
<1>1. r.bounds[1] \in Int /\ r.bounds[2] \in Int BY DEF RegionType, Interval
<1>2. a \in Int /\ d \in Int /\ 0 < a /\ a < d BY <1>1 DEF InRegion
<1>3. computeRegionMoveType(x, r) = Moves[1 + (3 * a) \div d] BY DEF computeRegionMoveType
<1> HIDE DEF a, d
<1>4. 1 + (3 * a) \div d \in 1..3
  <2> DEFINE q == (3 * a) \div d
  <2>1. q \in 0..2 BY <1>2, Third
  <2> HIDE DEF q
  <2>2. 1 + q \in 1..3 BY <2>1
  <2> QED BY <2>2 DEF q
<1>5. \A n \in 1..3 : Moves[n] \in ToSet(Moves) BY DEF Moves, ToSet
<1> QED BY <1>3, <1>4, <1>5

LEMMA GrabIs ==
    ASSUME IInv, axes # {}, NEW p \in InPane, NEW hit, hit = UnderCursor(p), hit # <<0, 0>>
    PROVE  LET g == Grab(p, hit[1], hit[2]) IN
           /\ g \in MouseType /\ g.mode = "region"
           /\ g.plot \in DOMAIN plots /\ g.region \in DOMAIN plots[g.plot].regions
           /\ plots[g.plot].regions[g.region] = g.was
<1>1. p.x \in Int /\ Axes \in Rectangle BY PointsAre
<1>2. PlotsOfData(plots) BY DEF IInv, PaneTyped
<1>3. hit = getRegionIdAtPosition(plots, p.x) BY DEF UnderCursor
<1> DEFINE i == hit[1]
           k == hit[2]
           region == plots[i].regions[k]
<1>4. i \in DOMAIN plots /\ k \in DOMAIN plots[i].regions /\ InRegion(region, p.x)
  BY <1>1, <1>2, <1>3, HitIs
<1>5. plots[i] \in PlotType /\ i \in Nat
  <2> HIDE DEF i
  <2>1. plots \in Seq(PlotType) BY <1>2 DEF PlotsOfData
  <2> HIDE DEF PlotType
  <2> QED BY <2>1, <1>4
<1>6. region \in RegionType /\ k \in Nat
  <2> DEFINE s == plots[i].regions
  <2>1. s \in Seq(RegionType) BY <1>5 DEF PlotType
  <2>2. k \in DOMAIN s BY <1>4
  <2> HIDE DEF s, k, RegionType
  <2>3. s[k] \in RegionType /\ k \in Nat BY <2>1, <2>2
  <2> QED BY <2>3 DEF s
<1>7. computeRegionMoveType(p.x, region) \in ToSet(Moves) BY <1>1, <1>4, <1>6, MoveIs
<1>8. Grab(p, i, k) = [mode |-> "region", plot |-> i, region |-> k,
                       move |-> computeRegionMoveType(p.x, region), was |-> region,
                       from |-> p.x, on |-> Axes]
  BY DEF Grab
<1> HIDE DEF i, k, region, RegionType
<1>9. Grab(p, i, k) \in [mode : {"region"}, plot : Nat, region : Nat, move : ToSet(Moves),
                         was : RegionType, from : Int, on : Rectangle]
  BY <1>1, <1>5, <1>6, <1>7, <1>8
<1>10. Grab(p, i, k) \in MouseType BY <1>9 DEF MouseType
<1>11. /\ Grab(p, i, k).mode = "region" /\ Grab(p, i, k).plot = i
       /\ Grab(p, i, k).region = k /\ Grab(p, i, k).was = region
  BY <1>8
<1>12. plots[i].regions[k] = region BY DEF region
<1> QED BY <1>4, <1>10, <1>11, <1>12 DEF i, k

LEMMA ShownIs ==
    ASSUME IInv
    PROVE  /\ Shown \in Rectangle
           /\ odd \cap {"bounds of nothing", "reset below zero"} = {}
              /\ getNumVisible(plots) # 0 => Proper(Shown)
<1>1. PlotsOfData(plots) /\ user \in UserType BY DEF IInv, PaneTyped, UserType
<1>2. getNumVisible(plots) # 0 => Visible(plots) # {} BY FS_EmptySet DEF getNumVisible
<1>3. odd \cap {"bounds of nothing", "reset below zero"} = {} => (user.on => Proper(user))
  BY DEF IInv, BoundsRight
<1> QED BY <1>1, <1>2, <1>3, BoundsAre DEF Shown

LEMMA DownStep ==
    ASSUME IInv, axes # {}, NEW p \in InPane, NEW alternate \in BOOLEAN,
           leftMouseDown(p, alternate)
    PROVE  IInv'
<1> DEFINE known == getVisibleMode(plots) \in {"1D", "2D", "none"}
<1>1. /\ Press /\ UNCHANGED <<filterVars, user, axes, still>>
      /\ odd' = (IF known THEN odd \ {"refreshed held"} ELSE odd) \cup
                (IF alternate /\ getNumVisible(plots) = 0 THEN {"bounds of nothing"} ELSE {})
  BY DEF leftMouseDown
<1>2. UNCHANGED <<plotVars, refreshing>> /\ acts' \in 0..MaxActs BY <1>1, PressIs
<1>3. /\ mouse \in MouseType /\ still \in BOOLEAN /\ user \in UserType
      /\ p \in [x : Int, y : Int] /\ refreshing \in BOOLEAN
  BY PointsAre DEF IInv, PaneTyped, UserType
<1>4. \/ alternate /\ mouse' = Pan(p)
      \/ mouse' = Drag(p)
      \/ ~refreshing /\ UnderCursor(p) # <<0, 0>>
         /\ mouse' = Grab(p, UnderCursor(p)[1], UnderCursor(p)[2])
      \/ ~known /\ mouse' = mouse
  <2>1. CASE getVisibleMode(plots) = "1D"
    <3>1. oneDMouseDownAction(p, alternate) BY <2>1 DEF leftMouseDown
    <3> QED BY <3>1 DEF oneDMouseDownAction
  <2>2. CASE getVisibleMode(plots) \in {"2D", "none"}
    <3>1. twoDMouseDownAction(p, alternate) BY <2>2 DEF leftMouseDown
    <3> QED BY <3>1 DEF twoDMouseDownAction
  <2>3. CASE ~known BY <2>3 DEF leftMouseDown
  <2> QED BY <2>1, <2>2, <2>3
<1>5. \A o \in {"clicked locked", "bounds of nothing", "reset below zero"} :
         o \in odd => o \in odd'
  BY <1>1
<1> DEFINE Goal ==
         /\ mouse' \in MouseType /\ HeldShown'
         /\ odd' \cap {"bounds of nothing", "reset below zero"} = {} /\ BoundsRight =>
              (mouse'.mode = "pan" => mouse'.orig[1] < mouse'.orig[2])
<1>6. ASSUME alternate /\ mouse' = Pan(p) PROVE Goal
  <2>1. /\ mouse'.mode = "pan" /\ mouse'.orig = Shown.x
        /\ Pan(p) = [mode |-> "pan", by |-> 0, orig |-> Shown.x]
    BY <1>6 DEF Pan
  <2>2. Shown.x \in Interval BY ShownIs DEF Rectangle
  <2>3. mouse' \in MouseType BY <1>6, <2>1, <2>2 DEF MouseType
  <2>4. HeldShown' BY <2>1 DEF HeldShown
  <2>5. ASSUME odd' \cap {"bounds of nothing", "reset below zero"} = {}
        PROVE  mouse'.orig[1] < mouse'.orig[2]
    <3>1. odd \cap {"bounds of nothing", "reset below zero"} = {} /\ getNumVisible(plots) # 0
      BY <1>1, <1>6, <2>5
    <3> QED BY <2>1, <3>1, ShownIs DEF Proper
  <2> QED BY <2>3, <2>4, <2>5
<1>7. ASSUME mouse' = Drag(p) PROVE Goal
  <2>1. mouse'.mode = "drag" /\ Drag(p) = [mode |-> "drag", start |-> p] BY <1>7 DEF Drag
  <2>2. mouse' \in MouseType BY <1>3, <1>7, <2>1 DEF MouseType
  <2> QED BY <2>1, <2>2 DEF HeldShown
<1>8. ASSUME ~refreshing /\ UnderCursor(p) # <<0, 0>>
             /\ mouse' = Grab(p, UnderCursor(p)[1], UnderCursor(p)[2])
      PROVE  Goal
  <2>1. /\ mouse' \in MouseType /\ mouse'.mode = "region"
        /\ mouse'.plot \in DOMAIN plots /\ mouse'.region \in DOMAIN plots[mouse'.plot].regions
        /\ plots[mouse'.plot].regions[mouse'.region] = mouse'.was
    BY <1>8, GrabIs
  <2>2. plots' = plots /\ ~refreshing' BY <1>2, <1>8 DEF plotVars
  <2>3. HeldShown' BY <2>1, <2>2 DEF HeldShown
  <2> QED BY <2>1, <2>3
<1>9. ASSUME ~known /\ mouse' = mouse PROVE Goal
  <2>1. "refreshed held" \notin odd' => "refreshed held" \notin odd BY <1>1, <1>9
  <2>2. HeldShown'
    BY <1>1, <1>2, <1>9, <2>1 DEF IInv, HeldShown, filterVars, plotVars
  <2>3. odd' \cap {"bounds of nothing", "reset below zero"} = {}
          => odd \cap {"bounds of nothing", "reset below zero"} = {}
    BY <1>1
  <2> QED BY <1>3, <1>9, <2>2, <2>3 DEF BoundsRight
<1>10. Goal BY <1>4, <1>6, <1>7, <1>8, <1>9
<1>11. odd' \cap {"bounds of nothing", "reset below zero"} = {} /\ BoundsRight =>
          (user'.on => Proper(user'))
  BY <1>1, <1>5 DEF BoundsRight
<1>12. user' \in UserType /\ still' \in BOOLEAN BY <1>1, <1>3
<1> HIDE DEF known
<1> QED BY <1>1, <1>2, <1>5, <1>10, <1>11, <1>12, MouseStep

\* A drag of the mouse ends in bounds that are proper when those drawn are.
LEMMA SpanIs ==
    ASSUME NEW a \in Int, NEW b \in Int
    PROVE  Span(a, b) \in Interval /\ Span(a, b)[1] <= Span(a, b)[2]
<1>1. CASE a <= b
  <2>1. Span(a, b) = <<a, b>> BY <1>1, OfTwo DEF Span
  <2> QED BY <1>1, <2>1 DEF Interval
<1>2. CASE ~(a <= b)
  <2>1. Span(a, b) = <<b, a>> BY <1>2, OfTwo DEF Span
  <2> QED BY <1>2, <2>1 DEF Interval
<1> QED BY <1>1, <1>2

LEMMA DragIs ==
    ASSUME IInv, axes # {}, mouse.mode = "drag", NEW p \in InPane, updateDragPos(p)
    PROVE  /\ user' \in UserType
           /\ (user.on => Proper(user)) /\ Proper(Axes) => (user'.on => Proper(user'))
<1> DEFINE s == mouse.start
           bothX == Low(s).x /\ Low(p).x
           bothY == Low(s).y /\ Low(p).y
           x == IF bothX THEN Axes.x ELSE Span(s.x, p.x)
           y == IF bothY /\ ~bothX THEN Axes.y ELSE Span(s.y, p.y)
<1>1. /\ mouse \in MouseType /\ user \in UserType /\ p \in [x : Int, y : Int]
      /\ Axes \in Rectangle
  BY PointsAre DEF IInv, PaneTyped, UserType
<1>2. s \in [x : Int, y : Int] BY <1>1 DEF MouseType, Idle
<1>3. user' = IF (bothX /\ bothY) \/ x[1] = x[2] \/ y[1] = y[2] THEN user ELSE setBounds(x, y)
  BY DEF updateDragPos
<1>4. x \in Interval /\ (Proper(Axes) => x[1] <= x[2])
  <2>1. Span(s.x, p.x) \in Interval /\ Span(s.x, p.x)[1] <= Span(s.x, p.x)[2]
    BY <1>1, <1>2, SpanIs
  <2>2. Axes.x \in Interval /\ (Proper(Axes) => Axes.x[1] <= Axes.x[2])
    BY <1>1 DEF Rectangle, Proper, Interval
  <2> QED BY <2>1, <2>2
<1>5. y \in Interval /\ (Proper(Axes) => y[1] <= y[2])
  <2>1. Span(s.y, p.y) \in Interval /\ Span(s.y, p.y)[1] <= Span(s.y, p.y)[2]
    BY <1>1, <1>2, SpanIs
  <2>2. Axes.y \in Interval /\ (Proper(Axes) => Axes.y[1] <= Axes.y[2])
    BY <1>1 DEF Rectangle, Proper, Interval
  <2> QED BY <2>1, <2>2
<1> HIDE DEF x, y, s
<1>6. CASE user' = user BY <1>1, <1>6
<1>7. CASE user' = setBounds(x, y) /\ x[1] # x[2]
  <2>1. /\ user' \in UserType /\ user'.x = x /\ user'.y = y
    BY <1>4, <1>5, <1>7, BoundsSet
  <2>2. x[1] \in Int /\ x[2] \in Int BY <1>4 DEF Interval
  <2> QED BY <1>4, <1>5, <1>7, <2>1, <2>2 DEF Proper
<1> QED BY <1>3, <1>6, <1>7

LEMMA HeldTyped ==
    ASSUME mouse \in MouseType, mouse.mode = "region"
    PROVE  mouse.move \in ToSet(Moves) /\ mouse.from \in Int
BY DEF MouseType, Idle

\* What the filter does when its region is moved.
LEMMA TableMoved ==
    ASSUME IInv, mouse.mode = "region", NEW p \in [x : Int, y : Int], moveRegion(p)
    PROVE  table' \in TableType /\ TableSound'
<1>1. table \in TableType /\ TableSound /\ mouse \in MouseType
  BY DEF IInv, FiltersTyped, PaneTyped
<1>2. mouse.move \in ToSet(Moves) BY <1>1, HeldTyped
<1>3. CASE table' = table BY <1>1, <1>3 DEF TableSound
<1>4. CASE table' # table
  <2> DEFINE id == plots[mouse.plot].regions[mouse.region].id
  <2>1. /\ id \in DOMAIN table.ranges
        /\ table' = setPropFromRegion(table, id, mouse.move, p.x)
    BY <1>4 DEF moveRegion, Reachable
  <2> HIDE DEF id
  <2>2. PICK r \in Interval :
           /\ table' = [table EXCEPT !.ranges[id] = r]
           /\ Sound(table) /\ table.enforceConsistency => GoesTo(table, id, r)
    BY <1>1, <1>2, <1>4, <2>1, RegionMoves
  <2>3. table' \in TableType /\ table'.enforceConsistency = table.enforceConsistency
    BY <1>1, <2>1, <2>2, RangePut
  <2>4. table.enforceConsistency => Sound(table')
    BY <1>1, <2>1, <2>2, GoesToSound DEF TableSound
  <2>5. TableSound' BY <2>3, <2>4 DEF TableSound
  <2> QED BY <2>3, <2>5
<1> QED BY <1>3, <1>4

LEMMA ReleasedStep ==
    ASSUME IInv, axes # {}, NEW p \in InPane, leftMouseReleased(p) PROVE IInv'
<1>1. /\ UNCHANGED <<plotVars, refreshing, plotters, gen, axes, still, acts>>
      /\ mouse' = Idle /\ odd' = odd \ {"refreshed held"}
      /\ mouse.mode = "drag" => updateDragPos(p)
      /\ mouse.mode # "drag" => user' = user
      /\ mouse.mode = "region" /\ ~refreshing => moveRegion(p) /\ outdated' = TRUE
      /\ ~(mouse.mode = "region" /\ ~refreshing) => table' = table /\ outdated' = outdated
  BY DEF leftMouseReleased, PaneEvent
<1>2. /\ user \in UserType /\ still \in BOOLEAN /\ acts \in 0..MaxActs
      /\ table \in TableType /\ outdated \in BOOLEAN
      /\ p \in [x : Int, y : Int] /\ axes = {Axes}
  BY PointsAre DEF IInv, FiltersTyped, PaneTyped, UserType
<1>3. /\ user' \in UserType
      /\ (user.on => Proper(user)) /\ Proper(Axes) => (user'.on => Proper(user'))
  BY <1>1, <1>2, DragIs
<1>4. Idle \in MouseType /\ Idle.mode = "none" BY DEF MouseType, Idle
<1>5. BoundsRight'
  <2> SUFFICES ASSUME odd' \cap {"bounds of nothing", "reset below zero"} = {}
               PROVE  /\ user'.on => Proper(user')
                      /\ \A a \in axes' : Proper(a)
                      /\ mouse'.mode = "pan" => mouse'.orig[1] < mouse'.orig[2]
    BY DEF BoundsRight, Proper
  <2>1. odd \cap {"bounds of nothing", "reset below zero"} = {} BY <1>1
  <2>2. (user.on => Proper(user)) /\ \A a \in axes : Proper(a)
    BY <2>1 DEF IInv, BoundsRight
  <2>3. Proper(Axes) BY <1>2, <2>2
  <2> QED BY <1>1, <1>3, <1>4, <2>2, <2>3
<1>6. table' \in TableType /\ TableSound' /\ RegionsShown' /\ outdated' \in BOOLEAN
  <2>1. outdated' \in BOOLEAN BY <1>1, <1>2
  <2>2. CASE mouse.mode = "region" /\ ~refreshing
    <3>1. table' \in TableType /\ TableSound' BY <1>1, <1>2, <2>2, TableMoved
    <3>2. RegionsShown' BY <1>1, <2>2 DEF RegionsShown
    <3> QED BY <2>1, <3>1, <3>2
  <2>3. CASE ~(mouse.mode = "region" /\ ~refreshing)
    <3>1. table' = table /\ outdated' = outdated /\ plots' = plots /\ gen' = gen
      BY <1>1, <2>3 DEF plotVars
    <3>2. TableSound' /\ RegionsShown'
      BY <3>1 DEF IInv, TableSound, RegionsShown, Regions, Ranger
    <3> QED BY <1>2, <2>1, <3>1, <3>2
  <2> QED BY <2>2, <2>3
<1>7. HeldShown' BY <1>1, <1>4 DEF HeldShown
<1>8. axes' = {} \/ \E a \in Rectangle : axes' = {a} BY <1>1 DEF IInv, PaneTyped
<1>9. still' \in BOOLEAN /\ acts' \in 0..MaxActs /\ mouse' \in MouseType
  BY <1>1, <1>2, <1>4
<1> QED BY <1>1, <1>3, <1>5, <1>6, <1>7, <1>8, <1>9, PaneStep

\* What a reset makes of one axis.
LEMMA ResetIs ==
    ASSUME IInv, NEW xBound \in BOOLEAN
    PROVE  LET new == disableUserAxisBounds(plots, user, xBound) IN
           /\ new \in UserType
           /\ (user.on => Proper(user)) /\ getNumVisible(plots) # 0
              /\ (xBound \/ ~(scanBounds(plots).y[2] < 0))
                 => (new.on => Proper(new))
<1> DEFINE all == scanBounds(plots)
           xs == [user EXCEPT !.x = all.x]
           low == Max({0, all.y[1]})
           ys == [user EXCEPT !.y = <<low, all.y[2]>>]
           set == disableUserAxisBounds(plots, user, xBound)
<1>1. PlotsOfData(plots) /\ user \in UserType BY DEF IInv, PaneTyped, UserType
<1>2. /\ all.x \in Interval /\ all.y \in Interval
      /\ getNumVisible(plots) # 0 => Proper(all)
  <2>1. getNumVisible(plots) # 0 => Visible(plots) # {} BY FS_EmptySet DEF getNumVisible
  <2> QED BY <1>1, <2>1, ScanIs DEF Proper
<1>3. set = NoUserBounds \/ (user.on /\ xBound /\ set = xs) \/ (user.on /\ ~xBound /\ set = ys)
  BY DEF disableUserAxisBounds
<1> HIDE DEF all
<1>4. all.y[1] \in Int /\ all.y[2] \in Int BY <1>2 DEF Interval
<1>5. low \in Int /\ (low = 0 \/ low = all.y[1])
  <2> DEFINE b == all.y[1]
  <2>1. b \in Int BY <1>4
  <2> HIDE DEF b
  <2>2. 0 \in Int OBVIOUS
  <2>3. Max({0, b}) = IF 0 <= b THEN b ELSE 0 BY <2>1, <2>2, OfTwo
  <2> QED BY <2>1, <2>3 DEF b
<1> HIDE DEF low
<1>6. <<low, all.y[2]>> \in Interval BY <1>4, <1>5 DEF Interval
<1>7. /\ xs \in UserType /\ xs.x = all.x /\ xs.y = user.y /\ xs.on = user.on
      /\ ys \in UserType /\ ys.x = user.x /\ ys.y = <<low, all.y[2]>> /\ ys.on = user.on
  BY <1>1, <1>2, <1>6 DEF UserType
<1> HIDE DEF xs, ys, set
<1>8. CASE set = NoUserBounds
  <2>1. NoUserBounds \in UserType /\ ~NoUserBounds.on BY DEF NoUserBounds, UserType, Interval
  <2> QED BY <1>8, <2>1 DEF set
<1>9. CASE user.on /\ xBound /\ set = xs
  BY <1>2, <1>7, <1>9 DEF set, Proper
<1>10. CASE user.on /\ ~xBound /\ set = ys
  <2>1. ASSUME Proper(all), ~(all.y[2] < 0) PROVE low <= all.y[2]
    BY <1>4, <1>5, <2>1 DEF Proper
  <2>2. Proper(user) /\ Proper(all) /\ ~(all.y[2] < 0) => Proper(ys)
    BY <1>7, <2>1 DEF Proper
  <2> QED BY <1>2, <1>7, <1>10, <2>2 DEF set, all
<1> QED BY <1>3, <1>8, <1>9, <1>10

LEMMA DoubleStep ==
    ASSUME IInv, axes # {}, NEW p \in InPane, mouseDoubleLeftClick(p) PROVE IInv'
<1> DEFINE one == Low(p).x # Low(p).y
<1>1. /\ Press /\ UNCHANGED <<filterVars, axes, still>> /\ mouse' = Idle
      /\ user' = IF one THEN disableUserAxisBounds(plots, user, Low(p).y) ELSE NoUserBounds
      /\ odd' = (odd \ {"refreshed held"}) \cup
                (IF one /\ getNumVisible(plots) = 0 THEN {"bounds of nothing"} ELSE {}) \cup
                (IF one /\ Low(p).x /\ scanBounds(plots).y[2] < 0
                 THEN {"reset below zero"} ELSE {})
  BY DEF mouseDoubleLeftClick, disableUserBounds
<1>2. UNCHANGED <<plotVars, refreshing>> /\ acts' \in 0..MaxActs BY <1>1, PressIs
<1>3. Low(p).x \in BOOLEAN /\ Low(p).y \in BOOLEAN BY DEF Low
<1>4. NoUserBounds \in UserType /\ ~NoUserBounds.on BY DEF NoUserBounds, UserType, Interval
<1>5. user' \in UserType BY <1>1, <1>3, <1>4, ResetIs
<1>6. ASSUME odd' \cap {"bounds of nothing", "reset below zero"} = {}, BoundsRight
      PROVE  user'.on => Proper(user')
  <2>1. odd \cap {"bounds of nothing", "reset below zero"} = {} BY <1>1, <1>6
  <2>2. user.on => Proper(user) BY <1>6, <2>1 DEF BoundsRight
  <2>3. CASE one
    <3>1. getNumVisible(plots) # 0 /\ (Low(p).x => ~(scanBounds(plots).y[2] < 0))
      BY <1>1, <1>6, <2>3
    <3>2. Low(p).y \/ Low(p).x BY <1>3, <2>3
    <3>3. user' = disableUserAxisBounds(plots, user, Low(p).y) BY <1>1, <2>3
    <3> QED BY <1>3, <2>2, <3>1, <3>2, <3>3, ResetIs
  <2>4. CASE ~one BY <1>1, <1>4, <2>4
  <2> QED BY <2>3, <2>4
<1>7. mouse' \in MouseType /\ mouse'.mode = "none" /\ HeldShown'
  BY <1>1 DEF MouseType, Idle, HeldShown
<1>8. \A o \in {"clicked locked", "bounds of nothing", "reset below zero"} :
         o \in odd => o \in odd'
  BY <1>1
<1>9. still' \in BOOLEAN BY <1>1 DEF IInv, PaneTyped
<1> HIDE DEF one
<1> QED BY <1>1, <1>2, <1>5, <1>6, <1>7, <1>8, <1>9, MouseStep

LEMMA WheelStep ==
    ASSUME IInv, axes # {}, NEW p \in InPane, NEW zoomIn \in BOOLEAN,
           mouseWheelMoved(p, zoomIn)
    PROVE  IInv'
<1> DEFINE all == scanBounds(plots)
           x == IF Low(p).x THEN Shown.x ELSE Within(Zoomed(Shown.x, p.x, zoomIn), all.x)
           y == IF Low(p).y THEN Shown.y ELSE Within(Zoomed(Shown.y, p.y, zoomIn), all.y)
<1>1. /\ Press /\ mouse.mode = "none" /\ UNCHANGED <<filterVars, axes, mouse, still, odd>>
      /\ user' = IF x[1] >= x[2] \/ y[1] >= y[2] \/ (Low(p).x /\ Low(p).y) THEN user
                 ELSE setBounds(x, y)
  BY DEF mouseWheelMoved
<1>2. UNCHANGED <<plotVars, refreshing>> /\ acts' \in 0..MaxActs BY <1>1, PressIs
<1>3. /\ PlotsOfData(plots) /\ user \in UserType /\ mouse \in MouseType /\ still \in BOOLEAN
      /\ p \in [x : Int, y : Int]
  BY PointsAre DEF IInv, PaneTyped, UserType
<1>4. all.x \in Interval /\ all.y \in Interval BY <1>3, ScanIs
<1>5. Shown.x \in Interval /\ Shown.y \in Interval BY ShownIs DEF Rectangle
<1>6. ASSUME NEW b \in Interval, NEW c \in Interval, NEW centre \in Int
      PROVE  Within(Zoomed(b, centre, zoomIn), c) \in Interval
  <2> DEFINE z == Zoomed(b, centre, zoomIn)
  <2>1. b[1] \in Int /\ b[2] \in Int /\ c[1] \in Int /\ c[2] \in Int BY DEF Interval
  <2>2. z[1] \in Int /\ z[2] \in Int BY <2>1 DEF Zoomed
  <2> HIDE DEF z
  <2>3. Max({z[1], c[1]}) \in Int /\ Min({z[2], c[2]}) \in Int
    <3>1. Max({z[1], c[1]}) = IF z[1] <= c[1] THEN c[1] ELSE z[1] BY <2>1, <2>2, OfTwo
    <3>2. Min({z[2], c[2]}) = IF z[2] <= c[2] THEN z[2] ELSE c[2] BY <2>1, <2>2, OfTwo
    <3> QED BY <2>1, <2>2, <3>1, <3>2
  <2> QED BY <2>3 DEF Within, Interval, z
<1>7. x \in Interval /\ y \in Interval BY <1>3, <1>4, <1>5, <1>6
<1> HIDE DEF x, y, all
<1>8. user' \in UserType /\ (user'.on => Proper(user') \/ (user' = user))
  <2>1. CASE user' = user BY <1>3, <2>1
  <2>2. CASE user' = setBounds(x, y) /\ ~(x[1] >= x[2] \/ y[1] >= y[2])
    <3>1. user' \in UserType /\ user'.x = x /\ user'.y = y BY <1>7, <2>2, BoundsSet
    <3>2. x[1] \in Int /\ x[2] \in Int /\ y[1] \in Int /\ y[2] \in Int BY <1>7 DEF Interval
    <3> QED BY <2>2, <3>1, <3>2 DEF Proper
  <2> QED BY <1>1, <2>1, <2>2
<1>9. odd' \cap {"bounds of nothing", "reset below zero"} = {} /\ BoundsRight =>
         /\ user'.on => Proper(user')
         /\ mouse'.mode = "pan" => mouse'.orig[1] < mouse'.orig[2]
  BY <1>1, <1>8 DEF BoundsRight
<1>10. HeldShown' BY <1>1 DEF HeldShown
<1> QED BY <1>1, <1>2, <1>3, <1>8, <1>9, <1>10, MouseStep

-----------------------------------------------------------------------------
(* What is proved of every behaviour.                                      *)

LEMMA StepOK == IInv /\ [Next]_vars => IInv'
<1> SUFFICES ASSUME IInv, [Next]_vars PROVE IInv' OBVIOUS
<1>1. CASE \/ \E slot \in Slots, type \in Types : AddPlotter(slot, type)
           \/ \E i \in DOMAIN plotters : RemovePlotter(i)
           \/ \E i \in DOMAIN plotters, type \in Types, many \in BOOLEAN :
                 SetPlotter(i, type, many)
           \/ \E t \in Tables : EditTable(t)
           \/ \E t \in Tables : EditUndo(t)
  BY <1>1, FilterSteps
<1>2. CASE StartRefresh BY <1>2, StartStep
<1>3. CASE FinishRefresh BY <1>3, FinishStep
<1>4. CASE FailRefresh BY <1>4, FailStep
<1>5. CASE render BY <1>5, RenderStep
<1>6. CASE UserSteps BY <1>6, ListStep, MovedStep, DownStep, ReleasedStep, DoubleStep, WheelStep
           DEF UserSteps
<1>7. CASE UNCHANGED vars
  <2>1. UNCHANGED <<filterVars, plotVars, user, axes, mouse, refreshing, still, odd, acts>>
    BY <1>7 DEF vars
  <2>2. FiltersTyped' /\ PaneTyped'
    BY <2>1 DEF IInv, FiltersTyped, PlottersApart, PaneTyped, filterVars, plotVars
  <2>3. ListShowsVisible' /\ BoundsRight' /\ TableSound' /\ RegionsShown' /\ HeldShown'
    BY <2>1 DEF IInv, ListShowsVisible, BoundsRight, TableSound, RegionsShown, Regions, Ranger,
                HeldShown, filterVars, plotVars
  <2> QED BY <2>2, <2>3 DEF IInv
<1> QED BY <1>1, <1>2, <1>3, <1>4, <1>5, <1>6, <1>7 DEF Next

LEMMA Invariant == Spec => []IInv
BY InitOK, StepOK, PTL DEF Spec

(* The pane can show what the list says, and the grid has the numbers of    *)
(* the plots that are shown (updateScene, OnSpectraListbox, the mouse of    *)
(* MathGLPane): for any filters, data and positions of the mouse.           *)
THEOREM PaneAgrees == Spec => []PaneShowsPlots
<1>1. IInv => PaneShowsPlots
  <2> SUFFICES ASSUME IInv PROVE PaneShowsPlots OBVIOUS
  <2>1. \A i \in DOMAIN plotters : plotters[i].at \in Slots /\ plotters[i].type \in Types
    <3>1. plotters \in Seq(PlotterType) BY DEF IInv, FiltersTyped, PlottersApart
    <3>2. \A i \in DOMAIN plotters : plotters[i] \in PlotterType
      <4> HIDE DEF PlotterType
      <4> QED BY <3>1
    <3> QED BY <3>2 DEF PlotterType
  <2>2. Cardinality(axes) <= 1
    <3>1. axes = {} \/ \E a \in Rectangle : axes = {a} BY DEF IInv, PaneTyped
    <3> QED BY <3>1, FS_EmptySet, FS_Singleton
  <2>3. mouse.mode \in {"none", "drag", "pan", "region"}
    <3>1. mouse \in MouseType BY DEF IInv, PaneTyped
    <3> QED BY <3>1 DEF MouseType, Idle
  <2>4. TypeOK BY <2>1, <2>2, <2>3 DEF IInv, FiltersTyped, PaneTyped, TypeOK
  <2>5. BoundsProper BY DEF IInv, BoundsRight, BoundsProper, Proper
  <2> QED BY <2>4, <2>5 DEF IInv, PaneShowsPlots
<1> QED BY <1>1, Invariant, PTL

LEMMA NoneIn == \A k : k \notin DOMAIN <<>>
OBVIOUS

LEMMA HeldIs == IInv => HeldRegionIsItsRange
<1> SUFFICES ASSUME IInv, mouse.mode = "region", "refreshed held" \notin odd, ~outdated
             PROVE  /\ Reachable
                    /\ plots[mouse.plot].regions[mouse.region] = mouse.was
                    /\ mouse.was.bounds = table.ranges[mouse.was.id]
  BY DEF HeldRegionIsItsRange
<1> DEFINE i == mouse.plot
           k == mouse.region
<1>1. /\ i \in DOMAIN plots /\ k \in DOMAIN plots[i].regions
      /\ plots[i].regions[k] = mouse.was
  BY DEF IInv, HeldShown
<1>2. plots[i].regions = <<>> \/ plots[i].regions = Regions
  BY <1>1 DEF IInv, RegionsShown
<1>3. plots[i].regions = Regions
  <2> DEFINE r == plots[i].regions
  <2>1. k \in DOMAIN r /\ (r = <<>> \/ r = Regions) BY <1>1, <1>2
  <2> HIDE DEF r, k
  <2> QED BY <2>1, NoneIn DEF r
<1>4. k \in DOMAIN table.ranges BY <1>1, <1>3 DEF Regions
<1>5. mouse.was = [bounds |-> table.ranges[k], id |-> k, parent |-> Ranger]
  BY <1>1, <1>3, <1>4 DEF Regions
<1>6. mouse.was.parent = Ranger /\ mouse.was.id = k /\ mouse.was.bounds = table.ranges[k]
  <2> DEFINE w == [bounds |-> table.ranges[k], id |-> k, parent |-> Ranger]
  <2>1. w.parent = Ranger /\ w.id = k /\ w.bounds = table.ranges[k] OBVIOUS
  <2>2. mouse.was = w BY <1>5
  <2> HIDE DEF w
  <2> QED BY <2>1, <2>2
<1>7. Reachable BY <1>1, <1>4, <1>6 DEF Reachable
<1>8. mouse.was.bounds = table.ranges[mouse.was.id] BY <1>6
<1> QED BY <1>1, <1>7, <1>8

(* The region that is held stands for the range that a release would move,  *)
(* and is where the range is (leftMouseDown, leftMouseReleased): the regions *)
(* of a plot are those of the table while nothing is outdated.              *)
THEOREM HeldIsRange == Spec => []HeldRegionIsItsRange
BY Invariant, HeldIs, PTL

LEMMA FinishKeeps ==
    ASSUME IInv, FinishRefresh, Len(plots') > 1, NEW i \in DOMAIN plots'
    PROVE  plots'[i].visible <=>
              \E k \in Visible(plots) : /\ plots[k].parent = plots'[i].parent
                                        /\ plots[k].index = plots'[i].index
<1>1. PICK modes \in [Types -> {"1D", "2D", "none"}] :
         (\A t \in Types : modes[t] \in PlotModes(t)) /\ updateScene(NewPlots(modes))
  BY DEF FinishRefresh
<1> DEFINE new == NewPlots(modes)
<1>2. /\ PlotsOfData(new)
      /\ \A j, k \in DOMAIN new :
            new[j].parent = new[k].parent /\ new[j].index = new[k].index => j = k
  BY <1>1, NewPlotsAre DEF IInv, FiltersTyped
<1>3. plots' = IF Len(new) > 1 THEN bestEffortRestoreVisibility(new, LastVisible(plots)) ELSE new
  BY <1>1 DEF updateScene
<1> HIDE DEF new
<1>4. PICK f \in [DOMAIN new -> BOOLEAN] :
         /\ bestEffortRestoreVisibility(new, LastVisible(plots)) = Reshown(new, f)
         /\ \A j \in DOMAIN new : f[j] <=> <<new[j].parent, new[j].index>> \in LastVisible(plots)
  BY <1>2, RestoredIs
<1>5. plots' = Reshown(new, f) BY <1>3, <1>4
<1>6. /\ i \in DOMAIN new /\ plots'[i].visible = f[i]
      /\ plots'[i].parent = new[i].parent /\ plots'[i].index = new[i].index
  BY <1>2, <1>4, <1>5, ReshownIs
<1>7. f[i] <=> \E k \in Visible(plots) :
                  <<plots[k].parent, plots[k].index>> = <<new[i].parent, new[i].index>>
  BY <1>4, <1>6 DEF LastVisible
<1>8. \A k \in Visible(plots) :
         <<plots[k].parent, plots[k].index>> = <<new[i].parent, new[i].index>>
         <=> plots[k].parent = new[i].parent /\ plots[k].index = new[i].index
  OBVIOUS
<1> QED BY <1>6, <1>7, <1>8

(* A refresh leaves visible what was (bestEffortRestoreVisibility), however *)
(* many plots there are: no two of them are of one filter and one index.    *)
THEOREM VisibleStays == Spec => VisibilityKept
<1>1. IInv /\ [Next]_vars =>
        [plots' # plots /\ refreshing /\ Len(plots') > 1 =>
          \A i \in DOMAIN plots' : plots'[i].parent \notin since =>
             (plots'[i].visible <=>
                \E k \in Visible(plots) : /\ plots[k].parent = plots'[i].parent
                                          /\ plots[k].index = plots'[i].index)]_vars
  <2> SUFFICES ASSUME IInv, Next, plots' # plots, refreshing, Len(plots') > 1
               PROVE  \A i \in DOMAIN plots' :
                         plots'[i].visible <=>
                            \E k \in Visible(plots) : /\ plots[k].parent = plots'[i].parent
                                                      /\ plots[k].index = plots'[i].index
    OBVIOUS
  <2>1. ~render /\ ~StartRefresh /\ ~FailRefresh
    BY DEF render, StartRefresh, FailRefresh, plotVars
  <2>2. \A n \in DOMAIN list : ~OnSpectraListbox(n) BY DEF OnSpectraListbox
  <2>3. ~UserSteps
    BY <2>2 DEF UserSteps, mouseMoved, leftMouseDown, leftMouseReleased, mouseDoubleLeftClick,
                mouseWheelMoved, Press, PaneEvent, plotVars
  <2>4. ~Edit BY DEF Edit
  <2>5. FinishRefresh
    BY <2>1, <2>3, <2>4 DEF Next, AddPlotter, RemovePlotter, SetPlotter, EditTable, EditUndo
  <2> QED BY <2>5, FinishKeeps
<1> QED BY <1>1, Invariant, PTL DEF Spec, VisibilityKept

\* Where a range goes whose region is moved, and from where.
LEMMA MoveShown ==
    ASSUME NEW t \in TableType, Sound(t), t.enforceConsistency, NEW n \in DOMAIN t.ranges,
           NEW move \in ToSet(Moves), NEW x \in Int,
           NEW u, u = setPropFromRegion(t, n, move, x), u # t,
           NEW regions, DOMAIN regions = DOMAIN t.ranges,
           \A j \in DOMAIN regions : regions[j].bounds = t.ranges[j]
    PROVE  /\ u.ranges[n] \in Interval
           /\ MovedTo(t.ranges[n], move, x, u.ranges[n])
           /\ findRegionLimit(regions, n, move, x) = x
<1>1. PICK r \in Interval :
         /\ u = [t EXCEPT !.ranges[n] = r]
         /\ GoesTo(t, n, r) /\ MovedTo(t.ranges[n], move, x, r)
  BY RegionMoves
<1>2. findRegionLimit(regions, n, move, x) = x BY <1>1, LimitShown
<1>3. u.ranges[n] = r
  <2>1. [t.ranges EXCEPT ![n] = r][n] = r OBVIOUS
  <2>2. [t EXCEPT !.ranges[n] = r].ranges = [t.ranges EXCEPT ![n] = r] BY RangePut
  <2> QED BY <1>1, <2>1, <2>2
<1> QED BY <1>1, <1>2, <1>3

\* A range that is moved as a whole keeps its width, if that has a half.
LEMMA MovedWhole ==
    ASSUME NEW t \in TableType, NEW n \in DOMAIN t.ranges, NEW x \in Int, NEW from \in Int,
           2 * from = t.ranges[n][1] + t.ranges[n][2],
           NEW u, u = setPropFromRegion(t, n, "TRANSLATE_X", x), u # t
    PROVE  u.ranges[n] = <<t.ranges[n][1] + (x - from), t.ranges[n][2] + (x - from)>>
<1> DEFINE me == t.ranges[n]
           half == (me[2] - me[1] + 1) \div 2
           r == <<x - half, x + half>>
<1>1. me \in Interval /\ me[1] \in Int /\ me[2] \in Int BY DEF TableType, Interval
<1>2. u = [t EXCEPT !.ranges[n] = r] BY DEF setPropFromRegion, moveBothRanges
<1>3. half = me[2] - from /\ half = from - me[1]
  <2> DEFINE a == me[1]
             b == me[2]
  <2>1. a \in Int /\ b \in Int /\ 2 * from = a + b BY <1>1
  <2> HIDE DEF a, b, me
  <2>2. (b - a + 1) \div 2 = b - from /\ b - from = from - a BY <2>1
  <2> QED BY <2>2 DEF a, b
<1>4. u.ranges[n] = r
  <2>1. r \in Interval
    <3>1. x - half \in Int /\ x + half \in Int BY <1>1, <1>3
    <3> QED BY <3>1 DEF Interval
  <2> HIDE DEF r
  <2>2. [t.ranges EXCEPT ![n] = r][n] = r OBVIOUS
  <2>3. [t EXCEPT !.ranges[n] = r].ranges = [t.ranges EXCEPT ![n] = r] BY <2>1, RangePut
  <2> QED BY <1>2, <2>2, <2>3
<1>5. x - half = me[1] + (x - from) /\ x + half = me[2] + (x - from)
  <2> HIDE DEF half, me
  <2> QED BY <1>1, <1>3
<1> QED BY <1>4, <1>5

LEMMA ReleaseMoves ==
    ASSUME IInv, axes # {}, NEW p \in InPane, Released(p)
    PROVE  LET shown == drawRegionDraggingOverlay(p) IN
           CASE mouse.move = "EXTEND_XMINUS" -> Result[1] = shown.limit
             [] mouse.move = "TRANSLATE_X" -> /\ Result[1] + Result[2] = 2 * shown.limit
                                              /\ HeldInMiddle => Result = shown.bars
             [] mouse.move = "EXTEND_XPLUS" -> Result[2] = shown.limit
<1>1. /\ leftMouseReleased(p) /\ table' # table /\ mouse.mode = "region"
      /\ table.enforceConsistency /\ ~outdated /\ "refreshed held" \notin odd
  BY DEF Released
<1> DEFINE regions == plots[mouse.plot].regions
           n == mouse.was.id
           k == mouse.region
           move == mouse.move
           x == p.x
           from == mouse.from
           shown == drawRegionDraggingOverlay(p)
<1>2. /\ table \in TableType /\ Sound(table) /\ mouse \in MouseType /\ x \in Int
      /\ PlotsOfData(plots)
  BY <1>1, PointsAre DEF IInv, FiltersTyped, PaneTyped, TableSound
<1>3. move \in ToSet(Moves) /\ from \in Int BY <1>1, <1>2, HeldTyped
<1>4. Reachable /\ regions[k] = mouse.was
  BY <1>1, HeldIs DEF HeldRegionIsItsRange
<1>5. regions = Regions
  <2>1. mouse.plot \in DOMAIN plots /\ k \in DOMAIN regions BY <1>4 DEF Reachable
  <2>2. regions = <<>> \/ regions = Regions BY <1>1, <2>1 DEF IInv, RegionsShown
  <2> HIDE DEF regions, k
  <2> QED BY <2>1, <2>2, NoneIn
<1>6. k \in DOMAIN table.ranges /\ n = k
  <2>1. k \in DOMAIN regions BY <1>4 DEF Reachable
  <2>2. Regions[k] = mouse.was /\ k \in DOMAIN Regions
    <3> HIDE DEF k, regions
    <3> QED BY <2>1, <1>4, <1>5
  <2> HIDE DEF k
  <2>3. k \in DOMAIN table.ranges /\ Regions[k].id = k BY <2>2 DEF Regions
  <2> QED BY <2>2, <2>3
<1>7. table' = setPropFromRegion(table, n, move, x)
  <2>1. moveRegion(p)
    <3>1. ~refreshing
      <4>1. refreshing => table' = table BY <1>1 DEF leftMouseReleased
      <4> QED BY <1>1, <4>1
    <3> QED BY <1>1, <3>1 DEF leftMouseReleased
  <2> QED BY <2>1, <1>4 DEF moveRegion
<1>8. /\ DOMAIN regions = DOMAIN table.ranges
      /\ \A j \in DOMAIN regions : regions[j].bounds = table.ranges[j]
  <2> HIDE DEF regions
  <2> QED BY <1>5 DEF Regions
<1>9. /\ shown.limit = findRegionLimit(regions, k, move, x)
      /\ shown.bars = <<regions[k].bounds[1] + (x - from), regions[k].bounds[2] + (x - from)>>
  BY DEF drawRegionDraggingOverlay
<1>10. Result = table'.ranges[n] BY DEF Result
<1>11. mouse.was.bounds = table.ranges[n] BY <1>4, <1>6, <1>8
<1>12. move = "TRANSLATE_X" /\ HeldInMiddle =>
         /\ table' = setPropFromRegion(table, n, "TRANSLATE_X", x)
         /\ 2 * from = table.ranges[n][1] + table.ranges[n][2]
  BY <1>7, <1>11 DEF HeldInMiddle
<1>13. regions[k].bounds = table.ranges[n] BY <1>4, <1>11
<1> HIDE DEF regions, n, k, move, x, from, shown
<1>14. n \in DOMAIN table.ranges BY <1>6
<1>15. /\ Result \in Interval /\ MovedTo(table.ranges[n], move, x, Result)
       /\ shown.limit = x
  <2>1. table.enforceConsistency /\ table' # table BY <1>1
  <2>2. /\ table'.ranges[n] \in Interval
        /\ MovedTo(table.ranges[n], move, x, table'.ranges[n])
        /\ findRegionLimit(regions, n, move, x) = x
    BY ONLY <2>1, <1>2, <1>3, <1>7, <1>8, <1>14, MoveShown
  <2> QED BY <2>2, <1>6, <1>9, <1>10
<1>16. ASSUME move = "TRANSLATE_X", HeldInMiddle PROVE Result = shown.bars
  <2>1. table' # table BY <1>1
  <2>2. /\ table' = setPropFromRegion(table, n, "TRANSLATE_X", x)
        /\ 2 * from = table.ranges[n][1] + table.ranges[n][2]
    BY <1>12, <1>16
  <2>3. table'.ranges[n] = <<table.ranges[n][1] + (x - from), table.ranges[n][2] + (x - from)>>
    BY ONLY <2>1, <2>2, <1>2, <1>3, <1>14, MovedWhole
  <2> QED BY <2>3, <1>6, <1>9, <1>10, <1>13
<1>17. CASE move = "EXTEND_XMINUS"
  BY <1>15, <1>17, MovesAre DEF MovedTo, move, shown
<1>18. CASE move = "EXTEND_XPLUS"
  BY <1>15, <1>18, MovesAre DEF MovedTo, move, shown
<1>19. CASE move = "TRANSLATE_X"
  <2>1. Result[1] + Result[2] = 2 * shown.limit BY <1>15, <1>19, MovesAre DEF MovedTo
  <2> QED BY <2>1, <1>16, <1>19, MovesAre DEF move, shown
<1> QED BY <1>3, <1>17, <1>18, <1>19, MovesAre

(* What is released moves the edge or the middle of a range to where the    *)
(* pane drew its limit for that place of the mouse, by the tests of         *)
(* moveRange and of findRegionLimit, which agree on a table that is sound,  *)
(* and both ends to where their bars were drawn if the region was pressed   *)
(* in its middle: whatever its ranges and wherever the mouse is.            *)
THEOREM MovedAsShown == Spec => MovesAreAsShown
<1>1. IInv /\ [Next]_vars =>
        [axes # {} => \A p \in InPane : Released(p) =>
          LET shown == drawRegionDraggingOverlay(p) IN
          CASE mouse.move = "EXTEND_XMINUS" -> Result[1] = shown.limit
            [] mouse.move = "TRANSLATE_X" -> /\ Result[1] + Result[2] = 2 * shown.limit
                                             /\ HeldInMiddle => Result = shown.bars
            [] mouse.move = "EXTEND_XPLUS" -> Result[2] = shown.limit]_vars
  BY ReleaseMoves
<1> QED BY <1>1, Invariant, PTL DEF Spec, MovesAreAsShown
=============================================================================
