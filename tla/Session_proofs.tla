--------------------------- MODULE Session_proofs ---------------------------
(***************************************************************************)
(* What is lost and what is kept between starts and crashes, for any names *)
(* and any number of starts, acts and autosaves.  First the operations on *)
(* an analysis and what a file becomes when it is read; then the           *)
(* invariant, and every step that keeps it.                                *)
(***************************************************************************)
EXTENDS Session

-----------------------------------------------------------------------------
(* What a file becomes when it is read.                                    *)

\* The new first camera, and behind it cameras with names of their own.
LEMMA Behind ==
    ASSUME NEW seq \in Seq(Cameras), \A i \in 1..Len(seq) : seq[i] # NoName,
           \A i, j \in 1..Len(seq) : seq[i] = seq[j] => i = j
    PROVE  /\ <<NoName>> \o seq \in Seq(Cameras) /\ <<NoName>> \o seq # <<>>
           /\ Len(<<NoName>> \o seq) = Len(seq) + 1
           /\ \A i \in 1..Len(seq) : (<<NoName>> \o seq)[i + 1] = seq[i]
           /\ NamesRight(<<NoName>> \o seq)
<1> DEFINE c == <<NoName>> \o seq
           n == Len(seq)
<1>1. <<NoName>> \in Seq(Cameras) BY DEF Cameras
<1>2. n \in Nat OBVIOUS
<1>3. c \in Seq(Cameras) /\ Len(c) = n + 1 BY <1>1
<1>4. c[1] = NoName OBVIOUS
<1>5. \A i \in 1..n : c[i + 1] = seq[i] OBVIOUS
<1> HIDE DEF c, n
<1>6. DOMAIN c = 1..(n + 1) /\ c # <<>> BY <1>2, <1>3
<1>7. ASSUME NEW i \in 1..(n + 1) PROVE i = 1 \/ (i - 1 \in 1..n /\ c[i] = seq[i - 1])
  <2> SUFFICES ASSUME i # 1 PROVE i - 1 \in 1..n /\ c[i] = seq[i - 1] OBVIOUS
  <2>1. i - 1 \in 1..n /\ (i - 1) + 1 = i BY <1>2
  <2> QED BY <2>1, <1>5
<1>8. ASSUME NEW i \in DOMAIN c, NEW j \in DOMAIN c, c[i] = c[j] PROVE i = j
  <2>1. i \in 1..(n + 1) /\ j \in 1..(n + 1) /\ i \in Int /\ j \in Int BY <1>2, <1>6
  <2>2. CASE i = 1 \/ j = 1 BY <2>1, <2>2, <1>4, <1>7, <1>8 DEF n
  <2>3. CASE i # 1 /\ j # 1
    <3>1. i - 1 \in 1..n /\ j - 1 \in 1..n /\ seq[i - 1] = seq[j - 1]
      BY <2>1, <2>3, <1>7, <1>8
    <3>2. i - 1 = j - 1 BY <3>1 DEF n
    <3> QED BY <3>2, <2>1
  <2> QED BY <2>2, <2>3
<1> QED BY <1>3, <1>4, <1>5, <1>6, <1>8 DEF c, n, NamesRight

\* Cameras that are read have names of their own, and are those of the file if
\* these had.
LEMMA CamerasRead ==
    ASSUME NEW cameras \in Seq(Cameras)
    PROVE  /\ CamerasOf(cameras) \in Seq(Cameras) /\ CamerasOf(cameras) # <<>>
           /\ NamesRight(CamerasOf(cameras))
           /\ cameras # <<>> /\ NamesRight(cameras) => CamerasOf(cameras) = cameras
<1> DEFINE n == Len(cameras)
           S == {i \in FirstOfEach(cameras) : cameras[i] # NoName}
           named == Only(cameras, S)
           k == Cardinality(S)
<1>1. n \in Nat /\ DOMAIN cameras = 1..n OBVIOUS
<1>2. \A i : i \in S <=> /\ i \in 1..n /\ cameras[i] # NoName
                         /\ \A j \in 1..(i - 1) : cameras[j] # cameras[i]
  BY <1>1 DEF FirstOfEach
<1>3. CamerasOf(cameras) = <<NoName>> \o named BY DEF CamerasOf
<1> HIDE DEF S
<1>4. S \in SUBSET (1..n) BY <1>2
<1>5. /\ named \in Seq(Cameras) /\ Len(named) = k /\ k \in Nat
      /\ \A i \in 1..k : Nth(S, i) \in S /\ named[i] = cameras[Nth(S, i)]
      /\ \A i, j \in 1..k : Nth(S, i) = Nth(S, j) => i = j
  BY <1>4, OnlyIs
<1> HIDE DEF n, named, k
<1>6. \A i \in 1..k : named[i] # NoName BY <1>2, <1>5
<1>7. ASSUME NEW i \in 1..k, NEW j \in 1..k, named[i] = named[j] PROVE i = j
  <2>1. PICK a \in S : a = Nth(S, i) BY <1>5
  <2>2. PICK b \in S : b = Nth(S, j) BY <1>5
  <2>3. a \in 1..n /\ b \in 1..n /\ cameras[a] = cameras[b] BY <2>1, <2>2, <1>2, <1>5, <1>7
  <2>4. ~(a < b)
    <3> SUFFICES ASSUME a < b PROVE FALSE OBVIOUS
    <3>1. a \in 1..(b - 1) BY <2>3, <1>1
    <3> QED BY <3>1, <2>3, <1>2
  <2>5. ~(b < a)
    <3> SUFFICES ASSUME b < a PROVE FALSE OBVIOUS
    <3>1. b \in 1..(a - 1) BY <2>3, <1>1
    <3> QED BY <3>1, <2>3, <1>2
  <2>6. a = b BY <2>3, <2>4, <2>5
  <2> QED BY <2>1, <2>2, <2>6, <1>5
<1>8. /\ <<NoName>> \o named \in Seq(Cameras) /\ <<NoName>> \o named # <<>>
      /\ Len(<<NoName>> \o named) = k + 1 /\ NamesRight(<<NoName>> \o named)
      /\ \A i \in 1..k : (<<NoName>> \o named)[i + 1] = named[i]
  BY <1>5, <1>6, <1>7, Behind
<1>9. ASSUME cameras # <<>>, NamesRight(cameras) PROVE CamerasOf(cameras) = cameras
  <2>1. /\ n \in Nat \ {0} /\ cameras[1] = NoName
        /\ \A i, j \in 1..n : cameras[i] = cameras[j] => i = j
    BY <1>1, <1>9 DEF NamesRight, n
  <2>2. S = 2..n
    <3>1. ASSUME NEW i \in S PROVE i \in 2..n
      <4>1. i \in 1..n /\ i # 1 BY <1>2, <2>1
      <4> QED BY <4>1, <2>1
    <3>2. ASSUME NEW i \in 2..n PROVE i \in S
      <4>1. i \in 1..n /\ 1 \in 1..n /\ i # 1 BY <2>1
      <4>2. cameras[i] # NoName BY <4>1, <2>1
      <4>3. \A j \in 1..(i - 1) : j \in 1..n /\ j # i BY <4>1, <2>1
      <4> QED BY <4>1, <4>2, <4>3, <2>1, <1>2
    <3> QED BY <3>1, <3>2
  <2>3. k = n - 1 /\ IsFiniteSet(S) /\ S \in SUBSET Nat
    <3>1. IsFiniteSet(2..n) /\ Cardinality(2..n) = IF 2 > n THEN 0 ELSE n - 2 + 1
      BY <2>1, FS_Interval
    <3> QED BY <3>1, <2>1, <2>2 DEF k
  <2>4. ASSUME NEW i \in 1..k PROVE Nth(S, i) = i + 1
    <3>1. i + 1 \in S /\ i \in Nat BY <2>1, <2>2, <2>3
    <3>2. {m \in S : m <= i + 1} = 2..(i + 1) BY <2>1, <2>2, <2>3
    <3>3. Cardinality(2..(i + 1)) = i
      <4>1. Cardinality(2..(i + 1)) = IF 2 > i + 1 THEN 0 ELSE (i + 1) - 2 + 1
        BY <3>1, FS_Interval
      <4> QED BY <4>1, <3>1
    <3> QED BY <3>1, <3>2, <3>3, <2>3, PlaceIs DEF k
  <2> DEFINE c == <<NoName>> \o named
  <2>5. /\ c \in Seq(Cameras) /\ Len(c) = n /\ c[1] = NoName
        /\ \A i \in 1..k : c[i + 1] = cameras[i + 1]
    BY <1>5, <1>8, <2>1, <2>3, <2>4 DEF NamesRight
  <2> HIDE DEF c
  <2>6. ASSUME NEW i \in 1..n PROVE c[i] = cameras[i]
    <3>1. CASE i = 1 BY <3>1, <2>1, <2>5
    <3>2. CASE i # 1
      <4>1. i - 1 \in 1..k /\ (i - 1) + 1 = i BY <3>2, <2>1, <2>3
      <4> QED BY <4>1, <2>5
    <3> QED BY <3>1, <3>2
  <2>7. c = [i \in 1..n |-> c[i]] /\ cameras = [i \in 1..n |-> cameras[i]] BY <2>5, <1>1
  <2>8. c = cameras BY <2>6, <2>7
  <2> QED BY <2>8, <1>3 DEF c
<1> QED BY <1>3, <1>8, <1>9

\* Stashes of which some are left out.
LEMMA StashesOnly ==
    ASSUME NEW stashes \in Seq(Stashes), NEW S \in SUBSET (1..Len(stashes)),
           \A i, j \in 1..Len(stashes) : stashes[i].name = stashes[j].name => i = j,
           \A i \in S : stashes[i].tree # {}
    PROVE  /\ Only(stashes, S) \in Seq(Stashes)
           /\ \A i, j \in DOMAIN Only(stashes, S) :
                 Only(stashes, S)[i].name = Only(stashes, S)[j].name => i = j
           /\ \A i \in DOMAIN Only(stashes, S) : Only(stashes, S)[i].tree # {}
<1> DEFINE left == Only(stashes, S)
           k == Cardinality(S)
<1>1. /\ left \in Seq(Stashes) /\ DOMAIN left = 1..k
      /\ \A i \in 1..k : Nth(S, i) \in S /\ left[i] = stashes[Nth(S, i)]
      /\ \A i, j \in 1..k : Nth(S, i) = Nth(S, j) => i = j
  BY OnlyIs
<1> HIDE DEF left, k
<1>2. \A i \in 1..k : Nth(S, i) \in 1..Len(stashes) BY <1>1
<1>3. \A i, j \in 1..k : left[i].name = left[j].name => i = j BY <1>1, <1>2
<1>4. \A i \in 1..k : left[i].tree # {} BY <1>1
<1> QED BY <1>1, <1>3, <1>4 DEF left

LEMMA StashesRead ==
    ASSUME NEW stashes \in Seq(Stashes),
           \A i, j \in 1..Len(stashes) : stashes[i].name = stashes[j].name => i = j
    PROVE  /\ StashesOf(stashes) \in Seq(Stashes)
           /\ \A i, j \in DOMAIN StashesOf(stashes) :
                 StashesOf(stashes)[i].name = StashesOf(stashes)[j].name => i = j
           /\ \A i \in DOMAIN StashesOf(stashes) : StashesOf(stashes)[i].tree # {}
           /\ (\A i \in 1..Len(stashes) : stashes[i].tree # {}) => StashesOf(stashes) = stashes
<1> DEFINE S == {i \in 1..Len(stashes) : stashes[i].tree # {}}
<1>1. StashesOf(stashes) = Only(stashes, S)
  <2>1. DOMAIN stashes = 1..Len(stashes) OBVIOUS
  <2> QED BY <2>1 DEF StashesOf
<1>2. S \in SUBSET (1..Len(stashes)) /\ \A i \in S : stashes[i].tree # {} OBVIOUS
<1>3. (\A i \in 1..Len(stashes) : stashes[i].tree # {}) => S = 1..Len(stashes) OBVIOUS
<1> HIDE DEF S
<1> DEFINE left == Only(stashes, S)
<1>4. /\ left \in Seq(Stashes)
      /\ \A i, j \in DOMAIN left : left[i].name = left[j].name => i = j
      /\ \A i \in DOMAIN left : left[i].tree # {}
  BY <1>2, StashesOnly
<1>5. (\A i \in 1..Len(stashes) : stashes[i].tree # {}) => left = stashes
  BY <1>3, OnlyAll
<1>6. StashesOf(stashes) = left BY <1>1
<1> HIDE DEF left
<1> QED BY <1>4, <1>5, <1>6
-----------------------------------------------------------------------------
(* The operations on an analysis.                                          *)

LEMMA FieldsOf ==
    ASSUME NEW s \in Analyses
    PROVE  /\ s.tree \in SUBSET Branches /\ s.undo \in Seq(SUBSET Branches)
           /\ s.savedCameras \in Seq(Cameras) /\ s.activeCamera \in Nat
           /\ s.stashedTrees \in Seq(Stashes)
           /\ DOMAIN s.savedCameras = 1..Len(s.savedCameras) /\ Len(s.savedCameras) \in Nat
           /\ DOMAIN s.stashedTrees = 1..Len(s.stashedTrees) /\ Len(s.stashedTrees) \in Nat
BY DEF Analyses

LEMMA FreshIs == Fresh \in Analyses /\ Sound(Fresh) /\ NamesRight(Fresh.savedCameras)
<1>1. <<NoName>> \in Seq(Cameras) BY DEF Cameras
<1>2. <<NoName>> # <<>> /\ DOMAIN <<NoName>> = {1} /\ <<NoName>>[1] = NoName OBVIOUS
<1>3. DOMAIN Fresh.stashedTrees = {} BY DEF Fresh
<1> QED BY <1>1, <1>2, <1>3 DEF Fresh, Analyses, Sound, NamesRight

\* The tree and its history, and the number of the active camera, may be anything.
LEMMA Retold ==
    ASSUME NEW s \in Analyses, Sound(s), NEW r \in Analyses,
           r.savedCameras = s.savedCameras, r.stashedTrees = s.stashedTrees
    PROVE  Sound(r)
BY DEF Sound

LEMMA StashedIs ==
    ASSUME NEW s \in Analyses, Sound(s), NEW tree \in SUBSET Branches, tree # {},
           NEW name \in StashNames \ Names(s.stashedTrees)
    PROVE  /\ stashFilters(s, tree, name) \in Analyses
           /\ Sound(stashFilters(s, tree, name))
<1> DEFINE stashes == s.stashedTrees
           n == Len(stashes)
           stash == [name |-> name, tree |-> tree]
           more == Append(stashes, stash)
<1>1. stashes \in Seq(Stashes) /\ stash \in Stashes /\ n \in Nat BY FieldsOf DEF Stashes
<1>2. /\ \A i \in 1..n : stashes[i].name # name /\ stashes[i].tree # {}
      /\ \A i, j \in 1..n : stashes[i].name = stashes[j].name => i = j
  BY FieldsOf DEF Sound, Names
<1>3. stash.name = name /\ stash.tree = tree OBVIOUS
<1>4. stashFilters(s, tree, name) = [s EXCEPT !.stashedTrees = more] BY DEF stashFilters
<1> HIDE DEF stashes, stash
<1>5. /\ more \in Seq(Stashes) /\ DOMAIN more = 1..(n + 1)
      /\ \A i \in 1..n : more[i] = stashes[i]
      /\ more[n + 1] = stash
  BY <1>1
<1> HIDE DEF more, n
<1>6. \A i \in 1..(n + 1) : i = n + 1 \/ i \in 1..n BY <1>1
<1>7. \A i \in 1..(n + 1) : more[i].tree # {} BY <1>2, <1>3, <1>5, <1>6
<1>8. ASSUME NEW i \in 1..(n + 1), NEW j \in 1..(n + 1), more[i].name = more[j].name
      PROVE  i = j
  BY <1>2, <1>3, <1>5, <1>6, <1>8
<1>9. [s EXCEPT !.stashedTrees = more] \in Analyses BY <1>5 DEF Analyses
<1>10. /\ [s EXCEPT !.stashedTrees = more].stashedTrees = more
       /\ [s EXCEPT !.stashedTrees = more].savedCameras = s.savedCameras
  BY DEF Analyses
<1> QED BY <1>4, <1>5, <1>7, <1>8, <1>9, <1>10 DEF Sound

LEMMA ErasedIs ==
    ASSUME NEW s \in Analyses, Sound(s), NEW offsets
    PROVE  eraseStashes(s, offsets) \in Analyses /\ Sound(eraseStashes(s, offsets))
<1> DEFINE S == DOMAIN s.stashedTrees \ offsets
           left == Only(s.stashedTrees, S)
<1>1. eraseStashes(s, offsets) = [s EXCEPT !.stashedTrees = left] BY DEF eraseStashes, Analyses
<1>2. /\ s.stashedTrees \in Seq(Stashes) /\ S \in SUBSET (1..Len(s.stashedTrees))
      /\ \A i, j \in 1..Len(s.stashedTrees) :
            s.stashedTrees[i].name = s.stashedTrees[j].name => i = j
      /\ \A i \in S : s.stashedTrees[i].tree # {}
  BY FieldsOf DEF Sound
<1> HIDE DEF S
<1>3. /\ left \in Seq(Stashes)
      /\ \A i, j \in DOMAIN left : left[i].name = left[j].name => i = j
      /\ \A i \in DOMAIN left : left[i].tree # {}
  BY <1>2, StashesOnly
<1> HIDE DEF left
<1>4. [s EXCEPT !.stashedTrees = left] \in Analyses BY <1>3 DEF Analyses
<1>5. /\ [s EXCEPT !.stashedTrees = left].stashedTrees = left
      /\ [s EXCEPT !.stashedTrees = left].savedCameras = s.savedCameras
  BY DEF Analyses
<1> QED BY <1>1, <1>3, <1>4, <1>5 DEF Sound

LEMMA FirstBranchIs ==
    ASSUME NEW tree \in SUBSET Branches
    PROVE  FirstBranch(tree) \in SUBSET Branches
<1>1. CASE tree = {} BY <1>1 DEF FirstBranch
<1>2. CASE tree # {}
  <2>1. (CHOOSE b \in tree : TRUE) \in tree BY <1>2
  <2> QED BY <2>1, <1>2 DEF FirstBranch
<1> QED BY <1>1, <1>2

\* A camera with a name that is not in the box has one of its own.
LEMMA StoredIs ==
    ASSUME NEW s \in Analyses, Sound(s), NEW name \in CameraNames
    PROVE  /\ addCam(s, name) \in Analyses /\ Sound(addCam(s, name))
           /\ NamesRight(s.savedCameras)
              /\ (\A i \in DOMAIN updateCameraComboBox(s) :
                     updateCameraComboBox(s)[i].name # name)
              => NamesRight(addCam(s, name).savedCameras)
<1> DEFINE cameras == s.savedCameras
           n == Len(cameras)
           last == n + 1
           more == Append(cameras, name)
           r == [s EXCEPT !.savedCameras = more, !.activeCamera = last]
<1>1. cameras \in Seq(Cameras) /\ n \in Nat /\ cameras # <<>> /\ n # 0
  BY FieldsOf DEF Sound
<1>2. name \in Cameras /\ name # NoName BY NamesAssumption DEF Cameras
<1>3. addCam(s, name) = r BY DEF addCam
<1>4. /\ more \in Seq(Cameras) /\ DOMAIN more = 1..(n + 1) /\ more # <<>>
      /\ \A i \in 1..n : more[i] = cameras[i]
      /\ more[n + 1] = name
  BY <1>1, <1>2
<1>5. (\A i \in DOMAIN updateCameraComboBox(s) : updateCameraComboBox(s)[i].name # name)
      => \A i \in 1..(n - 1) : cameras[i + 1] # name
  BY DEF updateCameraComboBox
<1>. last \in Nat BY <1>1
<1> HIDE DEF more, last
<1>6. /\ r \in Analyses /\ r.savedCameras = more /\ r.stashedTrees = s.stashedTrees
  BY <1>4 DEF Analyses
<1> HIDE DEF n, cameras, r
<1>7. Sound(r) BY <1>4, <1>6 DEF Sound
<1>8. ASSUME NamesRight(cameras), \A i \in 1..(n - 1) : cameras[i + 1] # name
      PROVE  NamesRight(more)
  <2>1. cameras[1] = NoName /\ \A i, j \in 1..n : cameras[i] = cameras[j] => i = j
    BY <1>1, <1>8 DEF NamesRight, n
  <2>2. ASSUME NEW i \in 1..n PROVE cameras[i] # name
    <3>1. CASE i = 1 BY <3>1, <2>1, <1>2
    <3>2. CASE i # 1
      <4>1. i - 1 \in 1..(n - 1) /\ (i - 1) + 1 = i BY <1>1, <3>2
      <4> QED BY <4>1, <1>8
    <3> QED BY <3>1, <3>2
  <2>3. \A i \in 1..(n + 1) : i = n + 1 \/ i \in 1..n BY <1>1
  <2>4. \A i, j \in 1..(n + 1) : more[i] = more[j] => i = j BY <2>1, <2>2, <2>3, <1>4
  <2>5. 1 \in 1..n BY <1>1
  <2>6. more[1] = NoName BY <1>4, <2>1, <2>5
  <2> QED BY <2>4, <2>6, <1>4 DEF NamesRight
<1> QED BY <1>3, <1>5, <1>6, <1>7, <1>8 DEF cameras

\* A camera behind the first goes, and one behind the active camera leaves that.
LEMMA RemovedIs ==
    ASSUME NEW s \in Analyses, Sound(s), NEW n \in 2..Len(s.savedCameras)
    PROVE  /\ removeCam(s, n) \in Analyses /\ Sound(removeCam(s, n))
           /\ NamesRight(s.savedCameras) => NamesRight(removeCam(s, n).savedCameras)
           /\ s.activeCamera \in 1..(n - 1) =>
                 LET r == removeCam(s, n) IN
                 /\ r.activeCamera \in DOMAIN r.savedCameras
                 /\ r.savedCameras[r.activeCamera] = s.savedCameras[s.activeCamera]
<1> DEFINE cameras == s.savedCameras
           S == (1..Len(cameras)) \ {n}
           left == Only(cameras, S)
           k == Cardinality(S)
           active == IF s.activeCamera > Len(left) THEN 1 ELSE s.activeCamera
           r == [s EXCEPT !.savedCameras = left, !.activeCamera = active]
<1>1. /\ cameras \in Seq(Cameras) /\ DOMAIN cameras = 1..Len(cameras)
      /\ Len(cameras) \in Nat /\ s.activeCamera \in Nat
  BY FieldsOf
<1>2. removeCam(s, n) = r BY <1>1 DEF removeCam
<1>3. S \in SUBSET (1..Len(cameras)) OBVIOUS
<1>4. \A a \in 1..(n - 1) : 1..a \subseteq S /\ a \in Nat \ {0}
  <2>1. n \in Nat /\ n <= Len(cameras) BY <1>1
  <2> QED BY <2>1, <1>1
<1>5. 1 \in 1..(n - 1) /\ 1 \in Nat BY <1>1
<1> HIDE DEF S, cameras
<1>6. /\ left \in Seq(Cameras) /\ Len(left) = k /\ k \in Nat /\ DOMAIN left = 1..k
      /\ \A i \in 1..k : Nth(S, i) \in S /\ left[i] = cameras[Nth(S, i)]
      /\ \A i, j \in 1..k : Nth(S, i) = Nth(S, j) => i = j
  BY <1>1, <1>3, OnlyIs
<1>7. \A a \in 1..(n - 1) : a \in 1..k /\ Nth(S, a) = a
  <2>1. \A a \in Nat \ {0} : 1..a \subseteq S => a \in 1..k /\ Nth(S, a) = a
    BY <1>1, <1>3, OnlyIs
  <2> QED BY <2>1, <1>4
<1> HIDE DEF left, k
<1>8. left # <<>> BY <1>5, <1>6, <1>7
<1>9. active \in Nat BY <1>1
<1>10. s.activeCamera \in 1..(n - 1) => active = s.activeCamera /\ active \in 1..k
  BY <1>1, <1>6, <1>7
<1> HIDE DEF active
<1>11. /\ r \in Analyses /\ r.savedCameras = left /\ r.activeCamera = active
       /\ r.stashedTrees = s.stashedTrees
  BY <1>6, <1>9 DEF Analyses
<1> HIDE DEF r
<1>12. Sound(r) BY <1>8, <1>11 DEF Sound
<1>13. ASSUME NamesRight(cameras) PROVE NamesRight(left)
  <2>1. cameras[1] = NoName /\ \A i, j \in 1..Len(cameras) : cameras[i] = cameras[j] => i = j
    BY <1>1, <1>13 DEF NamesRight
  <2>2. left[1] = NoName BY <1>5, <1>6, <1>7, <2>1
  <2>3. \A i \in 1..k : Nth(S, i) \in 1..Len(cameras) BY <1>3, <1>6
  <2>4. \A i, j \in 1..k : left[i] = left[j] => i = j BY <1>6, <2>1, <2>3
  <2> QED BY <2>2, <2>4, <1>6 DEF NamesRight
<1>14. s.activeCamera \in 1..(n - 1) =>
         r.activeCamera \in DOMAIN r.savedCameras
         /\ r.savedCameras[r.activeCamera] = cameras[s.activeCamera]
  BY <1>6, <1>7, <1>10, <1>11
<1> QED BY <1>2, <1>11, <1>12, <1>13, <1>14 DEF cameras

LEMMA ClonedIs ==
    ASSUME NEW s \in Analyses, Sound(s), NEW camera \in Cameras, InRange(s)
    PROVE  LET r == setCameraByClone(s, camera, s.activeCamera) IN
           /\ r \in Analyses /\ Sound(r)
           /\ Len(r.savedCameras) = Len(s.savedCameras)
           /\ camera = s.savedCameras[s.activeCamera] => r = s
<1> DEFINE cameras == s.savedCameras
           a == s.activeCamera
           other == [cameras EXCEPT ![a] = camera]
           r == [s EXCEPT !.savedCameras = other]
<1>1. /\ cameras \in Seq(Cameras) /\ Len(cameras) \in Nat /\ a \in 1..Len(cameras)
      /\ cameras # <<>>
  BY FieldsOf DEF InRange, Sound
<1>2. setCameraByClone(s, camera, a) = r BY DEF setCameraByClone
<1>3. /\ other \in Seq(Cameras) /\ Len(other) = Len(cameras)
      /\ camera = cameras[a] => other = cameras
  BY <1>1
<1>4. other # <<>> BY <1>1, <1>3
<1> HIDE DEF other, a
<1>5. /\ r \in Analyses /\ r.savedCameras = other /\ r.stashedTrees = s.stashedTrees
      /\ other = cameras => r = s
  BY <1>3 DEF Analyses
<1> HIDE DEF r, cameras
<1>6. Sound(r) BY <1>4, <1>5 DEF Sound
<1> QED BY <1>2, <1>3, <1>5, <1>6 DEF cameras, a

-----------------------------------------------------------------------------
(* Files.                                                                  *)
FileNames == Paths \cup {NoFile} \cup {AutosavePath(p) : p \in Processes}

LEMMA ContentIs ==
    ASSUME NEW file \in Contents
    PROVE  file # NoContent /\ file # Broken
<1>1. DOMAIN file = {"tree", "savedCameras", "activeCamera", "stashedTrees"}
  BY DEF Contents
<1>2. DOMAIN NoContent = {} BY DEF NoContent
<1>3. DOMAIN Broken = {"broken"} BY DEF Broken
<1> QED BY <1>1, <1>2, <1>3

LEMMA SavedIs ==
    ASSUME NEW s \in Analyses, Sound(s)
    PROVE  Saved(s) \in Contents /\ Sound(Saved(s))
<1>1. Saved(s) \in Contents BY DEF Saved, Contents, Analyses
<1>2. /\ Saved(s).savedCameras = s.savedCameras
      /\ Saved(s).stashedTrees = s.stashedTrees
  BY DEF Saved
<1> QED BY <1>1, <1>2 DEF Sound

LEMMA SoundIsLoadable ==
    ASSUME NEW file \in Contents, Sound(file)
    PROVE  Loadable(file)
BY ContentIs DEF Loadable, Sound

\* A sound file is read as a sound analysis, and as itself if its cameras have
\* names of their own.
LEMMA LoadedIs ==
    ASSUME NEW file \in Contents, Sound(file), NEW path \in FileNames
    PROVE  /\ Loaded(file, path) \in Analyses /\ Sound(Loaded(file, path))
           /\ NamesRight(Loaded(file, path).savedCameras)
           /\ Loaded(file, path).activeCamera = file.activeCamera
           /\ NamesRight(file.savedCameras) =>
                 /\ Loaded(file, path).savedCameras = file.savedCameras
                 /\ Saved(Loaded(file, path)) = file
<1> DEFINE cameras == CamerasOf(file.savedCameras)
           stashes == StashesOf(file.stashedTrees)
           s == [tree |-> file.tree, undo |-> <<>>, savedCameras |-> cameras,
                 activeCamera |-> file.activeCamera, stashedTrees |-> stashes,
                 fileName |-> path]
<1>1. /\ file.tree \in SUBSET Branches /\ file.savedCameras \in Seq(Cameras)
      /\ file.activeCamera \in Nat /\ file.stashedTrees \in Seq(Stashes)
      /\ file = [tree |-> file.tree, savedCameras |-> file.savedCameras,
                 activeCamera |-> file.activeCamera, stashedTrees |-> file.stashedTrees]
  BY DEF Contents
<1>2. /\ file.savedCameras # <<>>
      /\ \A i, j \in 1..Len(file.stashedTrees) :
            file.stashedTrees[i].name = file.stashedTrees[j].name => i = j
      /\ \A i \in 1..Len(file.stashedTrees) : file.stashedTrees[i].tree # {}
  <2>1. DOMAIN file.stashedTrees = 1..Len(file.stashedTrees) BY <1>1
  <2> QED BY <2>1 DEF Sound
<1>3. Loaded(file, path) = s BY DEF Loaded
<1>4. /\ cameras \in Seq(Cameras) /\ cameras # <<>> /\ NamesRight(cameras)
      /\ NamesRight(file.savedCameras) => cameras = file.savedCameras
  BY <1>1, <1>2, CamerasRead
<1>5. stashes = file.stashedTrees BY <1>1, <1>2, StashesRead
<1> HIDE DEF cameras, stashes
<1>6. /\ s \in Analyses /\ s.savedCameras = cameras
      /\ s.activeCamera = file.activeCamera /\ s.stashedTrees = stashes
  BY <1>1, <1>4, <1>5 DEF Analyses, FileNames
<1>7. Saved(s) = [tree |-> file.tree, savedCameras |-> cameras,
                  activeCamera |-> file.activeCamera, stashedTrees |-> stashes]
  BY DEF Saved
<1>8. Sound(s) BY <1>4, <1>5, <1>6 DEF Sound
<1>9. cameras = file.savedCameras => Saved(s) = file BY <1>1, <1>5, <1>7
<1> HIDE DEF s
<1> QED BY <1>3, <1>4, <1>6, <1>8, <1>9

\* What is merged into a new analysis is what is read, without a camera chosen.
LEMMA MergedIs ==
    ASSUME NEW s, NEW file \in Contents, Sound(file), NEW path \in FileNames
    PROVE  /\ load(s, file, path, TRUE) \in Analyses
           /\ Sound(load(s, file, path, TRUE))
           /\ NamesRight(load(s, file, path, TRUE).savedCameras)
           /\ load(s, file, path, TRUE).activeCamera = 1
<1> DEFINE o == Loaded(file, path)
           S == {i \in DOMAIN o.savedCameras : o.savedCameras[i] # NoName}
           named == Only(o.savedCameras, S)
           cameras == <<NoName>> \o [i \in DOMAIN named |->
                         Fresher(named[i], camNameExists(Fresh, named[i]))]
           stashes == <<>> \o [i \in DOMAIN o.stashedTrees |->
                         [o.stashedTrees[i] EXCEPT !.name = Fresher(@, @ \in Names(<<>>))]]
           r == [Fresh EXCEPT !.stashedTrees = stashes, !.undo = <<>>,
                              !.tree = {} \cup FirstBranch(o.tree),
                              !.savedCameras = cameras]
<1>1. o \in Analyses /\ Sound(o) /\ NamesRight(o.savedCameras) BY LoadedIs
<1>2. load(s, file, path, TRUE) = r
  <2>1. /\ Fresh.stashedTrees = <<>> /\ Fresh.undo = <<>> /\ Fresh.tree = {}
        /\ Fresh.savedCameras = <<NoName>>
    BY DEF Fresh
  <2> QED BY <2>1 DEF load, merge, Fresh
<1> HIDE DEF o
<1>3. /\ o.savedCameras \in Seq(Cameras) /\ DOMAIN o.savedCameras = 1..Len(o.savedCameras)
      /\ o.stashedTrees \in Seq(Stashes) /\ DOMAIN o.stashedTrees = 1..Len(o.stashedTrees)
      /\ o.tree \in SUBSET Branches
  BY <1>1, FieldsOf
<1>4. stashes = o.stashedTrees
  <2> DEFINE st == o.stashedTrees
             read == [i \in DOMAIN st |->
                        [st[i] EXCEPT !.name = Fresher(@, @ \in Names(<<>>))]]
  <2>1. st \in Seq(Stashes) /\ DOMAIN st = 1..Len(st) BY <1>3
  <2>2. Names(<<>>) = {} BY DEF Names
  <2>3. stashes = <<>> \o read OBVIOUS
  <2> HIDE DEF st, stashes
  <2>4. ASSUME NEW i \in DOMAIN st PROVE read[i] = st[i]
    <3>1. st[i] \in Stashes BY <2>1
    <3>2. read[i] = [st[i] EXCEPT !.name = Fresher(st[i].name, st[i].name \in {})]
      BY <2>2, <3>1 DEF Stashes
    <3>3. Fresher(st[i].name, st[i].name \in {}) = st[i].name BY DEF Fresher
    <3> QED BY <3>1, <3>2, <3>3 DEF Stashes
  <2>5. DOMAIN read = 1..Len(st) /\ read = [i \in 1..Len(st) |-> read[i]] BY <2>1
  <2>6. st = [i \in 1..Len(st) |-> st[i]] BY <2>1
  <2> HIDE DEF read
  <2>7. read = st BY <2>1, <2>4, <2>5, <2>6
  <2>8. <<>> \o st = st BY <2>1
  <2> QED BY <2>3, <2>7, <2>8 DEF st
<1>5. cameras = <<NoName>> \o named /\ cameras \in Seq(Cameras) /\ cameras # <<>>
      /\ NamesRight(cameras)
  <2> DEFINE k == Cardinality(S)
             read == [i \in DOMAIN named |->
                         Fresher(named[i], camNameExists(Fresh, named[i]))]
  <2>1. S \in SUBSET (1..Len(o.savedCameras)) /\ \A i \in S : o.savedCameras[i] # NoName
    BY <1>3
  <2>2. \A i, j \in 1..Len(o.savedCameras) :
           o.savedCameras[i] = o.savedCameras[j] => i = j
    BY <1>1, <1>3 DEF NamesRight
  <2>3. cameras = <<NoName>> \o read OBVIOUS
  <2> HIDE DEF S, cameras
  <2>4. /\ named \in Seq(Cameras) /\ DOMAIN named = 1..k /\ Len(named) = k
        /\ \A i \in 1..k : Nth(S, i) \in S /\ named[i] = o.savedCameras[Nth(S, i)]
        /\ \A i, j \in 1..k : Nth(S, i) = Nth(S, j) => i = j
    BY <1>3, <2>1, OnlyIs
  <2> HIDE DEF named, k
  <2>5. \A i \in 1..k : named[i] # NoName BY <2>1, <2>4
  <2>6. ASSUME NEW i \in 1..k, NEW j \in 1..k, named[i] = named[j] PROVE i = j
    <3>1. Nth(S, i) \in 1..Len(o.savedCameras) /\ Nth(S, j) \in 1..Len(o.savedCameras)
      BY <2>1, <2>4
    <3>2. o.savedCameras[Nth(S, i)] = o.savedCameras[Nth(S, j)] BY <2>4, <2>6
    <3>3. Nth(S, i) = Nth(S, j) BY <2>2, <3>1, <3>2
    <3> QED BY <2>4, <3>3
  <2>7. ASSUME NEW i \in DOMAIN named PROVE read[i] = named[i]
    <3>1. ~camNameExists(Fresh, named[i])
      <4>1. Fresh.savedCameras = <<NoName>> BY DEF Fresh
      <4>2. \A j \in DOMAIN <<NoName>> : <<NoName>>[j] = NoName OBVIOUS
      <4> QED BY <4>1, <4>2, <2>4, <2>5 DEF camNameExists
    <3> QED BY <3>1 DEF Fresher
  <2>8. DOMAIN read = 1..k /\ read = [i \in 1..k |-> read[i]] BY <2>4
  <2>9. named = [i \in 1..k |-> named[i]] BY <2>4
  <2> HIDE DEF read
  <2>10. read = named BY <2>4, <2>7, <2>8, <2>9
  <2>11. cameras = <<NoName>> \o named BY <2>3, <2>10
  <2> QED BY <2>4, <2>5, <2>6, <2>11, Behind
<1> HIDE DEF stashes, cameras
<1>6. FirstBranch(o.tree) \in SUBSET Branches BY <1>3, FirstBranchIs
<1>7. /\ r \in Analyses /\ r.savedCameras = cameras /\ r.stashedTrees = stashes
      /\ r.activeCamera = 1
  <2>1. stashes \in Seq(Stashes) BY <1>3, <1>4
  <2>2. {} \cup FirstBranch(o.tree) \in SUBSET Branches BY <1>6
  <2> DEFINE tree == {} \cup FirstBranch(o.tree)
             undo == <<>>
  <2>3. undo \in Seq(SUBSET Branches) OBVIOUS
  <2>4. r = [Fresh EXCEPT !.stashedTrees = stashes, !.undo = undo, !.tree = tree,
                          !.savedCameras = cameras]
    OBVIOUS
  <2>5. Fresh \in Analyses /\ Fresh.activeCamera = 1 BY FreshIs DEF Fresh
  <2> HIDE DEF tree, undo, r
  <2>6. tree \in SUBSET Branches BY <2>2 DEF tree
  <2> QED BY <2>1, <2>3, <2>4, <2>5, <2>6, <1>5 DEF Analyses
<1> HIDE DEF r
<1>8. Sound(r)
  <2>1. Sound(o) BY <1>1
  <2> QED BY <2>1, <1>4, <1>5, <1>7 DEF Sound
<1> QED BY <1>2, <1>5, <1>7, <1>8

-----------------------------------------------------------------------------
(* The invariant.                                                          *)

\* A file is not there, unfinished, or what a program has written.
Readable(file) == file \in {NoContent, Broken} \/ (file \in Contents /\ Sound(file))

\* What is in memory and in every file but an unfinished one is sound.
SoundEverywhere ==
    /\ Sound(state)
    /\ \A p \in Paths : Readable(disk[p])
    /\ \A p \in Processes : Readable(autosaves[p])
    /\ kept # Broken

\* The box has an entry for each camera but the first, by its place.
BoxFits ==
    /\ DOMAIN comboCamera = 1..(Len(state.savedCameras) - 1)
    /\ \A i \in DOMAIN comboCamera : comboCamera[i].offset = i + 1

\* Storing and removing cameras confuses neither the names nor the box.
CamerasKnown ==
    /\ Passing =>
          NamesRight(state.savedCameras) /\ comboCamera = updateCameraComboBox(state)
    /\ cameraNote = "" =>
          InRange(state) /\ activeCam = state.savedCameras[state.activeCamera]

\* The last complete autosave was moved away, or is the file of a process that
\* has ended, or of the running one, which has more and may be writing it anew.
KeptSomewhere ==
    /\ mode = "off" => ~heir
    /\ kept # NoContent /\ mishap = {} =>
          \/ kept \in oldAutosave
          \/ \E p \in 1..(process - 1) : autosaves[p] = kept
          \/ autosaves[process] = kept /\ (heir \/ mode = "off")
          \/ heir /\ mode = "autosaving"

\* What was changed since a file was read or written raised the level, which only
\* an autosave takes back.
Raised == unsaved /\ ~counted => stateModifyLevel # NONE

IInv == TypeOK /\ SoundEverywhere /\ BoxFits /\ CamerasKnown /\ KeptSomewhere /\ Raised

\* A box that was just filled fits.
LEMMA BoxFilled ==
    ASSUME NEW s \in Analyses, Sound(s)
    PROVE  /\ DOMAIN updateCameraComboBox(s) = 1..(Len(s.savedCameras) - 1)
           /\ \A i \in DOMAIN updateCameraComboBox(s) :
                 updateCameraComboBox(s)[i].offset = i + 1
           /\ updateCameraComboBox(s) # <<>> <=> Len(s.savedCameras) # 1
<1> DEFINE n == Len(s.savedCameras) - 1
           entry(i) == [name |-> s.savedCameras[i + 1], offset |-> i + 1]
           box == [i \in 1..n |-> entry(i)]
<1>1. n \in Nat /\ Len(s.savedCameras) = n + 1
  <2>1. s.savedCameras \in Seq(Cameras) /\ s.savedCameras # <<>> BY FieldsOf DEF Sound
  <2> QED BY <2>1
<1>2. updateCameraComboBox(s) = box BY DEF updateCameraComboBox
<1>3. \A i \in 1..n : entry(i).offset = i + 1 OBVIOUS
<1> HIDE DEF n, entry
<1>4. DOMAIN box = 1..n /\ \A i \in 1..n : box[i] = entry(i) OBVIOUS
<1>5. box # <<>> <=> n # 0
  <2>1. ASSUME n = 0 PROVE box = <<>> BY <2>1
  <2>2. ASSUME box = <<>> PROVE n = 0
    <3>1. DOMAIN <<>> = {} OBVIOUS
    <3>2. 1..n = {} BY <3>1, <2>2, <1>4
    <3> QED BY <3>2, <1>1
  <2> QED BY <2>1, <2>2
<1> HIDE DEF box
<1>6. n # 0 <=> Len(s.savedCameras) # 1 BY <1>1
<1> QED BY <1>1, <1>2, <1>3, <1>4, <1>5, <1>6 DEF n

\* A change raises the level unless it only edits the tree.
LEMMA Leveled ==
    ASSUME IInv, NEW s, NEW level \in NONE..DATA, NEW treeOnly \in BOOLEAN,
           Change(s, level, treeOnly), treeOnly \/ level # NONE
    PROVE  /\ state' = s /\ stateModifyLevel' \in NONE..DATA
           /\ unsaved' \in BOOLEAN /\ counted' \in BOOLEAN /\ asked' \in BOOLEAN /\ Raised'
<1>1. stateModifyLevel \in NONE..DATA BY DEF IInv, TypeOK
<1>2. /\ stateModifyLevel' \in NONE..DATA
      /\ level # NONE => stateModifyLevel' # NONE
      /\ stateModifyLevel # NONE => stateModifyLevel' # NONE
  BY <1>1 DEF Change, setStateModifyLevel, NONE, DATA
<1>3. /\ unsaved' = (unsaved \/ ~treeOnly) /\ counted' = (counted /\ level = NONE)
      /\ asked' = FALSE /\ state' = s
  BY DEF Change
<1>4. unsaved' \in BOOLEAN /\ counted' \in BOOLEAN /\ asked' \in BOOLEAN
  BY <1>3
<1>5. Raised'
  <2> SUFFICES ASSUME unsaved', ~counted' PROVE stateModifyLevel' # NONE BY DEF Raised
  <2>1. CASE level # NONE BY <2>1, <1>2
  <2>2. CASE level = NONE
    <3>1. unsaved /\ ~counted BY <2>2, <1>3
    <3> QED BY <3>1, <1>2 DEF IInv, Raised
  <2> QED BY <2>1, <2>2
<1> QED BY <1>2, <1>3, <1>4, <1>5

\* Whatever the window does to the analysis alone, it has to keep sound what is
\* in memory, the level and the box.
LEMMA Edited ==
    ASSUME IInv, Idle, UNCHANGED <<files, running, memory>>,
           state' \in Analyses, Sound(state'), stateModifyLevel' \in NONE..DATA,
           activeCam' \in Cameras, fileSave' \in BOOLEAN, asked' \in BOOLEAN,
           unsaved' \in BOOLEAN, counted' \in BOOLEAN,
           Raised', BoxFits', CamerasKnown'
    PROVE  IInv'
<1>1. UNCHANGED <<disk, autosaves, oldAutosave, target, process, mode, held, kept, heir,
                  mishap>>
  BY DEF files, running, memory
<1>2. TypeOK'
  <2>1. heir \in BOOLEAN BY DEF IInv, TypeOK
  <2>2. \A flag \in {fileSave', asked', unsaved', counted', heir'} : flag \in BOOLEAN
    BY <2>1, <1>1
  <2>3. held' = {} BY <1>1 DEF Idle
  <2> QED BY <2>2, <2>3, <1>1 DEF IInv, TypeOK
<1>3. SoundEverywhere' BY <1>1 DEF IInv, SoundEverywhere
<1>4. KeptSomewhere' BY <1>1 DEF IInv, KeptSomewhere
<1> QED BY <1>2, <1>3, <1>4 DEF IInv

\* When cameras are left alone the box fits on.
LEMMA SameCameras ==
    ASSUME IInv, UNCHANGED <<activeCam, comboCamera, cameraNote>>,
           state'.savedCameras = state.savedCameras,
           state'.activeCamera = state.activeCamera
    PROVE  BoxFits' /\ CamerasKnown'
<1>1. updateCameraComboBox(state)' = updateCameraComboBox(state)
  BY DEF updateCameraComboBox
<1>2. BoxFits' BY DEF IInv, BoxFits
<1>3. CamerasKnown' BY <1>1 DEF IInv, CamerasKnown, Passing, InRange
<1> QED BY <1>2, <1>3

-----------------------------------------------------------------------------
(* Every step keeps the invariant.                                         *)

\* An edit of the tree or of the stashes.
LEMMA EditedTree ==
    ASSUME IInv, Idle, NEW s \in Analyses, Sound(s),
           NEW level \in NONE..DATA, NEW treeOnly \in BOOLEAN,
           Change(s, level, treeOnly), treeOnly \/ level # NONE,
           s.savedCameras = state.savedCameras, s.activeCamera = state.activeCamera,
           UNCHANGED <<activeCam, comboCamera, fileSave, cameraNote, files, running, memory>>
    PROVE  IInv'
<1>1. /\ state' = s /\ stateModifyLevel' \in NONE..DATA
      /\ unsaved' \in BOOLEAN /\ counted' \in BOOLEAN /\ asked' \in BOOLEAN /\ Raised'
  BY Leveled
<1>2. BoxFits' /\ CamerasKnown' BY <1>1, SameCameras
<1>3. activeCam' \in Cameras /\ fileSave' \in BOOLEAN BY DEF IInv, TypeOK
<1> QED BY <1>1, <1>2, <1>3, Edited

LEMMA TreeSteps ==
    ASSUME IInv, EditTree \/ OnEditUndo \/ OnFileOpenData \/ OnComboStash
    PROVE  IInv'
<1>. /\ NONE \in NONE..DATA /\ DATA \in NONE..DATA /\ DATA # NONE
  BY DEF NONE, DATA
<1>1. state \in Analyses /\ Sound(state) BY DEF IInv, TypeOK, SoundEverywhere
<1>2. state.tree \in SUBSET Branches /\ state.undo \in Seq(SUBSET Branches)
  BY <1>1, FieldsOf
<1> DEFINE Edit(tree, undo) == [state EXCEPT !.tree = tree, !.undo = undo]
<1>3. ASSUME NEW tree \in SUBSET Branches, NEW undo \in Seq(SUBSET Branches)
      PROVE  /\ Edit(tree, undo) \in Analyses /\ Sound(Edit(tree, undo))
             /\ Edit(tree, undo).savedCameras = state.savedCameras
             /\ Edit(tree, undo).activeCamera = state.activeCamera
             /\ Edit(tree, undo).stashedTrees = state.stashedTrees
  <2>1. /\ Edit(tree, undo) \in Analyses
        /\ Edit(tree, undo).savedCameras = state.savedCameras
        /\ Edit(tree, undo).activeCamera = state.activeCamera
        /\ Edit(tree, undo).stashedTrees = state.stashedTrees
    BY <1>1 DEF Analyses
  <2> QED BY <2>1, <1>1, Retold
<1>4. CASE EditTree
  <2>1. PICK tree \in SUBSET Branches : Change(Edit(tree, <<state.tree>>), NONE, TRUE)
    BY <1>4 DEF EditTree
  <2>2. <<state.tree>> \in Seq(SUBSET Branches) BY <1>2
  <2> DEFINE s == Edit(tree, <<state.tree>>)
  <2>3. /\ s \in Analyses /\ Sound(s) /\ s.savedCameras = state.savedCameras
        /\ s.activeCamera = state.activeCamera
    BY <2>2, <1>3
  <2> HIDE DEF s
  <2>4. Change(s, NONE, TRUE) BY <2>1 DEF s
  <2> QED BY <2>3, <2>4, <1>4, EditedTree DEF EditTree
<1>5. CASE OnEditUndo
  <2> DEFINE n == Len(state.undo)
             tree == Last(state.undo)
             undo == Front(state.undo)
             s == Edit(tree, undo)
  <2>1. Change(s, DATA, FALSE) /\ state.undo # <<>>
    <3>1. Change([state EXCEPT !.tree = Last(state.undo), !.undo = Front(@)], DATA, FALSE)
      BY <1>5 DEF OnEditUndo
    <3>2. [state EXCEPT !.tree = Last(state.undo), !.undo = Front(@)] = s
      BY <1>1 DEF Analyses
    <3> QED BY <3>1, <3>2, <1>5 DEF OnEditUndo
  <2>2. n \in Nat \ {0} BY <2>1, <1>2
  <2>3. tree \in SUBSET Branches BY <2>2, <1>2 DEF Last
  <2>4. undo \in Seq(SUBSET Branches)
    <3>1. undo = SubSeq(state.undo, 1, n - 1) BY DEF Front
    <3> QED BY <3>1, <2>2, <1>2
  <2>5. /\ s \in Analyses /\ Sound(s) /\ s.savedCameras = state.savedCameras
        /\ s.activeCamera = state.activeCamera
    BY <2>3, <2>4, <1>3
  <2> HIDE DEF s
  <2> QED BY <2>1, <2>5, <1>5, EditedTree DEF OnEditUndo
<1>6. CASE OnFileOpenData
  <2>1. PICK b \in Branches : Change([state EXCEPT !.tree = @ \cup {b}], NONE, TRUE)
    BY <1>6 DEF OnFileOpenData
  <2> DEFINE s == [state EXCEPT !.tree = @ \cup {b}]
  <2>2. /\ s \in Analyses /\ s.savedCameras = state.savedCameras
        /\ s.activeCamera = state.activeCamera /\ s.stashedTrees = state.stashedTrees
    BY <1>1 DEF Analyses
  <2>3. Change(s, NONE, TRUE) BY <2>1
  <2> HIDE DEF s
  <2>4. Sound(s) BY <2>2, <1>1, Retold
  <2> QED BY <2>2, <2>3, <2>4, <1>6, EditedTree DEF OnFileOpenData
<1>7. CASE OnComboStash
  <2>1. PICK n \in DOMAIN state.stashedTrees :
           Change([addStashedToFilters(state, n) EXCEPT !.undo = <<state.tree>>], NONE, TRUE)
    BY <1>7 DEF OnComboStash
  <2> DEFINE tree == state.tree \cup FirstBranch(state.stashedTrees[n].tree)
             s == Edit(tree, <<state.tree>>)
  <2>2. [addStashedToFilters(state, n) EXCEPT !.undo = <<state.tree>>] = s
    BY <1>1 DEF addStashedToFilters, Analyses
  <2>3. tree \in SUBSET Branches
    <3>1. state.stashedTrees[n] \in Stashes BY <1>1, FieldsOf
    <3>2. FirstBranch(state.stashedTrees[n].tree) \in SUBSET Branches
      BY <3>1, FirstBranchIs DEF Stashes
    <3> QED BY <3>2, <1>2
  <2>4. <<state.tree>> \in Seq(SUBSET Branches) BY <1>2
  <2>5. /\ s \in Analyses /\ Sound(s) /\ s.savedCameras = state.savedCameras
        /\ s.activeCamera = state.activeCamera
    BY <2>3, <2>4, <1>3
  <2>6. Change(s, NONE, TRUE) BY <2>1, <2>2
  <2> HIDE DEF s
  <2> QED BY <2>5, <2>6, <1>7, EditedTree DEF OnComboStash
<1> QED BY <1>4, <1>5, <1>6, <1>7

LEMMA StashSteps ==
    ASSUME IInv, OnComboStashEnter \/ OnBtnRemove
    PROVE  IInv'
<1>. ANCILLARY \in NONE..DATA /\ ANCILLARY # NONE BY DEF NONE, ANCILLARY, DATA
<1>1. state \in Analyses /\ Sound(state) BY DEF IInv, TypeOK, SoundEverywhere
<1>2. CASE OnComboStashEnter
  <2>1. PICK name, branch :
           /\ name \in StashNames \ Names(state.stashedTrees) /\ branch \in state.tree
           /\ Change(stashFilters(state, {branch}, name), ANCILLARY, FALSE)
    BY <1>2 DEF OnComboStashEnter
  <2> DEFINE s == stashFilters(state, {branch}, name)
  <2>2. {branch} \in SUBSET Branches /\ {branch} # {} BY <2>1, <1>1, FieldsOf
  <2>3. s \in Analyses /\ Sound(s) BY <2>1, <2>2, <1>1, StashedIs
  <2>4. s.savedCameras = state.savedCameras /\ s.activeCamera = state.activeCamera
    BY <1>1 DEF stashFilters, Analyses
  <2> HIDE DEF s
  <2>5. Change(s, ANCILLARY, FALSE) BY <2>1 DEF s
  <2> QED BY <2>3, <2>4, <2>5, <1>2, EditedTree DEF OnComboStashEnter
<1>3. CASE OnBtnRemove
  <2>1. PICK offsets : Change(eraseStashes(state, offsets), ANCILLARY, FALSE)
    BY <1>3 DEF OnBtnRemove
  <2> DEFINE s == eraseStashes(state, offsets)
  <2>2. s \in Analyses /\ Sound(s) BY <1>1, ErasedIs
  <2>3. s.savedCameras = state.savedCameras /\ s.activeCamera = state.activeCamera
    BY <1>1 DEF eraseStashes, Analyses
  <2> HIDE DEF s
  <2>4. Change(s, ANCILLARY, FALSE) BY <2>1 DEF s
  <2> QED BY <2>2, <2>3, <2>4, <1>3, EditedTree DEF OnBtnRemove
<1> QED BY <1>2, <1>3

LEMMA SaveStatusIs ==
    ASSUME NEW s, NEW level
    PROVE  setSaveStatus(s, level) \in BOOLEAN
BY DEF setSaveStatus

\* The entries of the box stand for the cameras but the first.
LEMMA EntryIs ==
    ASSUME IInv, NEW i \in DOMAIN comboCamera
    PROVE  comboCamera[i].offset \in 2..Len(state.savedCameras)
<1>1. Len(state.savedCameras) \in Nat BY FieldsOf DEF IInv, TypeOK
<1>2. i \in 1..(Len(state.savedCameras) - 1) /\ comboCamera[i].offset = i + 1
  BY DEF IInv, BoxFits
<1> QED BY <1>1, <1>2

LEMMA CameraSteps ==
    ASSUME IInv,
           setLockUI \/ OnComboCameraEnter \/ OnComboCamera \/ OnButtonRemoveCam
           \/ transferSceneCameraToState
    PROVE  IInv'
<1>. /\ ANCILLARY \in NONE..DATA /\ ANCILLARY # NONE /\ VIEW \in NONE..DATA /\ VIEW # NONE
  BY DEF NONE, VIEW, ANCILLARY, DATA
<1>1. state \in Analyses /\ Sound(state) /\ activeCam \in Cameras
  BY DEF IInv, TypeOK, SoundEverywhere
<1>2. /\ state.savedCameras \in Seq(Cameras) /\ state.activeCamera \in Nat
      /\ DOMAIN state.savedCameras = 1..Len(state.savedCameras)
      /\ Len(state.savedCameras) \in Nat
  BY <1>1, FieldsOf
<1>3. /\ stateModifyLevel \in NONE..DATA /\ unsaved \in BOOLEAN /\ counted \in BOOLEAN
      /\ asked \in BOOLEAN /\ fileSave \in BOOLEAN
  BY DEF IInv, TypeOK
<1>4. ASSUME UNCHANGED <<stateModifyLevel, unsaved, counted>> PROVE Raised'
  BY <1>4 DEF IInv, Raised
<1>5. CASE setLockUI
  <2>1. UNCHANGED <<state, stateModifyLevel, unsaved, counted, activeCam, comboCamera,
                    cameraNote>> /\ asked' = FALSE
    BY <1>5 DEF setLockUI, analysis
  <2>2. BoxFits' /\ CamerasKnown' BY <2>1, SameCameras
  <2>3. fileSave' \in BOOLEAN BY <1>5, SaveStatusIs DEF setLockUI
  <2>4. asked' \in BOOLEAN BY <2>1
  <2>5. state' \in Analyses /\ Sound(state') BY <1>1, <2>1
  <2>6. Idle /\ UNCHANGED <<files, running, memory>> BY <1>5 DEF setLockUI
  <2> QED BY <1>1, <1>3, <1>4, <2>1, <2>2, <2>3, <2>4, <2>5, <2>6, Edited
<1>6. CASE OnComboCameraEnter
  <2>1. PICK name \in CameraNames :
           /\ name \notin {comboCamera[i].name : i \in DOMAIN comboCamera}
           /\ Change(addCam(state, name), ANCILLARY, FALSE)
           /\ comboCamera' = updateCameraComboBox(addCam(state, name))
    BY <1>6 DEF OnComboCameraEnter
  <2> DEFINE s == addCam(state, name)
  <2>2. /\ s \in Analyses /\ Sound(s)
        /\ NamesRight(state.savedCameras)
           /\ (\A i \in DOMAIN updateCameraComboBox(state) :
                  updateCameraComboBox(state)[i].name # name)
           => NamesRight(s.savedCameras)
    BY <1>1, StoredIs
  <2> HIDE DEF s
  <2>3. /\ state' = s /\ stateModifyLevel' \in NONE..DATA
        /\ unsaved' \in BOOLEAN /\ counted' \in BOOLEAN /\ asked' \in BOOLEAN /\ Raised'
    BY <2>1, Leveled DEF s
  <2>4. comboCamera' = updateCameraComboBox(s) BY <2>1 DEF s
  <2>5. BoxFits' BY <2>2, <2>3, <2>4, BoxFilled DEF BoxFits
  <2>6. CamerasKnown'
    <3>1. cameraNote' = IF Passing THEN "stored" ELSE cameraNote
      BY <1>6 DEF OnComboCameraEnter
    <3>2. cameraNote' # "" /\ (Passing' => Passing) BY <3>1 DEF Passing
    <3>3. ASSUME Passing PROVE NamesRight(s.savedCameras)
      <4>1. NamesRight(state.savedCameras) /\ comboCamera = updateCameraComboBox(state)
        BY <3>3 DEF IInv, CamerasKnown
      <4>2. \A i \in DOMAIN updateCameraComboBox(state) :
               updateCameraComboBox(state)[i].name # name
        BY <4>1, <2>1
      <4> QED BY <4>1, <4>2, <2>2
    <3>4. updateCameraComboBox(state)' = updateCameraComboBox(s)
      BY <2>3 DEF updateCameraComboBox
    <3> QED BY <3>2, <3>3, <3>4, <2>3, <2>4 DEF CamerasKnown
  <2>7. fileSave' \in BOOLEAN BY <1>6, SaveStatusIs DEF OnComboCameraEnter, setSaveStatus
  <2>8. activeCam' \in Cameras BY <1>1, <1>6 DEF OnComboCameraEnter
  <2>9. Idle /\ UNCHANGED <<files, running, memory>> BY <1>6 DEF OnComboCameraEnter
  <2> QED BY <2>2, <2>3, <2>5, <2>6, <2>7, <2>8, <2>9, Edited
<1>7. CASE OnComboCamera
  <2>1. PICK i \in DOMAIN comboCamera :
           /\ state' = [state EXCEPT !.activeCamera = comboCamera[i].offset]
           /\ activeCam' = state.savedCameras[comboCamera[i].offset]
    BY <1>7 DEF OnComboCamera
  <2>2. PICK n \in 2..Len(state.savedCameras) : n = comboCamera[i].offset BY EntryIs
  <2>3. n \in Nat /\ n \in DOMAIN state.savedCameras BY <1>2
  <2>4. /\ state' \in Analyses /\ state'.savedCameras = state.savedCameras
        /\ state'.stashedTrees = state.stashedTrees /\ state'.activeCamera = n
    BY <1>1, <2>1, <2>2, <2>3 DEF Analyses
  <2>5. Sound(state') BY <1>1, <2>4, Retold
  <2>6. activeCam' = state.savedCameras[n] /\ activeCam' \in Cameras
    BY <1>2, <2>1, <2>2, <2>3
  <2>7. /\ UNCHANGED <<stateModifyLevel, unsaved, counted, comboCamera>> /\ asked' = FALSE
        /\ cameraNote' = IF Passing THEN "" ELSE cameraNote
    BY <1>7 DEF OnComboCamera
  <2>8. BoxFits' BY <2>4, <2>7 DEF IInv, BoxFits
  <2>9. CamerasKnown'
    <3>1. (Passing' => Passing) BY <2>7 DEF Passing
    <3>2. updateCameraComboBox(state)' = updateCameraComboBox(state)
      BY <2>4 DEF updateCameraComboBox
    <3>3. InRange(state)' /\ activeCam' = (state.savedCameras[state.activeCamera])'
      BY <2>3, <2>4, <2>6 DEF InRange
    <3> QED BY <3>1, <3>2, <3>3, <2>4, <2>7 DEF IInv, CamerasKnown
  <2>10. fileSave' \in BOOLEAN BY <1>7, SaveStatusIs DEF OnComboCamera
  <2>11. asked' \in BOOLEAN BY <2>7
  <2>12. Idle /\ UNCHANGED <<files, running, memory>> BY <1>7 DEF OnComboCamera
  <2> QED BY <1>3, <1>4, <2>4, <2>5, <2>6, <2>7, <2>8, <2>9, <2>10, <2>11, <2>12, Edited
<1>8. CASE OnButtonRemoveCam
  <2>1. PICK i \in DOMAIN comboCamera :
           /\ Change(removeCam(state, comboCamera[i].offset), ANCILLARY, FALSE)
           /\ comboCamera' = updateCameraComboBox(removeCam(state, comboCamera[i].offset))
           /\ cameraNote' = IF Passing /\ comboCamera[i].offset <= state.activeCamera
                            THEN "removed" ELSE cameraNote
    BY <1>8 DEF OnButtonRemoveCam
  <2>2. PICK n \in 2..Len(state.savedCameras) : n = comboCamera[i].offset BY EntryIs
  <2> DEFINE s == removeCam(state, n)
  <2>3. /\ s \in Analyses /\ Sound(s)
        /\ NamesRight(state.savedCameras) => NamesRight(s.savedCameras)
        /\ state.activeCamera \in 1..(n - 1) =>
              /\ s.activeCamera \in DOMAIN s.savedCameras
              /\ s.savedCameras[s.activeCamera] = state.savedCameras[state.activeCamera]
    BY <1>1, RemovedIs
  <2>4. /\ Change(s, ANCILLARY, FALSE) /\ comboCamera' = updateCameraComboBox(s)
        /\ cameraNote' = IF Passing /\ n <= state.activeCamera THEN "removed" ELSE cameraNote
    BY <2>1, <2>2
  <2> HIDE DEF s
  <2>5. /\ state' = s /\ stateModifyLevel' \in NONE..DATA
        /\ unsaved' \in BOOLEAN /\ counted' \in BOOLEAN /\ asked' \in BOOLEAN /\ Raised'
    BY <2>4, Leveled
  <2>6. BoxFits' BY <2>3, <2>4, <2>5, BoxFilled DEF BoxFits
  <2>7. CamerasKnown'
    <3>1. (Passing' => Passing)
      BY <2>4 DEF Passing
    <3>2. updateCameraComboBox(state)' = updateCameraComboBox(s)
      BY <2>5 DEF updateCameraComboBox
    <3>3. ASSUME cameraNote' = ""
          PROVE  InRange(state)' /\ activeCam' = (state.savedCameras[state.activeCamera])'
      <4>1. cameraNote = "" /\ ~(n <= state.activeCamera) BY <2>4, <3>3 DEF Passing
      <4>2. InRange(state) /\ activeCam = state.savedCameras[state.activeCamera]
        BY <4>1 DEF IInv, CamerasKnown
      <4>3. state.activeCamera \in 1..(n - 1)
        <5> DEFINE a == state.activeCamera
                   l == Len(state.savedCameras)
        <5>1. a \in 1..l /\ l \in Nat /\ n \in 2..l /\ ~(n <= a)
          BY <4>1, <4>2, <1>2 DEF InRange
        <5> HIDE DEF a, l
        <5>2. a \in 1..(n - 1) BY <5>1
        <5> QED BY <5>2 DEF a
      <4>4. activeCam' = activeCam BY <1>8 DEF OnButtonRemoveCam
      <4> QED BY <4>2, <4>3, <4>4, <2>3, <2>5 DEF InRange
    <3> QED BY <3>1, <3>2, <3>3, <2>3, <2>4, <2>5 DEF IInv, CamerasKnown
  <2>8. fileSave' \in BOOLEAN BY <1>8, SaveStatusIs DEF OnButtonRemoveCam, setSaveStatus
  <2>9. activeCam' \in Cameras BY <1>1, <1>8 DEF OnButtonRemoveCam
  <2>10. Idle /\ UNCHANGED <<files, running, memory>> BY <1>8 DEF OnButtonRemoveCam
  <2> QED BY <2>3, <2>5, <2>6, <2>7, <2>8, <2>9, <2>10, Edited
<1>9. CASE transferSceneCameraToState
  <2> DEFINE s == setCameraByClone(state, activeCam, state.activeCamera)
  <2>1. /\ s \in Analyses /\ Sound(s) /\ Len(s.savedCameras) = Len(state.savedCameras)
        /\ activeCam = state.savedCameras[state.activeCamera] => s = state
    <3>1. InRange(state) BY <1>9 DEF transferSceneCameraToState
    <3> QED BY <1>1, <3>1, ClonedIs
  <2>2. Change(s, VIEW, FALSE) BY <1>9 DEF transferSceneCameraToState
  <2> HIDE DEF s
  <2>3. /\ state' = s /\ stateModifyLevel' \in NONE..DATA
        /\ unsaved' \in BOOLEAN /\ counted' \in BOOLEAN /\ asked' \in BOOLEAN /\ Raised'
    BY <2>2, Leveled
  <2>4. /\ cameraNote' = IF activeCam = state.savedCameras[state.activeCamera]
                         THEN cameraNote ELSE "overwritten"
        /\ UNCHANGED <<activeCam, comboCamera>>
    BY <1>9 DEF transferSceneCameraToState
  <2>5. BoxFits' BY <2>1, <2>3, <2>4 DEF IInv, BoxFits
  <2>6. CamerasKnown'
    <3>1. CASE activeCam = state.savedCameras[state.activeCamera]
      <4>1. state' = state /\ cameraNote' = cameraNote BY <3>1, <2>1, <2>3, <2>4
      <4> QED BY <4>1, <2>4, SameCameras
    <3>2. CASE activeCam # state.savedCameras[state.activeCamera]
      <4>1. cameraNote' = "overwritten" BY <3>2, <2>4
      <4> QED BY <4>1 DEF CamerasKnown, Passing
    <3> QED BY <3>1, <3>2
  <2>7. fileSave' \in BOOLEAN
    BY <1>9, SaveStatusIs DEF transferSceneCameraToState, setSaveStatus
  <2>8. activeCam' \in Cameras BY <1>1, <2>4
  <2>9. Idle /\ UNCHANGED <<files, running, memory>> BY <1>9 DEF transferSceneCameraToState
  <2> QED BY <2>1, <2>3, <2>5, <2>6, <2>7, <2>8, <2>9, Edited
<1> QED BY <1>5, <1>6, <1>7, <1>8, <1>9

\* Autosaves are kept where they are while none is written and nothing ends.
LEMMA KeptOn ==
    ASSUME IInv, UNCHANGED <<autosaves, oldAutosave, process, memory>>,
           mode \notin {"off", "autosaving"}, mode' \notin {"off", "autosaving"}
    PROVE  KeptSomewhere'
BY DEF IInv, KeptSomewhere, memory

\* The flags are one or the other.
LEMMA FlagsAre ==
    IInv => /\ fileSave \in BOOLEAN /\ asked \in BOOLEAN /\ unsaved \in BOOLEAN
            /\ counted \in BOOLEAN /\ heir \in BOOLEAN
BY DEF IInv, TypeOK

LEMMA PathsAre ==
    /\ Bare \in Paths /\ Xml \in Paths /\ Bare # Xml
    /\ \A p \in Paths : p \in FileNames
    /\ NoFile \in FileNames /\ \A p \in Processes : AutosavePath(p) \in FileNames
<1>1. Bare \in Paths /\ Xml \in Paths BY DEF Paths
<1>2. Bare # Xml
  <2>1. Len(Bare) = 1 /\ Len(Xml) = 2 BY DEF Bare, Xml
  <2> QED BY <2>1
<1> QED BY <1>1, <1>2 DEF FileNames

LEMMA SaveBegins ==
    ASSUME IInv, OnFileSave \/ OnFileSaveAs
    PROVE  IInv'
<1>1. PICK file, path :
         /\ file \in Paths /\ path \in Paths /\ BeginSave(file, path) /\ Idle
  BY PathsAre DEF OnFileSave, OnFileSaveAs
<1>2. /\ UNCHANGED <<state, stateModifyLevel, unsaved, counted, activeCam, comboCamera,
                     fileSave, cameraNote, autosaves, oldAutosave, process, held, memory>>
      /\ kept' = kept /\ heir' = heir
      /\ asked' = FALSE /\ mode' = "saving" /\ target' = [file |-> file, path |-> path]
      /\ disk' = [disk EXCEPT ![file] = Broken]
  BY <1>1 DEF BeginSave, analysis, memory
<1>3. target' \in [file : Paths, path : Paths] BY <1>1, <1>2
<1>4. \A flag \in {fileSave', asked', unsaved', counted', heir'} : flag \in BOOLEAN
  BY <1>2, FlagsAre
<1>5. disk \in [Paths -> Contents \cup {NoContent, Broken}] BY DEF IInv, TypeOK
<1>6. disk' \in [Paths -> Contents \cup {NoContent, Broken}] BY <1>2, <1>5
<1>7. TypeOK'
  <2>1. held' = {} BY <1>1, <1>2 DEF Idle
  <2> QED BY <2>1, <1>2, <1>3, <1>4, <1>6 DEF IInv, TypeOK
<1>8. SoundEverywhere'
  <2>1. \A p \in Paths : Readable(disk'[p])
    <3>1. \A p \in Paths : disk'[p] = Broken \/ disk'[p] = disk[p] BY <1>1, <1>2, <1>5
    <3> QED BY <3>1 DEF IInv, SoundEverywhere, Readable
  <2> QED BY <2>1, <1>2 DEF IInv, SoundEverywhere
<1>9. BoxFits' /\ CamerasKnown' BY <1>2, SameCameras
<1>10. KeptSomewhere' BY <1>1, <1>2, KeptOn DEF Idle
<1>11. Raised' BY <1>2 DEF IInv, Raised
<1> QED BY <1>7, <1>8, <1>9, <1>10, <1>11 DEF IInv

LEMMA SaveEnds ==
    ASSUME IInv, SaveDone
    PROVE  IInv'
<1>1. /\ UNCHANGED <<activeCam, comboCamera, cameraNote, autosaves, oldAutosave, process,
                     held, memory>>
      /\ kept' = kept /\ heir' = heir
      /\ mode = "saving" /\ mode' = "running" /\ target' = NoFile /\ asked' = FALSE
  BY DEF SaveDone, memory
<1>2. /\ state \in Analyses /\ Sound(state) /\ target \in [file : Paths, path : Paths]
      /\ disk \in [Paths -> Contents \cup {NoContent, Broken}]
  BY <1>1 DEF IInv, TypeOK, SoundEverywhere
<1>3. /\ state' \in Analyses /\ Sound(state')
      /\ state'.savedCameras = state.savedCameras
      /\ state'.activeCamera = state.activeCamera /\ state'.tree = state.tree
      /\ \A p \in Paths : Readable(disk'[p])
      /\ disk' \in [Paths -> Contents \cup {NoContent, Broken}]
      /\ stateModifyLevel' \in NONE..DATA /\ unsaved' \in BOOLEAN /\ counted' \in BOOLEAN
      /\ fileSave' \in BOOLEAN /\ Raised'
  <2>1. \A p \in Paths : Readable(disk[p]) BY DEF IInv, SoundEverywhere
  <2>2. CASE /\ disk' = [disk EXCEPT ![target.file] = Saved(state)]
             /\ state' = [state EXCEPT !.fileName = target.path]
             /\ stateModifyLevel' = NONE /\ unsaved' = FALSE /\ counted' = FALSE
             /\ fileSave' = FALSE
    <3>1. target.file \in Paths /\ target.path \in Paths BY <1>2
    <3>2. Saved(state) \in Contents /\ Readable(Saved(state))
      BY <1>2, SavedIs DEF Readable
    <3>3. /\ disk' \in [Paths -> Contents \cup {NoContent, Broken}]
          /\ \A p \in Paths : disk'[p] = Saved(state) \/ disk'[p] = disk[p]
      BY <2>2, <3>1, <3>2, <1>2
    <3>4. /\ state' \in Analyses
          /\ state'.savedCameras = state.savedCameras
          /\ state'.activeCamera = state.activeCamera /\ state'.tree = state.tree
          /\ state'.stashedTrees = state.stashedTrees
      BY <2>2, <3>1, <1>2 DEF Analyses
    <3>5. Sound(state') BY <3>4, <1>2, Retold
    <3>6. \A p \in Paths : Readable(disk'[p]) BY <3>2, <3>3, <2>1
    <3>7. NONE \in NONE..DATA BY DEF NONE, DATA
    <3>8. Raised' BY <2>2 DEF Raised
    <3> QED BY <2>2, <3>3, <3>4, <3>5, <3>6, <3>7, <3>8
  <2>3. CASE fileSave' = setSaveStatus(state, stateModifyLevel) /\ UNCHANGED <<disk, analysis>>
    <3>1. UNCHANGED <<disk, state, stateModifyLevel, unsaved, counted>> BY <2>3 DEF analysis
    <3>2. Raised' BY <3>1 DEF IInv, Raised
    <3>3. fileSave' \in BOOLEAN BY <2>3, SaveStatusIs
    <3>4. stateModifyLevel \in NONE..DATA BY DEF IInv, TypeOK
    <3> QED BY <1>2, <2>1, <3>1, <3>2, <3>3, <3>4, FlagsAre
  <2> QED BY <2>2, <2>3 DEF SaveDone
<1>4. \A flag \in {fileSave', asked', unsaved', counted', heir'} : flag \in BOOLEAN
  BY <1>1, <1>3, FlagsAre
<1>5. TypeOK' BY <1>1, <1>3, <1>4 DEF IInv, TypeOK
<1>6. SoundEverywhere' BY <1>1, <1>3 DEF IInv, SoundEverywhere
<1>7. BoxFits' /\ CamerasKnown' BY <1>1, <1>3, SameCameras
<1>8. KeptSomewhere' BY <1>1, KeptOn
<1> QED BY <1>3, <1>5, <1>6, <1>7, <1>8 DEF IInv

\* The tree goes to the animation's dialog and comes back.
LEMMA AnimationSteps ==
    ASSUME IInv, OpenAnimation \/ CloseAnimation
    PROVE  IInv'
<1>1. state \in Analyses /\ Sound(state) /\ held \in SUBSET Branches
  BY DEF IInv, TypeOK, SoundEverywhere
<1>2. /\ UNCHANGED <<stateModifyLevel, unsaved, counted, activeCam, comboCamera, fileSave,
                     cameraNote, files, process, mode, memory>>
      /\ asked' = FALSE /\ mode = "running"
  BY DEF OpenAnimation, CloseAnimation, Idle
<1>3. UNCHANGED <<disk, autosaves, oldAutosave, target, kept, heir>>
  BY <1>2 DEF files, memory
<1>4. PICK tree \in SUBSET Branches :
         /\ state' = [state EXCEPT !.tree = tree] /\ held' \in SUBSET Branches
         /\ held' # {} => tree = {}
  BY <1>1, FieldsOf DEF OpenAnimation, CloseAnimation
<1>5. /\ state' \in Analyses /\ state'.savedCameras = state.savedCameras
      /\ state'.activeCamera = state.activeCamera /\ state'.tree = tree
      /\ state'.stashedTrees = state.stashedTrees
  BY <1>1, <1>4 DEF Analyses
<1>6. Sound(state') BY <1>1, <1>5, Retold
<1>7. \A flag \in {fileSave', asked', unsaved', counted', heir'} : flag \in BOOLEAN
  BY <1>2, <1>3, FlagsAre
<1>8. TypeOK' BY <1>2, <1>3, <1>4, <1>5, <1>7 DEF IInv, TypeOK
<1>9. SoundEverywhere' BY <1>3, <1>6 DEF IInv, SoundEverywhere
<1>10. BoxFits' /\ CamerasKnown' BY <1>2, <1>5, SameCameras
<1>11. KeptSomewhere' BY <1>2, <1>3, KeptOn
<1>12. Raised' BY <1>2 DEF IInv, Raised
<1> QED BY <1>8, <1>9, <1>10, <1>11, <1>12 DEF IInv

\* What is shown of an analysis whose cameras have names of their own.
LEMMA Shown ==
    ASSUME IInv, state' \in Analyses, Sound(state'), NamesRight(state'.savedCameras),
           NEW file, ShowLoaded(state', file), CamerasSound(file) => InRange(state')
    PROVE  activeCam' \in Cameras /\ BoxFits' /\ CamerasKnown'
<1> DEFINE s == state'
           cameras == s.savedCameras
<1>1. /\ comboCamera' = updateCameraComboBox(s)
      /\ activeCam' = IF comboCamera' # <<>> /\ InRange(s)
                      THEN cameras[s.activeCamera] ELSE activeCam
      /\ cameraNote' = IF ~CamerasSound(file) THEN "read"
                       ELSE IF comboCamera' = <<>> /\ activeCam # NoName THEN "left"
                       ELSE ""
  BY DEF ShowLoaded
<1>2. /\ DOMAIN updateCameraComboBox(s) = 1..(Len(cameras) - 1)
      /\ \A i \in DOMAIN updateCameraComboBox(s) :
            updateCameraComboBox(s)[i].offset = i + 1
      /\ updateCameraComboBox(s) # <<>> <=> Len(cameras) # 1
  BY BoxFilled
<1>3. cameras \in Seq(Cameras) /\ DOMAIN cameras = 1..Len(cameras) /\ cameras[1] = NoName
  BY FieldsOf DEF NamesRight
<1>4. activeCam' \in Cameras
  <2>1. activeCam \in Cameras BY DEF IInv, TypeOK
  <2>2. InRange(s) => cameras[s.activeCamera] \in Cameras BY <1>3 DEF InRange
  <2> QED BY <1>1, <2>1, <2>2
<1>5. BoxFits' BY <1>1, <1>2 DEF BoxFits
<1>6. updateCameraComboBox(state)' = updateCameraComboBox(s) BY DEF updateCameraComboBox
<1>7. ASSUME cameraNote' = ""
      PROVE  InRange(s) /\ activeCam' = cameras[s.activeCamera]
  <2>1. CamerasSound(file) /\ (comboCamera' = <<>> => activeCam = NoName) BY <1>1, <1>7
  <2>2. InRange(s) BY <2>1
  <2>3. CASE comboCamera' # <<>> BY <2>2, <2>3, <1>1
  <2>4. CASE comboCamera' = <<>>
    <3>1. activeCam' = NoName BY <2>1, <2>4, <1>1
    <3>2. Len(cameras) = 1 BY <2>4, <1>1, <1>2
    <3>3. s.activeCamera = 1 BY <2>2, <3>2, <1>3 DEF InRange
    <3> QED BY <2>2, <3>1, <3>3, <1>3
  <2> QED BY <2>3, <2>4
<1>8. CamerasKnown' BY <1>1, <1>6, <1>7 DEF CamerasKnown, InRange
<1> QED BY <1>4, <1>5, <1>8

LEMMA LoadedShown ==
    ASSUME NEW file \in Contents, Sound(file), NEW s,
           s.savedCameras = CamerasOf(file.savedCameras), s.activeCamera = file.activeCamera,
           CamerasSound(file)
    PROVE  InRange(s)
<1>1. file.savedCameras \in Seq(Cameras) /\ file.savedCameras # <<>>
  BY DEF Contents, Sound
<1>2. CamerasOf(file.savedCameras) = file.savedCameras
  BY <1>1, CamerasRead DEF CamerasSound
<1> QED BY <1>2 DEF CamerasSound, InRange

\* What can be loaded is sound.
LEMMA LoadableIsSound ==
    ASSUME NEW file, Readable(file), file # NoContent, Loadable(file)
    PROVE  file \in Contents /\ Sound(file)
BY DEF Readable, Loadable

LEMMA FileOpens ==
    ASSUME IInv, OnFileOpen
    PROVE  IInv'
<1>1. PICK path, saves :
         /\ path \in Paths
         /\ saves => state.fileName \in Paths
         /\ disk' = IF saves THEN [disk EXCEPT ![state.fileName] = Saved(state)] ELSE disk
         /\ disk'[path] # NoContent /\ Loadable(disk'[path])
         /\ state' = load(state, disk'[path], path, FALSE)
         /\ stateModifyLevel' = LoadLevel(IF saves THEN NONE ELSE stateModifyLevel, FALSE)
         /\ ShowLoaded(state', disk'[path])
  BY DEF OnFileOpen
<1>2. /\ Idle /\ UNCHANGED <<autosaves, oldAutosave, target, process, mode, held, mishap>>
      /\ asked' = stateIsModified /\ unsaved' = FALSE /\ counted' = FALSE
      /\ fileSave' = setSaveStatus(state', stateModifyLevel')
      /\ kept' = (IF heir THEN NoContent ELSE kept) /\ heir' = FALSE
  BY DEF OnFileOpen, running
<1>3. /\ state \in Analyses /\ Sound(state) /\ stateModifyLevel \in NONE..DATA
      /\ disk \in [Paths -> Contents \cup {NoContent, Broken}]
      /\ \A p \in Paths : Readable(disk[p])
  BY DEF IInv, TypeOK, SoundEverywhere
<1>4. /\ disk' \in [Paths -> Contents \cup {NoContent, Broken}]
      /\ \A p \in Paths : Readable(disk'[p])
  <2>1. Saved(state) \in Contents /\ Readable(Saved(state)) BY <1>3, SavedIs DEF Readable
  <2>2. CASE saves
    <3>1. /\ disk' \in [Paths -> Contents \cup {NoContent, Broken}]
          /\ \A p \in Paths : disk'[p] = Saved(state) \/ disk'[p] = disk[p]
      BY <2>1, <2>2, <1>1, <1>3
    <3> QED BY <3>1, <2>1, <1>3
  <2>3. CASE ~saves BY <2>3, <1>1, <1>3
  <2> QED BY <2>2, <2>3
<1> DEFINE file == disk'[path]
<1>5. file \in Contents /\ Sound(file) BY <1>1, <1>4, LoadableIsSound
<1>6. state' = Loaded(file, path) BY <1>1 DEF load
<1>7. ShowLoaded(state', file) BY <1>1
<1> HIDE DEF file
<1>8. /\ state' \in Analyses /\ Sound(state') /\ NamesRight(state'.savedCameras)
  BY <1>1, <1>5, <1>6, PathsAre, LoadedIs
<1>9. CamerasSound(file) => InRange(state')
  <2>1. /\ state'.savedCameras = CamerasOf(file.savedCameras)
        /\ state'.activeCamera = file.activeCamera
    BY <1>6 DEF Loaded
  <2> QED BY <2>1, <1>5, LoadedShown
<1>10. activeCam' \in Cameras /\ BoxFits' /\ CamerasKnown' BY <1>7, <1>8, <1>9, Shown
<1>11. stateModifyLevel' \in NONE..DATA
  <2> DEFINE level == IF saves THEN NONE ELSE stateModifyLevel
  <2>1. level \in NONE..DATA BY <1>3 DEF NONE, DATA
  <2> HIDE DEF level
  <2>2. stateModifyLevel' = setStateModifyLevel(level, NONE) BY <1>1 DEF LoadLevel, level
  <2> QED BY <2>1, <2>2 DEF setStateModifyLevel, NONE, DATA
<1>12. \A flag \in {fileSave', asked', unsaved', counted', heir'} : flag \in BOOLEAN
  <2>1. stateIsModified \in BOOLEAN BY DEF stateIsModified
  <2>2. fileSave' \in BOOLEAN BY <1>2 DEF setSaveStatus
  <2>3. asked' \in BOOLEAN BY <2>1, <1>2
  <2> QED BY <2>2, <2>3, <1>2
<1>13. TypeOK' BY <1>2, <1>4, <1>8, <1>10, <1>11, <1>12 DEF IInv, TypeOK, Idle
<1>14. SoundEverywhere'
  <2>1. NoContent # Broken
    <3>1. DOMAIN NoContent = {} /\ DOMAIN Broken = {"broken"} BY DEF NoContent, Broken
    <3> QED BY <3>1
  <2>2. kept' # Broken BY <2>1, <1>2 DEF IInv, SoundEverywhere
  <2> QED BY <2>2, <1>2, <1>4, <1>8 DEF IInv, SoundEverywhere
<1>15. KeptSomewhere' BY <1>2 DEF IInv, KeptSomewhere, Idle
<1>16. Raised' BY <1>2 DEF Raised
<1> QED BY <1>10, <1>13, <1>14, <1>15, <1>16 DEF IInv

LEMMA Drops ==
    ASSUME IInv, DropToReplace
    PROVE  IInv'
<1>1. PICK path \in Paths :
         /\ disk[path] # NoContent /\ Loadable(disk[path])
         /\ state' = load(state, disk[path], path, FALSE)
         /\ ShowLoaded(state', disk[path])
  BY DEF DropToReplace
<1>2. /\ Idle /\ UNCHANGED <<disk, autosaves, oldAutosave, target, process, mode, held, kept>>
      /\ stateModifyLevel' = LoadLevel(stateModifyLevel, FALSE)
      /\ unsaved' = FALSE /\ counted' = FALSE /\ asked' = FALSE /\ heir' = FALSE
      /\ mishap' = (IF heir THEN mishap \cup {"dropped"} ELSE mishap)
      /\ fileSave' = setSaveStatus(state', stateModifyLevel')
  BY DEF DropToReplace, files, running
<1>3. stateModifyLevel \in NONE..DATA /\ \A p \in Paths : Readable(disk[p])
  BY DEF IInv, TypeOK, SoundEverywhere
<1> DEFINE file == disk[path]
<1>4. file \in Contents /\ Sound(file) BY <1>1, <1>3, LoadableIsSound
<1>5. state' = Loaded(file, path) /\ ShowLoaded(state', file) BY <1>1 DEF load
<1> HIDE DEF file
<1>6. state' \in Analyses /\ Sound(state') /\ NamesRight(state'.savedCameras)
  BY <1>4, <1>5, PathsAre, LoadedIs
<1>7. CamerasSound(file) => InRange(state')
  <2>1. /\ state'.savedCameras = CamerasOf(file.savedCameras)
        /\ state'.activeCamera = file.activeCamera
    BY <1>5 DEF Loaded
  <2> QED BY <2>1, <1>4, LoadedShown
<1>8. activeCam' \in Cameras /\ BoxFits' /\ CamerasKnown' BY <1>5, <1>6, <1>7, Shown
<1>9. stateModifyLevel' \in NONE..DATA
  BY <1>2, <1>3 DEF LoadLevel, setStateModifyLevel, NONE, DATA
<1>10. \A flag \in {fileSave', asked', unsaved', counted', heir'} : flag \in BOOLEAN
  <2>1. fileSave' \in BOOLEAN BY <1>2 DEF setSaveStatus
  <2> QED BY <2>1, <1>2
<1>11. TypeOK' BY <1>2, <1>6, <1>8, <1>9, <1>10 DEF IInv, TypeOK, Idle
<1>12. SoundEverywhere' BY <1>2, <1>6 DEF IInv, SoundEverywhere
<1>13. KeptSomewhere' BY <1>2 DEF IInv, KeptSomewhere, Idle
<1>14. Raised' BY <1>2 DEF Raised
<1> QED BY <1>8, <1>11, <1>12, <1>13, <1>14 DEF IInv

LEMMA Merges ==
    ASSUME IInv, OnFileMerge \/ SetCommandLineFiles \/ NoCommandLine
    PROVE  IInv'
<1>1. CASE NoCommandLine
  <2>1. /\ UNCHANGED <<state, stateModifyLevel, unsaved, counted, activeCam, comboCamera,
                       fileSave, asked, cameraNote, disk, autosaves, oldAutosave, target,
                       process, held, memory>>
        /\ kept' = kept /\ heir' = heir /\ mode = "starting" /\ mode' = "running"
    BY <1>1 DEF NoCommandLine, analysis, window, files, memory
  <2>2. TypeOK' BY <2>1 DEF IInv, TypeOK
  <2>3. SoundEverywhere' BY <2>1 DEF IInv, SoundEverywhere
  <2>4. BoxFits' /\ CamerasKnown' BY <2>1, SameCameras
  <2>5. KeptSomewhere' BY <2>1, KeptOn
  <2>6. Raised' BY <2>1 DEF IInv, Raised
  <2> QED BY <2>2, <2>3, <2>4, <2>5, <2>6 DEF IInv
<1>2. CASE OnFileMerge \/ SetCommandLineFiles
  <2>1. PICK path \in Paths :
           /\ disk[path] # NoContent /\ Loadable(disk[path])
           /\ state' = load(state, disk[path], path, TRUE)
           /\ ShowLoaded(state', disk[path])
    BY <1>2 DEF OnFileMerge, SetCommandLineFiles, Merge
  <2>2. /\ UNCHANGED <<disk, autosaves, oldAutosave, target, process, held, kept>>
        /\ stateModifyLevel' = LoadLevel(stateModifyLevel, TRUE)
        /\ unsaved' = TRUE /\ counted' = FALSE /\ asked' = FALSE /\ heir' = FALSE
        /\ mishap' = (IF heir THEN mishap \cup {"merged"} ELSE mishap)
        /\ fileSave' = setSaveStatus(state', stateModifyLevel')
        /\ mode \in {"running", "starting"} /\ mode' = "running"
    BY <1>2 DEF OnFileMerge, SetCommandLineFiles, Merge, files, Idle
  <2>3. /\ stateModifyLevel \in NONE..DATA /\ \A p \in Paths : Readable(disk[p])
    BY DEF IInv, TypeOK, SoundEverywhere
  <2> DEFINE file == disk[path]
  <2>4. file \in Contents /\ Sound(file) BY <2>1, <2>3, LoadableIsSound
  <2>5. state' = load(state, file, path, TRUE) /\ ShowLoaded(state', file) BY <2>1
  <2> HIDE DEF file
  <2>6. /\ state' \in Analyses /\ Sound(state') /\ NamesRight(state'.savedCameras)
        /\ state'.activeCamera = 1
    BY <2>4, <2>5, PathsAre, MergedIs
  <2>7. InRange(state')
    <3>1. state'.savedCameras \in Seq(Cameras) /\ state'.savedCameras # <<>>
      BY <2>6, FieldsOf DEF Sound
    <3> QED BY <3>1, <2>6 DEF InRange
  <2>8. activeCam' \in Cameras /\ BoxFits' /\ CamerasKnown' BY <2>5, <2>6, <2>7, Shown
  <2>9. stateModifyLevel' \in NONE..DATA /\ stateModifyLevel' # NONE
    BY <2>2, <2>3 DEF LoadLevel, setStateModifyLevel, NONE, DATA
  <2>10. \A flag \in {fileSave', asked', unsaved', counted', heir'} : flag \in BOOLEAN
    <3>1. fileSave' \in BOOLEAN BY <2>2 DEF setSaveStatus
    <3> QED BY <3>1, <2>2
  <2>11. held # {} => state'.tree = {}
    <3>1. CASE OnFileMerge BY <3>1 DEF OnFileMerge, Idle
    <3>2. CASE SetCommandLineFiles BY <3>2 DEF SetCommandLineFiles, IInv, TypeOK
    <3> QED BY <1>2, <3>1, <3>2
  <2>12. TypeOK' BY <2>2, <2>6, <2>8, <2>9, <2>10, <2>11 DEF IInv, TypeOK
  <2>13. SoundEverywhere' BY <2>2, <2>6 DEF IInv, SoundEverywhere
  <2>14. KeptSomewhere' BY <2>2 DEF IInv, KeptSomewhere
  <2>15. Raised' BY <2>9 DEF Raised
  <2> QED BY <2>8, <2>12, <2>13, <2>14, <2>15 DEF IInv
<1> QED BY <1>1, <1>2

LEMMA AutosaveSteps ==
    ASSUME IInv, OnAutosaveTimer \/ AutosaveDone
    PROVE  IInv'
<1>1. /\ state \in Analyses /\ Sound(state) /\ process \in Processes
      /\ autosaves \in [Processes -> Contents \cup {NoContent, Broken}]
      /\ \A p \in Processes : Readable(autosaves[p])
      /\ stateModifyLevel \in NONE..DATA
  BY DEF IInv, TypeOK, SoundEverywhere
<1>2. CASE OnAutosaveTimer
  <2>1. /\ UNCHANGED <<state, stateModifyLevel, unsaved, counted, activeCam, comboCamera,
                       fileSave, cameraNote, disk, oldAutosave, target, process, held, kept,
                       heir, mishap>>
        /\ asked' = FALSE /\ mode = "running" /\ mode' = "autosaving"
        /\ autosaves' = [autosaves EXCEPT ![process] = Broken]
    BY <1>2 DEF OnAutosaveTimer, analysis, memory
  <2>2. /\ autosaves' \in [Processes -> Contents \cup {NoContent, Broken}]
        /\ \A p \in Processes : autosaves'[p] = Broken \/ autosaves'[p] = autosaves[p]
        /\ \A p \in Processes \ {process} : autosaves'[p] = autosaves[p]
    BY <2>1, <1>1
  <2>3. \A flag \in {fileSave', asked', unsaved', counted', heir'} : flag \in BOOLEAN
    BY <2>1, FlagsAre
  <2>4. TypeOK' BY <2>1, <2>2, <2>3 DEF IInv, TypeOK
  <2>5. \A p \in Processes : Readable(autosaves'[p]) BY <2>2, <1>1 DEF Readable
  <2>6. SoundEverywhere' BY <2>1, <2>5 DEF IInv, SoundEverywhere
  <2>7. BoxFits' /\ CamerasKnown' BY <2>1, SameCameras
  <2>8. KeptSomewhere'
    <3> SUFFICES ASSUME kept # NoContent, mishap = {}, kept \notin oldAutosave, ~heir
                 PROVE  \E p \in 1..(process - 1) : autosaves'[p] = kept
      BY <2>1 DEF KeptSomewhere
    <3>1. PICK p \in 1..(process - 1) : autosaves[p] = kept
      BY <2>1 DEF IInv, KeptSomewhere
    <3>2. p \in Processes \ {process} BY <1>1, BoundsAssumption DEF Processes
    <3> QED BY <3>1, <3>2, <2>2
  <2>9. Raised' BY <2>1 DEF IInv, Raised
  <2> QED BY <2>4, <2>6, <2>7, <2>8, <2>9 DEF IInv
<1>3. CASE AutosaveDone
  <2>1. /\ UNCHANGED <<state, unsaved, activeCam, comboCamera, fileSave, asked, cameraNote,
                       disk, oldAutosave, target, process, held>>
        /\ mode = "autosaving" /\ mode' = "running"
    BY <1>3 DEF AutosaveDone, window
  <2>2. Saved(state) \in Contents /\ Readable(Saved(state)) /\ Saved(state) # Broken
    BY <1>1, SavedIs, ContentIs DEF Readable
  <2>3. /\ autosaves' \in [Processes -> Contents \cup {NoContent, Broken}]
        /\ \A p \in Processes : Readable(autosaves'[p])
        /\ stateModifyLevel' \in NONE..DATA /\ counted' \in BOOLEAN /\ heir' \in BOOLEAN
        /\ kept' # Broken /\ KeptSomewhere' /\ Raised'
    <3>1. CASE /\ autosaves' = [autosaves EXCEPT ![process] = Saved(state)]
               /\ stateModifyLevel' = NONE /\ counted' = TRUE
               /\ kept' = IF held = {} THEN Saved(state) ELSE kept
               /\ heir' = TRUE
               /\ mishap' = IF held = {} THEN {} ELSE {"tree away"}
      <4>1. /\ autosaves' \in [Processes -> Contents \cup {NoContent, Broken}]
            /\ \A p \in Processes : autosaves'[p] = Saved(state)
                                    \/ autosaves'[p] = autosaves[p]
            /\ autosaves'[process] = Saved(state)
        BY <3>1, <2>2, <1>1
      <4>2. \A p \in Processes : Readable(autosaves'[p]) BY <4>1, <2>2, <1>1
      <4>3. kept' # Broken BY <3>1, <2>2 DEF IInv, SoundEverywhere
      <4>4. KeptSomewhere' BY <3>1, <4>1, <2>1 DEF KeptSomewhere
      <4>5. Raised' BY <3>1 DEF Raised
      <4>6. NONE \in NONE..DATA BY DEF NONE, DATA
      <4> QED BY <3>1, <4>1, <4>2, <4>3, <4>4, <4>5, <4>6
    <3>2. CASE /\ autosaves' = [autosaves EXCEPT ![process] = NoContent]
               /\ mishap' = mishap \cup {"failed"}
               /\ UNCHANGED <<stateModifyLevel, counted, kept, heir>>
      <4>1. /\ autosaves' \in [Processes -> Contents \cup {NoContent, Broken}]
            /\ \A p \in Processes : autosaves'[p] = NoContent
                                    \/ autosaves'[p] = autosaves[p]
        BY <3>2, <1>1
      <4>2. \A p \in Processes : Readable(autosaves'[p]) BY <4>1, <1>1 DEF Readable
      <4>3. kept' # Broken BY <3>2 DEF IInv, SoundEverywhere
      <4>4. KeptSomewhere' BY <3>2, <2>1 DEF KeptSomewhere
      <4>5. Raised' BY <3>2, <2>1 DEF IInv, Raised
      <4> QED BY <3>2, <4>1, <4>2, <4>3, <4>4, <4>5, <1>1, FlagsAre
    <3> QED BY <1>3, <3>1, <3>2 DEF AutosaveDone
  <2>4. \A flag \in {fileSave', asked', unsaved', counted', heir'} : flag \in BOOLEAN
    BY <2>1, <2>3, FlagsAre
  <2>5. TypeOK' BY <2>1, <2>3, <2>4 DEF IInv, TypeOK
  <2>6. SoundEverywhere' BY <2>1, <2>3 DEF IInv, SoundEverywhere
  <2>7. BoxFits' /\ CamerasKnown' BY <2>1, SameCameras
  <2> QED BY <2>3, <2>5, <2>6, <2>7 DEF IInv
<1> QED BY <1>2, <1>3

\* The window of a program that has just started or has ended.
LEMMA Blank ==
    ASSUME NEW s, s = Fresh
    PROVE  /\ s \in Analyses /\ Sound(s) /\ NamesRight(s.savedCameras) /\ InRange(s)
           /\ updateCameraComboBox(s) = <<>> /\ s.savedCameras[s.activeCamera] = NoName
           /\ Len(s.savedCameras) = 1
<1>1. s \in Analyses /\ Sound(s) /\ NamesRight(s.savedCameras) BY FreshIs
<1>2. s.savedCameras = <<NoName>> /\ s.activeCamera = 1 BY DEF Fresh
<1>3. /\ Len(<<NoName>>) = 1 /\ DOMAIN <<NoName>> = {1} /\ <<NoName>>[1] = NoName
  OBVIOUS
<1>4. InRange(s) BY <1>2, <1>3 DEF InRange
<1>5. updateCameraComboBox(s) = <<>> BY <1>1, <1>2, <1>3, BoxFilled
<1> QED BY <1>1, <1>2, <1>3, <1>4, <1>5

LEMMA EmptyBox ==
    ASSUME NEW box, box = <<>> PROVE DOMAIN box = 1..0
OBVIOUS

LEMMA Ends ==
    ASSUME IInv, OnClose \/ Crash
    PROVE  IInv'
<1>1. /\ mode' = "off" /\ state' = Fresh /\ stateModifyLevel' = NONE
      /\ unsaved' = FALSE /\ counted' = FALSE
      /\ activeCam' = NoName /\ comboCamera' = <<>> /\ fileSave' = FALSE /\ cameraNote' = ""
      /\ held' = {} /\ target' = NoFile /\ heir' = FALSE
      /\ UNCHANGED <<disk, oldAutosave, process>>
  BY DEF OnClose, Close, Crash, Ended
<1>2. /\ process \in Processes
      /\ autosaves \in [Processes -> Contents \cup {NoContent, Broken}]
      /\ \A p \in Processes : Readable(autosaves[p])
  BY DEF IInv, TypeOK, SoundEverywhere
<1>3. /\ autosaves' \in [Processes -> Contents \cup {NoContent, Broken}]
      /\ \A p \in Processes : Readable(autosaves'[p])
      /\ asked' \in BOOLEAN /\ kept' # Broken /\ KeptSomewhere'
  <2>1. CASE OnClose
    <3>1. /\ autosaves' = [autosaves EXCEPT ![process] = NoContent]
          /\ kept' = NoContent
      BY <2>1 DEF OnClose, Close
    <3>2. /\ autosaves' \in [Processes -> Contents \cup {NoContent, Broken}]
          /\ \A p \in Processes : autosaves'[p] = NoContent \/ autosaves'[p] = autosaves[p]
      BY <3>1, <1>2
    <3>3. \A p \in Processes : Readable(autosaves'[p]) BY <3>2, <1>2 DEF Readable
    <3>4. asked' \in BOOLEAN
      <4>1. PICK canVeto \in BOOLEAN : Close(canVeto) BY <2>1 DEF OnClose
      <4>2. PICK refreshing \in BOOLEAN :
               asked' = (refreshing \/ (canVeto /\ stateIsModified))
        BY <4>1 DEF Close
      <4> QED BY <4>2
    <3>5. kept' # Broken
      <4>1. DOMAIN NoContent = {} /\ DOMAIN Broken = {"broken"} BY DEF NoContent, Broken
      <4> QED BY <4>1, <3>1
    <3>6. KeptSomewhere' BY <1>1, <3>1 DEF KeptSomewhere
    <3> QED BY <3>2, <3>3, <3>4, <3>5, <3>6
  <2>2. CASE Crash
    <3>1. /\ UNCHANGED <<autosaves, kept>> /\ asked' = FALSE
          /\ mode \notin {"off", "starting"}
          /\ mishap' = IF mode = "autosaving" THEN mishap \cup {"truncated"} ELSE mishap
      BY <2>2 DEF Crash
    <3>2. kept' # Broken BY <3>1 DEF IInv, SoundEverywhere
    <3>3. KeptSomewhere' BY <3>1, <1>1 DEF IInv, KeptSomewhere
    <3> QED BY <3>1, <3>2, <3>3, <1>2
  <2> QED BY <2>1, <2>2
<1>4. /\ state' \in Analyses /\ Sound(state') /\ NamesRight(state'.savedCameras)
      /\ InRange(state') /\ updateCameraComboBox(state') = <<>>
      /\ state'.savedCameras[state'.activeCamera] = NoName
      /\ Len(state'.savedCameras) = 1
  BY <1>1, Blank
<1>5. TypeOK'
  <2>1. NONE \in NONE..DATA /\ NoName \in Cameras BY DEF NONE, DATA, Cameras
  <2>2. \A flag \in {fileSave', asked', unsaved', counted', heir'} : flag \in BOOLEAN
    BY <1>1, <1>3
  <2>3. held' \in SUBSET Branches BY <1>1
  <2> QED BY <2>1, <2>2, <2>3, <1>1, <1>3, <1>4 DEF IInv, TypeOK
<1>6. SoundEverywhere' BY <1>1, <1>3, <1>4 DEF IInv, SoundEverywhere
<1>7. BoxFits'
  <2>1. DOMAIN comboCamera' = 1..0 BY <1>1, EmptyBox
  <2>2. \A i \in 1..0 : FALSE OBVIOUS
  <2>3. Len(state'.savedCameras) - 1 = 0 BY <1>4
  <2> QED BY <2>1, <2>2, <2>3 DEF BoxFits
<1>8. CamerasKnown'
  <2>1. updateCameraComboBox(state)' = updateCameraComboBox(state')
    BY DEF updateCameraComboBox
  <2>2. InRange(state)' BY <1>4 DEF InRange
  <2> QED BY <2>1, <2>2, <1>1, <1>4 DEF CamerasKnown
<1>9. Raised' BY <1>1 DEF Raised
<1> QED BY <1>3, <1>5, <1>6, <1>7, <1>8, <1>9 DEF IInv

\* What a start restores.
LEMMA Restores ==
    ASSUME IInv, NEW p \in Processes, autosaves[p] # NoContent, Loadable(autosaves[p]),
           NEW path \in FileNames, Restored(p, path)
    PROVE  /\ state' \in Analyses /\ Sound(state') /\ activeCam' \in Cameras
           /\ BoxFits' /\ CamerasKnown' /\ heir' \in BOOLEAN
           /\ heir' = (autosaves[p] = kept)
<1> DEFINE file == autosaves[p]
           read == Loaded(file, path)
<1>1. file \in Contents /\ Sound(file) BY LoadableIsSound DEF IInv, SoundEverywhere
<1>2. /\ state' = [read EXCEPT !.fileName = path] /\ ShowLoaded(state', file)
      /\ heir' = (file = kept)
  BY DEF Restored, load
<1>3. /\ read.savedCameras = CamerasOf(file.savedCameras)
      /\ read.activeCamera = file.activeCamera
  BY DEF Loaded
<1> HIDE DEF file
<1>4. read \in Analyses /\ Sound(read) /\ NamesRight(read.savedCameras) BY <1>1, LoadedIs
<1> HIDE DEF read
<1>5. /\ state' \in Analyses /\ state'.savedCameras = read.savedCameras
      /\ state'.stashedTrees = read.stashedTrees /\ state'.activeCamera = read.activeCamera
  BY <1>2, <1>4 DEF Analyses, FileNames
<1>6. Sound(state') BY <1>4, <1>5, Retold
<1>7. CamerasSound(file) => InRange(state')
  <2>1. /\ state'.savedCameras = CamerasOf(file.savedCameras)
        /\ state'.activeCamera = file.activeCamera
    BY <1>3, <1>5
  <2> QED BY <2>1, <1>1, LoadedShown
<1>8. activeCam' \in Cameras /\ BoxFits' /\ CamerasKnown'
  BY <1>2, <1>4, <1>5, <1>6, <1>7, Shown
<1> QED BY <1>2, <1>5, <1>6, <1>8 DEF file

LEMMA Starts ==
    ASSUME IInv, Start
    PROVE  IInv'
<1>1. /\ mode = "off" /\ process < MaxProcess /\ process' = process + 1
      /\ mode' = "starting" /\ asked' = FALSE /\ checkReloadAutosave
      /\ UNCHANGED <<stateModifyLevel, unsaved, counted, disk, target, held>>
  BY DEF Start
<1>2. /\ state \in Analyses /\ Sound(state) /\ process \in Processes
      /\ activeCam \in Cameras
      /\ autosaves \in [Processes -> Contents \cup {NoContent, Broken}]
      /\ \A p \in Processes : Readable(autosaves[p])
      /\ held = {} /\ target = NoFile /\ ~heir /\ heir \in BOOLEAN /\ kept # Broken
  BY <1>1 DEF IInv, TypeOK, SoundEverywhere, KeptSomewhere
<1>3. /\ MaxProcess \in Nat /\ process \in Nat /\ 1..process \subseteq Processes
      /\ process' \in Processes /\ process' - 1 = process
  BY <1>1, <1>2, BoundsAssumption DEF Processes
<1>4. kept # NoContent /\ mishap = {} =>
         kept \in oldAutosave \/ \E p \in 1..process : autosaves[p] = kept
  <2>1. process \in 1..process /\ \A p \in 1..(process - 1) : p \in 1..process
    BY <1>2, <1>3 DEF Processes
  <2>2. kept # NoContent /\ mishap = {} =>
           \/ kept \in oldAutosave
           \/ \E p \in 1..(process - 1) : autosaves[p] = kept
           \/ autosaves[process] = kept
    BY <1>1, <1>2 DEF IInv, KeptSomewhere
  <2> QED BY <2>1, <2>2
<1> DEFINE Shows == /\ state' \in Analyses /\ Sound(state') /\ activeCam' \in Cameras
                    /\ BoxFits' /\ CamerasKnown' /\ heir' \in BOOLEAN
           Cleared(p) == autosaves' = [autosaves EXCEPT ![p] = NoContent]
<1>5. ASSUME NotRestored PROVE Shows /\ heir' = heir
  <2>1. UNCHANGED <<state, activeCam, comboCamera, cameraNote, heir>>
    BY <1>5 DEF NotRestored
  <2>2. BoxFits' /\ CamerasKnown' BY <2>1, SameCameras
  <2> QED BY <2>1, <2>2, <1>2
<1>6. ASSUME NEW p \in Processes, Cleared(p)
      PROVE  /\ autosaves' \in [Processes -> Contents \cup {NoContent, Broken}]
             /\ \A q \in Processes : Readable(autosaves'[q])
             /\ \A q \in Processes : q # p => autosaves'[q] = autosaves[q]
  <2>1. /\ autosaves' \in [Processes -> Contents \cup {NoContent, Broken}]
        /\ \A q \in Processes : autosaves'[q] = NoContent \/ autosaves'[q] = autosaves[q]
        /\ \A q \in Processes : q # p => autosaves'[q] = autosaves[q]
    BY <1>6, <1>2
  <2>2. \A q \in Processes : Readable(autosaves'[q]) BY <2>1, <1>2 DEF Readable
  <2> QED BY <2>1, <2>2
<1> DEFINE Stays == kept' # NoContent /\ mishap' = {} =>
                       kept' \in oldAutosave' \/ \E p \in 1..process : autosaves'[p] = kept'
           Disk == /\ autosaves' \in [Processes -> Contents \cup {NoContent, Broken}]
                   /\ \A q \in Processes : Readable(autosaves'[q])
                   /\ kept' # Broken
<1>7. Shows /\ Stays /\ Disk /\ fileSave' \in BOOLEAN
  <2>1. CASE NotRestored /\ fileSave' = FALSE
             /\ UNCHANGED <<autosaves, oldAutosave, kept, mishap>>
    BY <2>1, <1>2, <1>4, <1>5
  <2>2. ASSUME NEW p \in Leftover, NEW loads \in BOOLEAN, NEW moved \in BOOLEAN,
               loads => Loadable(autosaves[p]),
               IF loads
                 THEN Restored(p, IF Leftover = {p} THEN NoFile ELSE AutosavePath(p))
                 ELSE NotRestored,
               fileSave' = (loads /\ Leftover # {p}),
               Removed(p, moved), UNCHANGED kept
        PROVE  Shows /\ Stays /\ Disk /\ fileSave' \in BOOLEAN
    <3>1. p \in Processes /\ autosaves[p] # NoContent BY DEF Leftover
    <3>2. /\ Cleared(p)
          /\ oldAutosave' = IF moved THEN oldAutosave \cup {autosaves[p]} ELSE oldAutosave
          /\ mishap' = IF ~moved /\ autosaves[p] = kept
                       THEN mishap \cup {"deleted"} ELSE mishap
      BY <2>2 DEF Removed
    <3>3. Disk BY <2>2, <3>1, <3>2, <1>2, <1>6
    <3>4. \A q \in 1..process : q # p => autosaves'[q] = autosaves[q]
      BY <3>1, <3>2, <1>3, <1>6
    <3>5. Stays
      <4> SUFFICES ASSUME kept # NoContent, mishap' = {}, kept \notin oldAutosave'
                   PROVE  \E q \in 1..process : autosaves'[q] = kept
        BY <2>2
      <4>1. mishap = {} /\ kept \notin oldAutosave /\ autosaves[p] # kept BY <3>2
      <4>2. PICK q \in 1..process : autosaves[q] = kept BY <4>1, <1>4
      <4> QED BY <4>1, <4>2, <3>4
    <3>6. Shows
      <4>1. CASE loads
        <5> DEFINE path == IF Leftover = {p} THEN NoFile ELSE AutosavePath(p)
        <5>1. path \in FileNames BY <3>1, PathsAre
        <5>2. Loadable(autosaves[p]) /\ Restored(p, path) BY <2>2, <4>1
        <5> HIDE DEF path
        <5> QED BY <3>1, <5>1, <5>2, Restores
      <4>2. CASE ~loads
        <5>1. NotRestored BY <2>2, <4>2
        <5> QED BY <5>1, <1>5
      <4> QED BY <4>1, <4>2
    <3>7. fileSave' \in BOOLEAN BY <2>2
    <3> QED BY <3>3, <3>5, <3>6, <3>7
  <2>3. CASE /\ NotRestored /\ autosaves' = [p \in Processes |-> NoContent]
             /\ fileSave' = FALSE /\ kept' = NoContent
    <3>1. Disk
      <4>1. NoContent # Broken
        <5>1. DOMAIN NoContent = {} /\ DOMAIN Broken = {"broken"} BY DEF NoContent, Broken
        <5> QED BY <5>1
      <4> QED BY <4>1, <2>3 DEF Readable
    <3>2. Stays BY <2>3
    <3> QED BY <3>1, <3>2, <2>3, <1>5
  <2> HIDE DEF Shows, Stays, Disk
  <2>4. fileSave' = FALSE => fileSave' \in BOOLEAN OBVIOUS
  <2> QED BY <2>1, <2>2, <2>3, <2>4, <1>1 DEF checkReloadAutosave
<1>8. \A flag \in {fileSave', asked', unsaved', counted', heir'} : flag \in BOOLEAN
  BY <1>1, <1>7, FlagsAre
<1>9. TypeOK' BY <1>1, <1>2, <1>3, <1>7, <1>8 DEF IInv, TypeOK
<1>10. SoundEverywhere' BY <1>1, <1>7 DEF IInv, SoundEverywhere
<1>11. KeptSomewhere' BY <1>1, <1>3, <1>7 DEF KeptSomewhere
<1>12. Raised' BY <1>1 DEF IInv, Raised
<1> QED BY <1>7, <1>9, <1>10, <1>11, <1>12 DEF IInv

LEMMA IInvInit == Init => IInv
<1> SUFFICES ASSUME Init PROVE IInv OBVIOUS
<1>1. /\ state = Fresh /\ stateModifyLevel = NONE /\ unsaved = FALSE /\ counted = FALSE
      /\ activeCam = NoName /\ comboCamera = <<>> /\ fileSave = FALSE
      /\ asked = FALSE /\ cameraNote = ""
      /\ disk = [p \in Paths |-> IF p = Xml THEN FirstFile ELSE NoContent]
      /\ autosaves = [p \in Processes |-> NoContent]
      /\ target = NoFile /\ process = 1 /\ mode = "running" /\ held = {}
      /\ kept = NoContent /\ heir = FALSE
  BY DEF Init
<1>2. /\ state \in Analyses /\ Sound(state) /\ NamesRight(state.savedCameras)
      /\ InRange(state) /\ updateCameraComboBox(state) = <<>>
      /\ state.savedCameras[state.activeCamera] = NoName /\ Len(state.savedCameras) = 1
  BY <1>1, Blank
<1>3. TypeOK
  <2>1. disk \in [Paths -> Contents \cup {NoContent, Broken}]
    BY <1>1, FirstFileAssumption
  <2>2. process \in Processes
    <3>1. MaxProcess \in Nat /\ MaxProcess # 0 BY BoundsAssumption
    <3>2. 1 \in 1..MaxProcess BY <3>1
    <3> QED BY <3>2, <1>1 DEF Processes
  <2>3. NONE \in NONE..DATA /\ NoName \in Cameras BY DEF NONE, DATA, Cameras
  <2>4. \A flag \in {fileSave, asked, unsaved, counted, heir} : flag \in BOOLEAN BY <1>1
  <2>5. held \in SUBSET Branches BY <1>1
  <2> QED BY <1>1, <1>2, <2>1, <2>2, <2>3, <2>4, <2>5 DEF TypeOK
<1>4. SoundEverywhere
  <2>1. NoContent # Broken
    <3>1. DOMAIN NoContent = {} /\ DOMAIN Broken = {"broken"} BY DEF NoContent, Broken
    <3> QED BY <3>1
  <2>2. \A p \in Paths : Readable(disk[p]) BY <1>1, FirstFileAssumption DEF Readable
  <2> QED BY <1>1, <1>2, <2>1, <2>2 DEF SoundEverywhere, Readable
<1>5. BoxFits
  <2>1. DOMAIN comboCamera = 1..0 BY <1>1, EmptyBox
  <2>2. Len(state.savedCameras) - 1 = 0 BY <1>2
  <2>3. \A i \in 1..0 : FALSE OBVIOUS
  <2> QED BY <2>1, <2>2, <2>3 DEF BoxFits
<1>6. CamerasKnown BY <1>1, <1>2 DEF CamerasKnown
<1>7. KeptSomewhere BY <1>1 DEF KeptSomewhere
<1>8. Raised BY <1>1 DEF Raised
<1> QED BY <1>3, <1>4, <1>5, <1>6, <1>7, <1>8 DEF IInv

LEMMA IInvStep == IInv /\ [Next]_vars => IInv'
<1> SUFFICES ASSUME IInv, [Next]_vars PROVE IInv' OBVIOUS
<1>1. CASE UNCHANGED vars
  <2>1. UNCHANGED <<state, stateModifyLevel, unsaved, counted, activeCam, comboCamera,
                    fileSave, asked, cameraNote, disk, autosaves, oldAutosave, target,
                    process, mode, held, memory>>
        /\ kept' = kept /\ heir' = heir /\ mishap' = mishap
    BY <1>1 DEF vars, analysis, window, files, running, memory
  <2>2. TypeOK' BY <2>1 DEF IInv, TypeOK
  <2>3. SoundEverywhere' BY <2>1 DEF IInv, SoundEverywhere
  <2>4. BoxFits' /\ CamerasKnown' BY <2>1, SameCameras
  <2>5. KeptSomewhere' BY <2>1 DEF IInv, KeptSomewhere
  <2>6. Raised' BY <2>1 DEF IInv, Raised
  <2> QED BY <2>2, <2>3, <2>4, <2>5, <2>6 DEF IInv
<1>2. CASE Next
  BY <1>2, TreeSteps, StashSteps, CameraSteps, SaveBegins, SaveEnds, AnimationSteps,
     FileOpens, Drops, Merges, AutosaveSteps, Ends, Starts DEF Next, OnDropFiles
<1> QED BY <1>1, <1>2

THEOREM IInvHolds == Spec => []IInv
<1> QED BY IInvInit, IInvStep, PTL DEF Spec

-----------------------------------------------------------------------------
(* The types are right, and what the last complete autosave held is found  *)
(* again after a crash, but for the known ways of losing it                *)
(* (mainFrame.cpp:4122, 5494).                                             *)
THEOREM AutosaveKept == Spec => []AutosaveSurvives
<1>1. IInv => AutosaveSurvives
  <2> SUFFICES ASSUME IInv, kept # NoContent, ~heir, mishap = {}
               PROVE  kept \in oldAutosave \cup {autosaves[p] : p \in Processes}
    BY DEF IInv, AutosaveSurvives
  <2>1. process \in Processes /\ 1..(process - 1) \subseteq Processes
    BY BoundsAssumption DEF IInv, TypeOK, Processes
  <2>2. \/ kept \in oldAutosave
        \/ \E p \in 1..(process - 1) : autosaves[p] = kept
        \/ autosaves[process] = kept
    BY DEF IInv, KeptSomewhere
  <2> QED BY <2>1, <2>2
<1> QED BY <1>1, IInvHolds, PTL

(* The scene, the list of cameras and the box agree, unless a camera was   *)
(* stored or removed or a file without names read since                    *)
(* (state.cpp:1005, 1022, viscontrol.cpp:740).                             *)
THEOREM CamerasAgree == Spec => []CamerasRight
<1>1. IInv => CamerasRight
  BY DEF IInv, CamerasKnown, CamerasRight, Passing, CamerasSound
<1> QED BY <1>1, IInvHolds, PTL

(* Every file that was written to its end can be read and brings back what *)
(* was saved (state.cpp:141, 289).                                         *)
THEOREM FilesComeBack == Spec => []FilesReadBack
<1>1. IInv => FilesReadBack
  <2> SUFFICES ASSUME IInv,
                      NEW file \in ({disk[p] : p \in Paths} \cup {autosaves[p] : p \in Processes})
                                   \ {NoContent, Broken}
               PROVE  /\ Loadable(file)
                      /\ NamesRight(file.savedCameras) => Saved(Loaded(file, Xml)) = file
    BY DEF FilesReadBack
  <2>1. file \in Contents /\ Sound(file) BY DEF IInv, SoundEverywhere, Readable
  <2> QED BY <2>1, SoundIsLoadable, LoadedIs, PathsAre
<1> QED BY <1>1, IInvHolds, PTL

(* A close that can be refused, and the opening of a file, throw nothing   *)
(* but edits of the tree, or what an autosave has taken for saved, away    *)
(* without a question (mainFrame.cpp:1053, 4974).                          *)
THEOREM NothingLostUnasked == Spec => AskedBeforeLoss
<1>1. IInv /\ [Next]_vars =>
        [(Close(TRUE) \/ OnFileOpen) =>
            (hasStateData(state) /\ unsaved /\ ~counted => asked')]_vars
  <2> SUFFICES ASSUME IInv, Close(TRUE) \/ OnFileOpen, hasStateData(state), unsaved, ~counted
               PROVE  asked'
    OBVIOUS
  <2>1. stateIsModified BY DEF IInv, Raised, stateIsModified
  <2>2. CASE Close(TRUE)
    <3>1. PICK refreshing \in BOOLEAN : asked' = (refreshing \/ (TRUE /\ stateIsModified))
      BY <2>2 DEF Close
    <3> QED BY <3>1, <2>1
  <2>3. CASE OnFileOpen BY <2>3, <2>1 DEF OnFileOpen
  <2> QED BY <2>2, <2>3
<1> QED BY <1>1, IInvHolds, PTL DEF Spec, AskedBeforeLoss
=============================================================================
