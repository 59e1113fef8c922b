------------------------------- MODULE DataLoad -------------------------------
(***************************************************************************)
(* DataLoadFilter: loads ions from a file, all or a sample of them, and    *)
(* lets everything through.  The file itself, and its being watched, are   *)
(* in FilterRefresh.                                                       *)
(***************************************************************************)
EXTENDS FilterBase

MaxColumns == 5000 \* MAX_NUM_FILE_COLS
Coordinates == 1..4 \* INDEX_LENGTH: three coordinates and a value

\* A sample's size is in megabytes.
New == [ionFilename |-> "a.pos", fileType |-> "pos", numColumns |-> 4,
        index |-> <<0, 1, 2, 3>>, endianMode |-> "little", enabled |-> TRUE,
        doSample |-> TRUE, maxIons |-> 5, wantMonitor |-> FALSE,
        valueLabel |-> "mass-to-charge", rgba |-> "red", ionSize |-> 2]

\* getProperties.
ShownFormat(c) ==
    {<<"ionFilename", 0>>, <<"fileType", 0>>, <<"valueLabel", 0>>}
    \cup {<<"index", i>> : i \in Coordinates}
    \cup (IF c.fileType = "pos" THEN {<<"numColumns", 0>>} ELSE {})
    \cup (IF c.fileType = "ato" THEN {<<"endianMode", 0>>} ELSE {})
ShownLoad(c) ==
    {<<"enabled", 0>>} \cup
    IF ~c.enabled THEN {}
    ELSE {<<"wantMonitor", 0>>, <<"rgba", 0>>, <<"ionSize", 0>>}
         \cup (IF c.fileType = "ato" THEN {}
               ELSE {<<"doSample", 0>>} \cup IF c.doSample THEN {<<"maxIons", 0>>} ELSE {})
Shown(c) == ShownFormat(c) \cup ShownLoad(c)

\* A column is chosen among those that there are.
Inputs(c, key) ==
    CASE key = "ionFilename" -> {"b.pos", "missing"}
      [] key = "fileType" -> {"pos", "text", "ato"}
      [] key = "numColumns" -> {0, 3, MaxColumns}
      [] key = "index" -> {i \in {0, 3} : i < c.numColumns}
      [] key = "endianMode" -> {"little", "big"}
      [] key = "maxIons" -> {0, 1}
      [] key = "valueLabel" -> {"mass"}
      [] key = "rgba" -> {"blue"}
      [] key = "ionSize" -> {0, 3}
      [] OTHER -> BOOLEAN

-----------------------------------------------------------------------------
\* A column that is no longer there becomes the last one; of no columns that is
\* the number before zero (of 32 bits, here of 30).
SetColumns(c, v) ==
    IF v >= MaxColumns THEN Refuse(c)
    ELSE Changed([c EXCEPT !.numColumns = v,
                           !.index = [i \in DOMAIN @ |-> IF @[i] < v THEN @[i]
                                                         ELSE (v - 1) % 2 ^ 30]])

SetSampleSize(c, v) ==
    IF v = 0 THEN Refuse(c) ELSE ApplyPropertyNow(c, "maxIons", v)

\* The cached ions get their new looks in place.
SetLook(c, key, v) ==
    IF key # "ionSize" /\ c[key] = v THEN Ignore(c) ELSE Patched([c EXCEPT ![key] = v])

SetProperty(c, key, i, v) ==
    CASE key = "ionFilename" -> IF v = "missing" THEN Refuse(c) ELSE Assign(c, key, v)
      [] key \in {"fileType", "endianMode"} -> AssignOther(c, key, v)
      [] key = "numColumns" -> SetColumns(c, v)
      [] key = "index" -> IF v >= c.numColumns THEN Refuse(c) ELSE AssignIth(c, key, i, v)
      [] key = "maxIons" -> SetSampleSize(c, v)
      [] key \in {"rgba", "ionSize", "valueLabel"} -> SetLook(c, key, v)
      [] OTHER -> ApplyPropertyNow(c, key, v)

\* The answers to all that may be asked.
Answers(c, cached) ==
    UNION {{SetProperty(c, p[1], p[2], v) : v \in Inputs(c, p[1])} : p \in Shown(c)}

-----------------------------------------------------------------------------
Clone(c) == Taking(New, c, DOMAIN New \ {"valueLabel", "endianMode"})

Written ==
    <<Element("file", {"ionFilename", "fileType"})>>
    \o Each(<<"numColumns", "index", "enabled", "wantMonitor", "valueLabel", "doSample",
              "maxIons", "rgba", "ionSize">>)

\* Older files lack some of them.
Wanted ==
    [i \in DOMAIN Written |->
        [Written[i] EXCEPT !.optional = Written[i].tag \in {"wantMonitor", "valueLabel",
                                                            "doSample"}]]

\* readState refuses columns that are not there, and ions of no size.
ReadState(c) ==
    LET r == Restored(New, c, Written, Wanted)
    IN  [r EXCEPT !.ok = /\ r.ok
                         /\ r.conf.numColumns < MaxColumns
                         /\ \A i \in Coordinates : r.conf.index[i] < r.conf.numColumns
                         /\ r.conf.ionSize > 0]

-----------------------------------------------------------------------------
\* The ions that are loaded; the order of a number's bytes makes no difference.
Sampled(c) == IF c.doSample THEN <<c.maxIons>> ELSE <<>>
FromPos(c) == <<"pos", c.numColumns, c.index, Sampled(c)>>
FromText(c) == <<"text", Sampled(c)>>
FromAto == <<"ato">>
Loaded(c) ==
    CASE c.fileType = "pos" -> FromPos(c)
      [] c.fileType = "text" -> FromText(c)
      [] c.fileType = "ato" -> FromAto
Output(c) ==
    IF ~c.enabled THEN <<>>
    ELSE <<c.ionFilename, Loaded(c), c.rgba, c.ionSize, c.valueLabel>>

Makes(c) == IF c.enabled THEN {"ions"} ELSE {}
Streams(c, in, cached) == StreamsOf(Makes(c), StreamTypes, {}, {"ions"})

\* The columns of a record that are read, whose number is divided by.
InBounds(c) == c.numColumns > 0 /\ \A i \in Coordinates : c.index[i] < c.numColumns
=============================================================================
