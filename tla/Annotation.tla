------------------------------ MODULE Annotation ------------------------------
(***************************************************************************)
(* AnnotateFilter: draws an arrow, a text, an angle or a ruler on top of   *)
(* everything else, which passes.  It never caches.                        *)
(***************************************************************************)
EXTENDS FilterBase

Ruler == "ruler"
Modes == {"arrow", "text", "arrow+text", "angle", Ruler}

\* Directions are vectors of three numbers, positions values.
New == [annotationMode |-> "text", position |-> "o", target |-> "x",
        upVec |-> <<0, 0, 1>>, acrossVec |-> <<0, 1, 0>>,
        anglePos |-> <<"o", "a", "b">>, annotateText |-> "", textSize |-> 1,
        annotateSize |-> 1, sphereMarkerSize |-> 2, lineSize |-> 1, rgba |-> "blue",
        active |-> TRUE, showAngleText |-> TRUE, reflexAngle |-> FALSE,
        angleFormat |-> <<0, 0>>, fontSizeLinearMeasure |-> 5, linearFixedTicks |-> TRUE,
        linearMeasureTicks |-> 10, linearMeasureSpacing |-> 10]

Directions == {"upVec", "acrossVec"}

\* getProperties: what each mode has.
OfText == {"annotateText", "position", "textSize"} \cup Directions
OfArrow == {"position", "target", "annotateSize"}
OfAngle(c) ==
    {"anglePos", "reflexAngle", "showAngleText", "sphereMarkerSize"} \cup Directions
    \cup IF c.showAngleText THEN {"textSize", "angleFormat"} ELSE {}
OfRuler(c) ==
    {"position", "target", "fontSizeLinearMeasure", "linearFixedTicks", "sphereMarkerSize",
     IF c.linearFixedTicks THEN "linearMeasureTicks" ELSE "linearMeasureSpacing"}
    \cup Directions
Shown(c) ==
    {"active"} \cup
    IF ~c.active THEN {}
    ELSE {"annotationMode", "rgba"} \cup
         CASE c.annotationMode = "text" -> OfText
           [] c.annotationMode = "arrow" -> OfArrow \cup {"lineSize"}
           [] c.annotationMode = "arrow+text" -> OfText \cup OfArrow
           [] c.annotationMode = "angle" -> OfAngle(c)
           [] c.annotationMode = Ruler -> OfRuler(c)

Axes == {<<1, 0, 0>>, <<0, 1, 0>>, <<0, 0, -1>>}
Inputs(key) ==
    CASE key = "annotationMode" -> Modes
      [] key \in Directions -> Axes
      [] key = "anglePos" -> {<<"c", "a", "b">>}
      [] key \in {"position", "target"} -> {"c"}
      [] key = "annotateText" -> {"label"}
      [] key \in {"annotateSize", "sphereMarkerSize", "lineSize"} -> {-1, 3}
      [] key = "rgba" -> {"red"}
      [] key = "angleFormat" -> {<<2, 1>>, <<3, 0>>}
      [] key \in {"textSize", "fontSizeLinearMeasure", "linearMeasureTicks",
                  "linearMeasureSpacing"} -> {0, 4}
      [] OTHER -> BOOLEAN

-----------------------------------------------------------------------------
Cross(a, b) ==
    <<a[2] * b[3] - a[3] * b[2], a[3] * b[1] - a[1] * b[3], a[1] * b[2] - a[2] * b[1]>>
Dot(a, b) == a[1] * b[1] + a[2] * b[2] + a[3] * b[3]
Zero == <<0, 0, 0>>

\* The other direction is turned with it, so that a text does not show its back.
SetDirection(c, key, other, v) ==
    LET normal == Cross(v, c[other]) IN
    IF normal = Zero THEN Refuse(c)
    ELSE Uncleared([c EXCEPT ![key] = v, ![other] = Cross(normal, v)], c[key] # v)

\* A value is assigned if it is fit and another than before; else accepted.
SetIf(c, fit, key, v) ==
    IF fit /\ c[key] # v THEN Uncleared([c EXCEPT ![key] = v], TRUE) ELSE Ignore(c)

SetLineSize(c, v) ==
    IF v = c.lineSize \/ v < 0 THEN Refuse(c) ELSE Uncleared([c EXCEPT !.lineSize = v], TRUE)

\* Without a separator the digits behind it stay as they were.
SetAngleFormat(c, v) ==
    Uncleared([c EXCEPT !.angleFormat = IF v[2] = 0 THEN <<v[1], @[2]>> ELSE v], TRUE)

SetProperty(c, key, v) ==
    CASE key = "upVec" -> SetDirection(c, key, "acrossVec", v)
      [] key = "acrossVec" -> SetDirection(c, key, "upVec", v)
      [] key \in {"annotationMode", "rgba"} -> SetIf(c, TRUE, key, v)
      [] key = "textSize" -> SetIf(c, v > 0, key, v)
      [] key = "lineSize" -> SetLineSize(c, v)
      [] key = "angleFormat" -> SetAngleFormat(c, v)
      [] OTHER -> ApplyPropertyNow(c, key, v)

\* The answers to all that may be asked.
Answers(c, cached) ==
    UNION {{SetProperty(c, key, v) : v \in Inputs(key)} : key \in Shown(c)}

-----------------------------------------------------------------------------
\* refresh: what can be dragged in each mode.
Bindings(c) ==
    CASE ~c.active -> {}
      [] c.annotationMode = "text" -> {"text origin"}
      [] c.annotationMode = "arrow" -> {"arrow origin", "arrow vector"}
      [] c.annotationMode = "arrow+text" -> {"text origin", "arrow origin", "arrow vector"}
      [] c.annotationMode = "angle" -> {"angle origin", "angle radius"}
      [] c.annotationMode = Ruler -> {"ruler origin", "ruler target", "ruler radius"}

\* setPropFromBinding: an arrow moves as a whole, and nothing is known of the
\* radius of a ruler's ends.
Dragged(c, b) ==
    CASE b = "arrow origin" -> [c EXCEPT !.position = "d", !.target = "d+"]
      [] b \in {"text origin", "ruler origin"} -> [c EXCEPT !.position = "d"]
      [] b \in {"arrow vector", "ruler target"} -> [c EXCEPT !.target = "d"]
      [] b = "angle origin" -> [c EXCEPT !.anglePos[1] = "d"]
      [] b = "angle radius" -> [c EXCEPT !.sphereMarkerSize = 4]
      [] b = "ruler radius" -> c
Drags(c) == {Uncleared(Dragged(c, b), TRUE) : b \in Bindings(c)}

-----------------------------------------------------------------------------
Clone(c) == Taking(New, c, DOMAIN New)

Stored ==
    <<"annotationMode", "position", "target", "upVec", "acrossVec", "anglePos",
      "annotateText", "textSize", "annotateSize", "sphereMarkerSize", "lineSize", "rgba",
      "active", "showAngleText", "reflexAngle", "angleFormat">>
Written == Each(Stored)
Wanted == [Each(Stored) EXCEPT ![7].optional = TRUE]

\* readState takes the digits before the separator for those behind it too, and
\* refuses sizes below zero.
ReadState(c) ==
    LET r == Restored(New, c, Written, Wanted)
    IN  [r EXCEPT !.conf.angleFormat = <<@[1], @[1]>>,
                  !.ok = r.ok /\ \A f \in {"annotateSize", "sphereMarkerSize", "lineSize"} :
                                    r.conf[f] >= 0]

-----------------------------------------------------------------------------
\* The texts, in so far as the directions and sizes are theirs.
\* What is drawn.
DrawnText(c) ==
    IF c.annotationMode \notin {"text", "arrow+text"} THEN <<>>
    ELSE <<c.annotateText, c.position, c.upVec, c.acrossVec, c.textSize>>
DrawnArrow(c) ==
    IF c.annotationMode \notin {"arrow", "arrow+text"} THEN <<>>
    ELSE <<c.position, c.target, c.annotateSize, c.lineSize>>
AngleText(c) ==
    IF ~c.showAngleText THEN <<>>
    ELSE <<c.reflexAngle, c.angleFormat, c.upVec, c.acrossVec, c.textSize>>
DrawnAngle(c) ==
    IF c.annotationMode # "angle" THEN <<>>
    ELSE <<c.anglePos, c.sphereMarkerSize, AngleText(c)>>
DrawnRuler(c) ==
    IF c.annotationMode # Ruler THEN <<>>
    ELSE <<c.position, c.target, c.sphereMarkerSize, c.upVec, c.acrossVec,
           c.fontSizeLinearMeasure,
           IF c.linearFixedTicks THEN c.linearMeasureTicks ELSE c.linearMeasureSpacing>>
Output(c) ==
    IF ~c.active THEN <<>>
    ELSE <<c.rgba, DrawnText(c), DrawnArrow(c), DrawnAngle(c), DrawnRuler(c)>>

Makes(c) == IF c.active THEN {"draw"} ELSE {}
Streams(c, in, cached) == StreamsOf(Makes(c), StreamTypes, {}, {"draw"})

\* A text is written across and upright, and the marks of a ruler are apart.
InBounds(c) ==
    /\ c.upVec # Zero /\ c.acrossVec # Zero /\ Dot(c.upVec, c.acrossVec) = 0
    /\ ~c.linearFixedTicks => c.linearMeasureSpacing > 0
=============================================================================
