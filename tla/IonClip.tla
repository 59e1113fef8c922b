-------------------------------- MODULE IonClip --------------------------------
(***************************************************************************)
(* IonClipFilter: keeps the ions on one side of a primitive that the user  *)
(* types in or drags.  A vector is its direction and its length, and only  *)
(* "diagonal" has no component that is zero.                               *)
(***************************************************************************)
EXTENDS FilterBase

Vector(direction, length) == [direction |-> direction, length |-> length]
Zero == Vector("none", 0)
YAxis == Vector("y", 1)
Diagonal == Vector("diagonal", 1)
Normalised(v) == IF v.length = 0 THEN v ELSE [v EXCEPT !.length = 1]

Primitives == {"sphere", "plane", "cylinder", "box"}

New == [primitiveType |-> "plane", invertedClip |-> FALSE, showPrimitive |-> TRUE,
        lockAxisMag |-> FALSE, vectorParams |-> <<Zero, YAxis>>, scalarParams |-> <<>>]

\* How many vectors and scalars a primitive has.
Vectors(type) == IF type = "sphere" THEN 1 ELSE 2
Scalars(type) == IF type \in {"sphere", "cylinder"} THEN 1 ELSE 0

\* getProperties.
Shown(c) ==
    {"primitiveType", "showPrimitive", "invertedClip", "origin"} \cup
    CASE c.primitiveType = "sphere" -> {"radius"}
      [] c.primitiveType = "plane" -> {"normal"}
      [] c.primitiveType = "cylinder" -> {"normal", "lockAxisMag", "radius"}
      [] c.primitiveType = "box" -> {"corner"}

Inputs(key) ==
    CASE key = "primitiveType" -> Primitives
      [] key \in {"origin", "normal", "corner"} -> {Zero, Vector("y", 2), Diagonal}
      [] key = "radius" -> {10, 20}
      [] OTHER -> BOOLEAN

-----------------------------------------------------------------------------
\* The half-widths of a box: none of them zero.
Boxed(v) == IF v.direction = "diagonal" THEN v
            ELSE Vector("diagonal", IF v.length = 0 THEN 1 ELSE v.length)

\* A change of the primitive gives the vectors and scalars their new number,
\* and keeps those that fit.
Reshaped(c, type) ==
    LET v == c.vectorParams
        second == IF Len(v) = 2 THEN v[2]
                  ELSE IF type = "box" THEN Diagonal ELSE YAxis
    IN  [c EXCEPT
          !.primitiveType = type,
          !.vectorParams =
              CASE type = "sphere" -> IF Len(v) = 1 THEN v ELSE <<Zero>>
                [] type = "plane" -> <<v[1], Normalised(second)>>
                [] type = "cylinder" -> <<v[1], second>>
                [] type = "box" -> <<v[1], Boxed(second)>>,
          !.scalarParams = IF Scalars(type) = 0 THEN <<>>
                           ELSE IF Len(@) = 1 THEN @ ELSE <<10>>]

SetVector(c, k, v) == ApplyIth(c, "vectorParams", k, v)

\* The axis of a cylinder keeps its length if that is locked.
SetNormal(c, v) ==
    SetVector(c, 2, IF c.primitiveType = "cylinder" /\ c.lockAxisMag /\ v.length # 0
                    THEN Vector(v.direction, c.vectorParams[2].length) ELSE v)

SetProperty(c, key, v) ==
    CASE key = "primitiveType" -> Changed(Reshaped(c, v))
      [] key = "origin" -> SetVector(c, 1, v)
      [] key = "corner" -> SetVector(c, 2, v)
      [] key = "radius" -> ApplyIth(c, "scalarParams", 1, v)
      [] key = "normal" -> SetNormal(c, v)
      [] OTHER -> ApplyPropertyNow(c, key, v)

\* The answers to all that may be asked.
Answers(c, cached) ==
    UNION {{SetProperty(c, key, v) : v \in Inputs(key)} : key \in Shown(c)}

\* The bindings of the primitive that is shown.
Bindings(c) ==
    IF ~c.showPrimitive THEN {}
    ELSE CASE c.primitiveType = "sphere" -> {"radius", "origin"}
           [] c.primitiveType = "plane" -> {"origin", "direction"}
           [] c.primitiveType = "cylinder" -> {"radius", "origin", "axis"}
           [] c.primitiveType = "box" -> {"origin", "corner"}

\* setPropFromBinding: a corner on a plane of the box's centre is not taken.
Dragged(c, binding, v) ==
    CASE binding = "radius" -> Changed([c EXCEPT !.scalarParams[1] = v])
      [] binding = "origin" -> Changed([c EXCEPT !.vectorParams[1] = v])
      [] binding = "axis" -> Changed([c EXCEPT !.vectorParams[2] = v])
      [] binding = "direction" ->
            Changed([c EXCEPT !.vectorParams[2] = Normalised(v)])
      [] binding = "corner" ->
            IF v = Boxed(v) THEN Changed([c EXCEPT !.vectorParams[2] = v])
            ELSE Uncleared(c, TRUE)

Drags(c) ==
    UNION {{Dragged(c, b, v) : v \in Inputs(IF b \in {"radius", "origin"} THEN b
                                           ELSE "normal")} : b \in Bindings(c)}

-----------------------------------------------------------------------------
\* Mutant of Clone: the vectors are not copied.
Clone_NoVectors(c) == Taking(New, c, DOMAIN New \ {"vectorParams"})

Clone(c) == Taking(New, c, DOMAIN New)

Written ==
    Each(<<"primitiveType", "invertedClip", "showPrimitive", "lockAxisMag",
           "vectorParams", "scalarParams">>)

\* Mutant of Wanted: two elements are looked for in the other order.
Wanted_Swapped ==
    Each(<<"primitiveType", "invertedClip", "showPrimitive", "vectorParams",
           "lockAxisMag", "scalarParams">>)

Wanted ==
    Each(<<"primitiveType", "invertedClip", "showPrimitive", "lockAxisMag",
           "vectorParams", "scalarParams">>)

\* readState refuses vectors and scalars that are not those of the primitive.
ReadState(c) ==
    LET r == Restored(New, c, Written, Wanted)
    IN  [r EXCEPT !.ok = /\ r.ok
                         /\ Len(r.conf.vectorParams) = Vectors(r.conf.primitiveType)
                         /\ Len(r.conf.scalarParams) = Scalars(r.conf.primitiveType)]

-----------------------------------------------------------------------------
\* What the clipped ions depend on.
Output(c) == <<c.primitiveType, c.invertedClip, c.vectorParams, c.scalarParams>>

\* The types that refresh makes itself, of input with these types.
Makes(c, in) == (in \cap {"ions"}) \cup (IF c.showPrimitive THEN {"draw"} ELSE {})
Passes == StreamTypes \ {"ions"}

BlockMask == {"ions"}
EmitMask(c) == {"ions"} \cup (IF c.showPrimitive THEN {"draw"} ELSE {})
Streams(c, in, cached) == StreamsOf(Makes(c, in), Passes, BlockMask, EmitMask(c))

\* The array indices with which refresh and getProperties use the parameters.
InBounds(c) ==
    /\ Len(c.vectorParams) = Vectors(c.primitiveType)
    /\ Len(c.scalarParams) = Scalars(c.primitiveType)
=============================================================================
