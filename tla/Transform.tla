------------------------------- MODULE Transform -------------------------------
(***************************************************************************)
(* TransformFilter: moves, scales, turns, shuffles or crops ions.  Which   *)
(* vectors and scalars there are depends on the mode; the origin is given  *)
(* by the user or computed from the ions by refresh.                       *)
(***************************************************************************)
EXTENDS FilterBase

Modes == {"translate", "scale", "anisotropic", "rotate", "shuffle", "noise",
          "translateValue", "crop"}
WithOrigin == {"scale", "anisotropic", "rotate"}

\* The parameters that a mode begins with.
Vectors(mode) ==
    CASE mode \in {"translate", "scale"} -> <<"zero">>
      [] mode = "anisotropic" -> <<"zero", "ones">>
      [] mode = "rotate" -> <<"zero", "x">>
      [] OTHER -> <<>>
Scalars(mode) ==
    CASE mode \in {"scale", "noise", "translateValue"} -> <<1>>
      [] mode = "rotate" -> <<0>>
      [] mode = "crop" -> <<1, 100>>
      [] OTHER -> <<>>

New == [transformMode |-> "translate", originMode |-> "select", noiseType |-> "white",
        showOrigin |-> FALSE, vectorParams |-> Vectors("translate"),
        scalarParams |-> Scalars("translate")]

\* getProperties: the origin is not shown when it is computed.
ShownOrigin(c) == IF c.originMode = "select" THEN {"origin"} ELSE {}
Shown(c) ==
    {"transformMode"}
    \cup (IF c.transformMode \in WithOrigin THEN {"originMode", "showOrigin"} ELSE {})
    \cup CASE c.transformMode = "translate" -> {"origin"}
           [] c.transformMode = "scale" -> ShownOrigin(c) \cup {"scalar"}
           [] c.transformMode = "anisotropic" -> ShownOrigin(c) \cup {"factors"}
           [] c.transformMode = "rotate" -> ShownOrigin(c) \cup {"axis", "scalar"}
           [] c.transformMode = "translateValue" -> {"scalar"}
           [] c.transformMode = "noise" -> {"noiseType", "scalar"}
           [] c.transformMode = "crop" -> {"scalar", "cropMaximum"}
           [] c.transformMode = "shuffle" -> {}

Inputs(key) ==
    CASE key = "transformMode" -> Modes
      [] key = "originMode" -> {"select", "bound", "mass"}
      [] key = "noiseType" -> {"white", "gaussian"}
      [] key \in {"origin", "factors", "axis"} -> {"zero", "x"}
      [] key \in {"scalar", "cropMaximum"} -> {1, 2}
      [] OTHER -> BOOLEAN

-----------------------------------------------------------------------------
\* A mode begins anew, also if it is the one that it was.
SetMode(c, mode) ==
    Changed([c EXCEPT !.transformMode = mode, !.vectorParams = Vectors(mode),
                      !.scalarParams = Scalars(mode)])

SetProperty(c, key, v) ==
    CASE key = "transformMode" -> SetMode(c, v)
      [] key = "origin" -> ApplyIth(c, "vectorParams", 1, v)
      [] key = "factors" -> ApplyIth(c, "vectorParams", 2, v)
      [] key = "axis" -> IF v = "zero" THEN Refuse(c)
                         ELSE ApplyIth(c, "vectorParams", 2, v)
      [] key = "scalar" -> ApplyIth(c, "scalarParams", 1, v)
      [] key = "cropMaximum" -> ApplyIth(c, "scalarParams", 2, v)
      [] OTHER -> ApplyPropertyNow(c, key, v)

\* The answers to all that may be asked.
Answers(c, cached) ==
    UNION {{SetProperty(c, key, v) : v \in Inputs(key)} : key \in Shown(c)}

\* The marker of the origin can be dragged if the user gives the origin.
Bindings(c) ==
    IF c.showOrigin /\ c.originMode = "select" /\ c.transformMode \in WithOrigin
    THEN {"origin"} ELSE {}

\* setPropFromBinding.
Dragged(c, v) == Changed([c EXCEPT !.vectorParams[1] = v])
Drags(c) == {Dragged(c, v) : b \in Bindings(c), v \in Inputs("origin")}

-----------------------------------------------------------------------------
Clone(c) == Taking(New, c, DOMAIN New)

Written ==
    Each(<<"transformMode", "originMode", "noiseType", "showOrigin",
           "vectorParams", "scalarParams">>)

\* The elements of the noise type and of the marker are looked for as well.
Wanted ==
    <<Of("transformMode"), Of("originMode"), Element("noiseType", {}),
      Element("showOrigin", {}), Of("vectorParams"), Of("scalarParams")>>

\* Each of them is put into the origin's mode.
OriginModes == <<"select", "bound", "mass">>
ReadState(c) ==
    LET r == Restored(New, c, Written, Wanted)
        conf == [r.conf EXCEPT !.originMode = OriginModes[IF c.showOrigin THEN 2 ELSE 1]]
    IN  [ok |-> /\ r.ok
                /\ \/ conf.transformMode \in {"shuffle", "noise"}
                   \/ /\ Len(conf.vectorParams) = Len(Vectors(conf.transformMode))
                      /\ Len(conf.scalarParams) = Len(Scalars(conf.transformMode)),
         conf |-> conf]

-----------------------------------------------------------------------------
\* refresh computes the origin in every mode, also where the first vector is
\* the translation, or where there is none.
Refreshed(c) ==
    IF c.originMode = "select" \/ c.vectorParams = <<>> THEN c
    ELSE [c EXCEPT !.vectorParams[1] = c.originMode]

Marked(c) == c.showOrigin /\ c.transformMode \in WithOrigin

\* What becomes of the ions in each mode: of two vectors the first is the origin,
\* and shuffling and noise leave nothing of the given origin.
OfScale(c) == <<"scale", c.vectorParams[1], c.scalarParams[1]>>
OfAnisotropic(c) == <<"anisotropic", c.vectorParams>>
OfTranslate(c) == <<"translate", c.vectorParams[1]>>
OfTranslateValue(c) == <<"translateValue", c.scalarParams[1]>>
OfCrop(c) == <<"crop", c.scalarParams>>
OfRotate(c) == <<"rotate", c.vectorParams, c.scalarParams[1]>>
OfNoise(c) == <<"noise", c.noiseType, c.scalarParams[1]>>
OfShuffle == <<"shuffle">>

Transformed(c) ==
    CASE c.transformMode = "scale" -> OfScale(c)
      [] c.transformMode = "anisotropic" -> OfAnisotropic(c)
      [] c.transformMode = "translate" -> OfTranslate(c)
      [] c.transformMode = "translateValue" -> OfTranslateValue(c)
      [] c.transformMode = "crop" -> OfCrop(c)
      [] c.transformMode = "rotate" -> OfRotate(c)
      [] c.transformMode = "noise" -> OfNoise(c)
      [] c.transformMode = "shuffle" -> OfShuffle

\* The ions and the marker of the origin, which is cached with them.
Output(c) == <<Transformed(c), IF Marked(c) THEN <<c.vectorParams[1], c.originMode>> ELSE "">>

Makes(c, in) == (in \cap {"ions"}) \cup (IF Marked(c) THEN {"draw"} ELSE {})

\* Cropping lets nothing else through, unless there are no ions to crop.
Passes(c, in, cached) ==
    IF c.transformMode = "crop" /\ "ions" \in in /\ ~cached THEN {}
    ELSE StreamTypes \ {"ions"}

BlockMask == {"ions"}
\* showPrimitive, which nothing changes, is true.
EmitMask == {"ions", "draw"}
Streams(c, in, cached) == StreamsOf(Makes(c, in), Passes(c, in, cached), BlockMask, EmitMask)

\* The places of the arrays that refresh and getProperties use: the first
\* vector whenever the origin is computed.
InBounds(c) ==
    /\ Len(c.vectorParams) = Len(Vectors(c.transformMode))
    /\ Len(c.scalarParams) = Len(Scalars(c.transformMode))
    /\ c.originMode # "select" => c.vectorParams # <<>>
=============================================================================
