----------------------------- MODULE MCAnimation -----------------------------
(* Two filters: one with a real-valued property and a switch, one with a    *)
(* colour and a property that is a text.                                    *)
EXTENDS Animation, TLC

RealProp == <<"f1", 1>>
BoolProp == <<"f1", 2>>
ColourProp == <<"f2", 1>>
TextProp == <<"f2", 2>>

MCKind == RealProp :> "real" @@ BoolProp :> "bool" @@ ColourProp :> "colour" @@ TextProp :> "string"
MCMaxValue == RealProp :> 4 @@ BoolProp :> 1 @@ ColourProp :> 6 @@ TextProp :> 6
MCDefaults == {[[p \in Props |-> 0] EXCEPT ![RealProp] = 2]}
MCFrames == 0..3
MCValues == {0, 6}
=============================================================================
