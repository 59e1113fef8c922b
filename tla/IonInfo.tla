-------------------------------- MODULE IonInfo --------------------------------
(***************************************************************************)
(* IonInfoFilter: reports counts and volumes of the ions in the console,   *)
(* lets nothing through and caches nothing.                                *)
(***************************************************************************)
EXTENDS FilterBase

New == [wantIonCounts |-> TRUE, wantNormalise |-> FALSE, wantVolume |-> FALSE,
        volumeAlgorithm |-> "rectilinear", cubeSideLen |-> 1, fitMode |-> "none",
        massBackStart |-> 12, massBackEnd |-> 18, incoming |-> NoRange]

\* getProperties: the background's are not shown.
Shown(c) ==
    {"wantIonCounts", "wantVolume"}
    \cup (IF c.wantIonCounts /\ c.incoming # NoRange THEN {"wantNormalise"} ELSE {})
    \cup (IF c.wantVolume THEN {"volumeAlgorithm"} ELSE {})

Inputs(key) == IF key = "volumeAlgorithm" THEN {"rectilinear", "convex"} ELSE BOOLEAN

SetProperty(c, key, v) ==
    IF key # "volumeAlgorithm" THEN ApplyPropertyNow(c, key, v)
    ELSE IF v = c.volumeAlgorithm THEN Refuse(c)
    ELSE Uncleared([c EXCEPT !.volumeAlgorithm = v], TRUE)

\* The answers to all that may be asked.
Answers(c, cached) ==
    UNION {{SetProperty(c, key, v) : v \in Inputs(key)} : key \in Shown(c)}

\* The range data is copied anew only for another file.
InitFilter(c, range) ==
    IF range # NoRange /\ c.incoming # NoRange /\ c.incoming.file = range.file
    THEN c ELSE [c EXCEPT !.incoming = range]

-----------------------------------------------------------------------------
Clone(c) ==
    Taking(New, c, {"wantIonCounts", "wantVolume", "wantNormalise", "cubeSideLen",
                    "volumeAlgorithm"})

Written ==
    Each(<<"wantIonCounts", "wantNormalise", "wantVolume", "volumeAlgorithm",
           "cubeSideLen">>)
    \o <<Element("background", {"fitMode", "massBackStart", "massBackEnd"})>>
Wanted ==
    Each(<<"wantIonCounts", "wantNormalise", "wantVolume", "volumeAlgorithm",
           "cubeSideLen">>)
    \o <<MayLack("background", {"fitMode", "massBackStart", "massBackEnd"})>>

ReadState(c) == Restored(New, c, Written, Wanted)

-----------------------------------------------------------------------------
\* The text that is reported.
\* What is reported: a fitted background is taken off the counts.
Counts(c) ==
    IF ~c.wantIonCounts THEN <<>>
    ELSE IF c.incoming = NoRange THEN <<"total">>
    ELSE <<"ions", c.wantNormalise,
           IF c.fitMode = "none" THEN <<>> ELSE <<c.massBackStart, c.massBackEnd>>>>
Volume(c) == IF c.wantVolume THEN c.volumeAlgorithm ELSE ""
Output(c) == <<Counts(c), Volume(c)>>

Streams(c, in, cached) == StreamsOf({}, {}, StreamTypes, {})
InBounds(c) == c.cubeSideLen > 0 /\ c.massBackStart < c.massBackEnd
=============================================================================
