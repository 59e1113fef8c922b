------------------------------ MODULE Proxigram ------------------------------
(***************************************************************************)
(* ProxigramFilter: from the voxel grid and the iso-value that come in, an *)
(* iso-surface and the distance of every voxel from it; of the ions in     *)
(* shells at those distances, the share that counts for the numerator.     *)
(***************************************************************************)
EXTENDS FilterBase

\* Lengths are in twentieths; a shell is about 0.68 wide.  enabledIons are the
\* flags for the numerator and for the denominator.
New == [voxelsize_levelset |-> 10, shell_width |-> 14, max_distance |-> 10,
        weight_factor |-> TRUE, numeratorAll |-> TRUE, denominatorAll |-> TRUE,
        enabledIons |-> <<<<>>, <<>>>>, incoming |-> NoRange]

Lengths == {"voxelsize_levelset", "shell_width", "max_distance"}
AllFlag == <<"numeratorAll", "denominatorAll">>

\* getProperties.
Shown(c) ==
    {<<key, 0, 0>> : key \in Lengths \cup {"weight_factor"}}
    \cup (IF c.incoming = NoRange THEN {}
          ELSE {<<"all", part, 0>> : part \in 1..2}
               \cup {<<"ion", part, i>> : part \in 1..2, i \in DOMAIN c.incoming.enabled})

Inputs(key) == IF key \in Lengths THEN {0, 6, 20} ELSE BOOLEAN

\* The filter has no cache to clear.
SetLength(c, key, v) ==
    IF v <= 0 THEN Refuse(c) ELSE Uncleared([c EXCEPT ![key] = v], TRUE)

SetAll(c, part, v) ==
    Changed([c EXCEPT !.enabledIons[part] = [i \in DOMAIN @ |-> v], ![AllFlag[part]] = v])

\* One that is switched off takes the flag for all with it; none brings it back.
SetIon(c, part, i, v) ==
    Changed([c EXCEPT !.enabledIons[part][i] = v, ![AllFlag[part]] = @ /\ v])

SetProperty(c, key, part, i, v) ==
    CASE key \in Lengths -> SetLength(c, key, v)
      [] key = "weight_factor" -> Assign(c, key, v)
      [] key = "all" -> SetAll(c, part, v)
      [] key = "ion" -> SetIon(c, part, i, v)

\* The answers to all that may be asked.
Answers(c, cached) ==
    UNION {{SetProperty(c, p[1], p[2], p[3], v) : v \in Inputs(p[1])} : p \in Shown(c)}

-----------------------------------------------------------------------------
\* vector::resize, which keeps what is there.
Resized(flags, n, v) == [i \in 1..n |-> IF i \in DOMAIN flags THEN flags[i] ELSE v]

\* initFilter: of another range file, flags for its ions; of the same, no change.
InitFilter(c, range) ==
    LET n == Len(range.ions) IN
    IF range = NoRange THEN [c EXCEPT !.incoming = range, !.enabledIons = <<<<>>, <<>>>>]
    ELSE IF c.incoming # NoRange /\ c.incoming.file = range.file THEN c
    ELSE [c EXCEPT !.incoming = range,
                   !.enabledIons = <<Resized(@[1], n, FALSE), Resized(@[2], n, TRUE)>>]

-----------------------------------------------------------------------------
Clone(c) == Taking(New, c, DOMAIN New)

\* The flags are written first and looked for last; the weights are read into
\* another variable than the one that is stored.
Written ==
    <<Of("enabledIons")>>
    \o Each(<<"voxelsize_levelset", "shell_width", "max_distance", "weight_factor">>)
Wanted ==
    Each(<<"voxelsize_levelset", "shell_width", "max_distance">>)
    \o <<Element("weight_factor", {}), MayLack("enabledIons", {"enabledIons"})>>

ReadState(c) ==
    LET r == Restored(New, c, Written, Wanted)
    IN  [r EXCEPT !.conf.weight_factor = FALSE,
                  !.ok = /\ r.ok /\ \A key \in Lengths : r.conf[key] > 0
                         /\ Len(r.conf.enabledIons[1]) = Len(r.conf.enabledIons[2])]

-----------------------------------------------------------------------------
\* The flags make no difference: the ion counted is the second one of the file.
\* The distances from the surface, the ions of each voxel - of which those with
\* identifier 1 count, whatever was chosen - and the shells they are put into.
Distances(c) == <<c.voxelsize_levelset, c.max_distance + c.shell_width \div 2>>
Contributions(c) == c.voxelsize_levelset
Shells(c) == <<c.shell_width, c.max_distance>>
Output(c) == <<Distances(c), Contributions(c), Shells(c)>>

Passes == StreamTypes \ {"plot", "voxel"}
BlockMask == {"plot", "voxel"}
EmitMask == {"grid", "ions", "range", "plot"}
Streams(c, in, cached) == StreamsOf({"plot"}, Passes, BlockMask, EmitMask)

\* Steps of a shell's width that it takes from a distance to the greatest one.
Steps(c, from) ==
    IF from >= c.max_distance THEN 0
    ELSE (c.max_distance - from + c.shell_width - 1) \div c.shell_width

\* There is a shell around zero, and two for each further step: their limits,
\* and their centres.
Limits(c) == 2 + 2 * Steps(c, c.shell_width \div 2)
Centres(c) == 1 + 2 * Steps(c, 0)

\* refresh takes ranges for granted, has a flag for each ion, and asks for the
\* centre that has the number of the last limit.
InBounds(c, range) ==
    /\ range # NoRange
    /\ \A part \in 1..2 : Len(c.enabledIons[part]) >= Len(range.ions)
    /\ Limits(c) <= Centres(c)
=============================================================================
