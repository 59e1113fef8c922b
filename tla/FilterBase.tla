------------------------------ MODULE FilterBase ------------------------------
(***************************************************************************)
(* What the filters have in common: the types of stream, how setProperty   *)
(* answers and what it does to the filter's cache, and how the settings    *)
(* are written to and read back from a state file.                         *)
(*                                                                         *)
(* The settings of a filter are a record, named as its members are.  A     *)
(* value that does not parse is refused before anything is done, by every  *)
(* filter; inputs are therefore values of the right form.                  *)
(***************************************************************************)
EXTENDS Integers, Sequences, FiniteSets

StreamTypes == {"ions", "plot", "plot2d", "draw", "range", "voxel", "grid"}

\* The incoming range data: the range file object, its ions and which are enabled.
NoRange == [file |-> 0, ions |-> <<>>, enabled |-> <<>>]

-----------------------------------------------------------------------------
(* The answer of setProperty: its return value, needUpdate, the settings   *)
(* that it leaves, and what becomes of the filter's own cache: "kept",     *)
(* "cleared", "patched", that is, changed to fit the new settings, or      *)
(* "dropped", that is, no longer taken for a cache but not cleared.        *)
(* Where the code is known to leave caches that do not fit the settings,   *)
(* the answer is marked so.                                                *)

Answer(ok, update, cache, conf) ==
    [ok |-> ok, update |-> update, cache |-> cache, conf |-> conf, misfit |-> FALSE]

Refuse(c) == Answer(FALSE, FALSE, "kept", c)
Ignore(c) == Answer(TRUE, FALSE, "kept", c)
Changed(c) == Answer(TRUE, TRUE, "cleared", c)
Patched(c) == Answer(TRUE, TRUE, "patched", c)

\* Changed without any regard to the cache; the same, known to be wrong.
Uncleared(c, update) == Answer(TRUE, update, "kept", c)
Misfit(c, update) == [Uncleared(c, update) EXCEPT !.misfit = TRUE]
Dropped(c) == [Answer(TRUE, FALSE, "dropped", c) EXCEPT !.misfit = TRUE]

\* Assign a setting, whatever it was.
Assign(c, f, v) == Changed([c EXCEPT ![f] = v])

\* applyPropertyNow: the value that it has already is accepted, and no reason
\* to clear the cache.
ApplyPropertyNow(c, f, v) == IF c[f] = v THEN Ignore(c) ELSE Assign(c, f, v)

\* A value that is the same is refused; several filters do so.
AssignOther(c, f, v) == IF c[f] = v THEN Refuse(c) ELSE Assign(c, f, v)

\* The same for the i-th member of a setting that is an array.
AssignIth(c, f, i, v) ==
    IF i \in DOMAIN c[f] THEN Changed([c EXCEPT ![f][i] = v]) ELSE Refuse(c)
ApplyIth(c, f, i, v) ==
    IF c[f][i] = v THEN Ignore(c) ELSE AssignIth(c, f, i, v)

-----------------------------------------------------------------------------
\* The types of stream that refresh makes of its input and passes on, and those
\* that the masks say it blocks and emits.
StreamsOf(makes, passes, block, emit) ==
    [makes |-> makes, passes |-> passes, block |-> block, emit |-> emit]

-----------------------------------------------------------------------------
(* State files.  A filter writes elements one after the other, each with   *)
(* the settings that are its attributes; it reads them by going forward to *)
(* the next element of a name, from where the last was found.              *)

Element(tag, fields) == [tag |-> tag, fields |-> fields, optional |-> FALSE]
MayLack(tag, fields) == [tag |-> tag, fields |-> fields, optional |-> TRUE]
\* An element for one setting, and for several that each have their own.
Of(f) == Element(f, {f})
Each(fs) == [i \in DOMAIN fs |-> Of(fs[i])]

\* XMLHelpFwdToElem: where the next element of that name is, or 0.
NextElem(written, at, tag) ==
    LET there == {j \in (at + 1)..Len(written) : written[j].tag = tag}
    IN  IF there = {} THEN 0 ELSE CHOOSE j \in there : \A k \in there : j <= k

\* XMLGetNextElemAttrib: an element or an attribute that is missing ends the
\* reading, unless the filter can do without it and goes back to where it was.
ReadStep(written, so, want) ==
    LET j == NextElem(written, so.at, want.tag)
    IN  IF ~so.ok THEN so
        ELSE IF j = 0 THEN [so EXCEPT !.ok = want.optional]
        ELSE IF ~(want.fields \subseteq written[j].fields)
             THEN [so EXCEPT !.ok = want.optional]
        ELSE [ok |-> TRUE, at |-> j, got |-> so.got \cup want.fields]

\* What a reader that looks for these elements gets of what was written: which
\* settings, and whether it is satisfied.
ReadBack(written, wanted) ==
    LET so[k \in 0..Len(wanted)] ==
            IF k = 0 THEN [ok |-> TRUE, at |-> 0, got |-> {}]
            ELSE ReadStep(written, so[k - 1], wanted[k])
    IN  so[Len(wanted)]

\* A new filter that has taken some settings from c: what clone and readState
\* make of it.
Taking(new, c, fields) == [f \in DOMAIN new |-> IF f \in fields THEN c[f] ELSE new[f]]

\* readState: the settings as they come back from a file.
Restored(new, c, written, wanted) ==
    LET r == ReadBack(written, wanted)
    IN  [ok |-> r.ok, conf |-> Taking(new, c, r.got)]
=============================================================================
