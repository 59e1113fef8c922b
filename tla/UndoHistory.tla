---------------------------- MODULE UndoHistory -----------------------------
(***************************************************************************)
(* What the undo and redo stacks of TreeState promise the user: a line of  *)
(* versions of the filter tree and a cursor on the version in use.  What a *)
(* version looks like is left open: an edit puts any version at all at the *)
(* cursor, and the specification says what becomes of the others.          *)
(* TreeState.tla is shown to implement this specification.                 *)
(***************************************************************************)
EXTENDS Naturals, Sequences

CONSTANT Limit  \* the longest line of versions that is kept

VARIABLES timeline, cursor
hvars == <<timeline, cursor>>

\* What is left of the line, up to the cursor, when another version must fit
\* behind it: the oldest version is given up when the line is full.
Past ==
    IF cursor = Limit THEN SubSeq(timeline, 2, cursor)
                      ELSE SubSeq(timeline, 1, cursor)

Init == Len(timeline) = 1 /\ cursor = 1

\* An edit is recorded: its result replaces whatever could be redone.
Record ==
    /\ cursor' = Len(Past) + 1
    /\ timeline' = Append(Past, timeline'[cursor'])

\* An edit that is refused: the versions ahead of the cursor are lost, and the
\* one in use can be "redone".
Refuse ==
    /\ timeline' = Append(Past, timeline[cursor])
    /\ cursor' = Len(Past)

\* A change that is made in place and cannot be undone.
Amend ==
    /\ UNCHANGED cursor
    /\ timeline' = [timeline EXCEPT ![cursor] = timeline'[cursor]]

\* Back to the oldest version of a full line: there the newest is given up.
Back ==
    /\ cursor > 1
    /\ cursor' = cursor - 1
    /\ timeline' = IF cursor = 2 /\ Len(timeline) = Limit
                   THEN SubSeq(timeline, 1, Limit - 1) ELSE timeline

Forward == cursor < Len(timeline) /\ cursor' = cursor + 1 /\ UNCHANGED timeline

\* A loaded state begins a line of its own.
Reset == timeline' = <<timeline'[1]>> /\ cursor' = 1

Next == Record \/ Refuse \/ Amend \/ Back \/ Forward \/ Reset

Spec == Init /\ [][Next]_hvars
=============================================================================
