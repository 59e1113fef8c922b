-------------------------- MODULE MCFilterSettings --------------------------
(* Two range files; of the first, an ion switched off, and what comes when  *)
(* it is read again after it was changed on disk.                           *)
EXTENDS FilterSettings

MCRange(file, ions, enabled) == [file |-> file, ions |-> ions, enabled |-> enabled]
MCRanges ==
    {NoRange,
     MCRange(1, <<"A", "B">>, <<TRUE, TRUE>>),
     MCRange(1, <<"A", "B">>, <<TRUE, FALSE>>),
     MCRange(1, <<"A", "B", "C">>, <<TRUE, TRUE, TRUE>>),
     MCRange(1, <<"B">>, <<TRUE>>),
     MCRange(2, <<"A">>, <<TRUE>>)}
=============================================================================
