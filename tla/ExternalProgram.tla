--------------------------- MODULE ExternalProgram ---------------------------
(***************************************************************************)
(* ExternalProgramFilter: runs a program on the ions and plots that come   *)
(* in and loads what it leaves behind; the only filter that decides by     *)
(* itself whether it caches.                                               *)
(***************************************************************************)
EXTENDS FilterBase

New == [commandLine |-> "", workingDir |-> "", alwaysCache |-> FALSE, cleanInput |-> TRUE]

\* getProperties.
Shown(c) == DOMAIN New

Inputs(key) ==
    CASE key = "commandLine" -> {"", "sort"}
      [] key = "workingDir" -> {"", "there", "missing"}
      [] OTHER -> BOOLEAN

\* A directory must be there.
SetProperty(c, key, v) ==
    IF key = "workingDir" /\ v = "missing" THEN Refuse(c) ELSE ApplyPropertyNow(c, key, v)

\* The answers to all that may be asked.
Answers(c, cached) ==
    UNION {{SetProperty(c, key, v) : v \in Inputs(key)} : key \in Shown(c)}

-----------------------------------------------------------------------------
Clone(c) == Taking(New, c, DOMAIN New)

Written == Each(<<"commandLine", "workingDir", "alwaysCache", "cleanInput">>)
Wanted == Each(<<"commandLine", "workingDir", "alwaysCache", "cleanInput">>)
ReadState(c) == Restored(New, c, Written, Wanted)

-----------------------------------------------------------------------------
\* What the results depend on.
Output(c) == IF c.commandLine = "" THEN <<>> ELSE <<c.commandLine, c.workingDir>>

\* refresh: nothing goes through, with or without a program.
Makes(c) == IF c.commandLine = "" THEN {} ELSE {"ions", "plot"}
BlockMask == {}
EmitMask == {"ions", "plot"}
Streams(c, in, cached) == StreamsOf(Makes(c), {}, BlockMask, EmitMask)

\* refresh keeps its result if it is to, and if there is a program.
MayCache(c) == c.alwaysCache /\ c.commandLine # ""
InBounds(c) == TRUE
=============================================================================
