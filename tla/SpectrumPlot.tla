----------------------------- MODULE SpectrumPlot -----------------------------
(***************************************************************************)
(* SpectrumPlotFilter: plots how many ions there are of each mass-to-charge*)
(* value, perhaps with a background fitted to them, and lets nothing else  *)
(* through.  The plots that are cached get a new look in place.            *)
(***************************************************************************)
EXTENDS FilterBase

\* Values are in twentieths.
New == [minPlot |-> 0, maxPlot |-> 3000, autoExtrema |-> TRUE, binWidth |-> 1,
        plotStyle |-> "lines", logarithmic |-> TRUE, fitMode |-> "none",
        massBackStart |-> 24, massBackEnd |-> 38, showOnlyCorrected |-> FALSE,
        normaliseMode |-> "none", normLow |-> 0, normHigh |-> 2000, rgba |-> "blue"]

\* getProperties.
Shown(c) ==
    {"binWidth", "autoExtrema", "minPlot", "maxPlot", "logarithmic", "normaliseMode",
     "plotStyle", "rgba", "fitMode"}
    \cup (IF c.normaliseMode = "inBound" THEN {"normLow", "normHigh"} ELSE {})
    \cup (IF c.fitMode = "none" THEN {}
          ELSE {"massBackStart", "massBackEnd", "showOnlyCorrected"})

Inputs(key) ==
    CASE key = "binWidth" -> {0, 40, 4000}
      [] key \in {"minPlot", "maxPlot"} -> {20, 40}
      [] key = "normaliseMode" -> {"none", "max", "inBound", "integral"}
      [] key = "plotStyle" -> {"lines", "bars"}
      [] key = "rgba" -> {"blue", "red"}
      [] key = "fitMode" -> {"none", "tof"}
      [] key \in {"massBackStart", "massBackEnd"} -> {30, 50}
      [] key \in {"normLow", "normHigh"} -> {100, 3000}
      [] OTHER -> BOOLEAN

-----------------------------------------------------------------------------
SetBinWidth(c, v) ==
    IF v = 0 \/ v > c.maxPlot - c.minPlot THEN Refuse(c) ELSE Assign(c, "binWidth", v)

\* The ends of the plot can be set if they are not computed.
SetExtremum(c, key, v) ==
    LET new == [c EXCEPT ![key] = v] IN
    IF c.autoExtrema \/ new.minPlot >= new.maxPlot THEN Refuse(c) ELSE Changed(new)

\* The ends of a window, in their order.
SetWindow(c, low, high, key, v) ==
    LET new == [c EXCEPT ![key] = v] IN
    IF new[low] >= new[high] THEN Refuse(c) ELSE ApplyPropertyNow(c, key, v)

\* A bound of the normalisation.  Also one that stays what it is takes the cache
\* away, asking for no update: cacheOK is reset, and the plots stay where they are.
SetNormaliseBound(c, cached, key, v) ==
    LET a == SetWindow(c, "normLow", "normHigh", key, v)
    IN  IF cached /\ a = Ignore(c) THEN Dropped(c) ELSE a

Background(c) == c.fitMode # "none" /\ ~c.showOnlyCorrected

\* The look of the cached plots is changed, also that of the background's plot,
\* which otherwise has its own; on a logarithmic axis counts below zero are cut
\* off by refresh only.  Without a cache what plots there are go, but for that axis.
SetLook(c, cached, key, v) ==
    LET new == [c EXCEPT ![key] = v]
        same == key # "plotStyle" /\ c[key] = v
    IN  CASE same /\ (cached \/ key = "logarithmic") -> Ignore(c)
          [] ~same /\ cached ->
                [Patched(new) EXCEPT !.misfit = \/ Background(c)
                                                \/ key = "logarithmic" /\ c.fitMode # "none"]
          [] ~same /\ ~cached /\ key = "logarithmic" -> Uncleared(new, TRUE)
          [] OTHER -> Answer(TRUE, ~same, "cleared", new)

SetProperty(c, cached, key, v) ==
    CASE key = "binWidth" -> SetBinWidth(c, v)
      [] key \in {"minPlot", "maxPlot"} -> SetExtremum(c, key, v)
      [] key \in {"logarithmic", "plotStyle", "rgba"} -> SetLook(c, cached, key, v)
      [] key \in {"fitMode", "normaliseMode"} -> Assign(c, key, v)
      [] key \in {"massBackStart", "massBackEnd"} ->
            SetWindow(c, "massBackStart", "massBackEnd", key, v)
      [] key \in {"normLow", "normHigh"} -> SetNormaliseBound(c, cached, key, v)
      [] OTHER -> ApplyPropertyNow(c, key, v)

\* The answers to all that may be asked.
Answers(c, cached) ==
    UNION {{SetProperty(c, cached, key, v) : v \in Inputs(key)} : key \in Shown(c)}

-----------------------------------------------------------------------------
Clone(c) == Taking(New, c, DOMAIN New)

Written ==
    <<Element("extrema", {"minPlot", "maxPlot", "autoExtrema"})>>
    \o Each(<<"binWidth", "rgba", "logarithmic", "plotStyle">>)
    \o <<Element("background", {"fitMode", "massBackStart", "massBackEnd",
                                "showOnlyCorrected"}),
         Element("normalise", {"normaliseMode", "normLow", "normHigh"})>>

\* Older files have neither of the last two.
Wanted == [i \in DOMAIN Written |-> [Written[i] EXCEPT !.optional = i > 5]]

\* readState refuses bins that are wider than the plot.
ReadState(c) ==
    LET r == Restored(New, c, Written, Wanted)
    IN  [r EXCEPT !.ok =
            /\ r.ok /\ r.conf.minPlot < r.conf.maxPlot /\ r.conf.normLow < r.conf.normHigh
            /\ r.conf.autoExtrema \/ r.conf.binWidth <= r.conf.maxPlot - r.conf.minPlot]

-----------------------------------------------------------------------------
\* From where to where the ions are that come in: fewer where there are ranges.
Least(range) == 40
Greatest(range) == IF range = NoRange THEN 2000 ELSE 41

\* Mutant of Extrema: ends that were given are computed, too.
Extrema_Always(c, range) ==
    [c EXCEPT !.minPlot = Least(range) - 20, !.maxPlot = Greatest(range) + 20]

\* The ends of the plot, computed by refresh with some room on both sides.
Extrema(c, range) ==
    IF ~c.autoExtrema THEN c
    ELSE [c EXCEPT !.minPlot = Least(range) - 20, !.maxPlot = Greatest(range) + 20]

\* If not even one bin fits there are ten of them.
Refreshed(c, range) ==
    LET e == Extrema(c, range)
        width == e.maxPlot - e.minPlot
    IN  IF width \div c.binWidth > 0 THEN e ELSE [e EXCEPT !.binWidth = (width + 9) \div 10]

\* The plot, the background that is shown or taken off, and the scale.
Plotted(c) ==
    <<IF c.autoExtrema THEN <<>> ELSE <<c.minPlot, c.maxPlot>>, c.binWidth,
      c.plotStyle, c.logarithmic, c.rgba>>
Corrected(c) ==
    IF c.fitMode = "none" THEN <<>>
    ELSE <<c.massBackStart, c.massBackEnd, c.showOnlyCorrected>>
Normalised(c) ==
    <<c.normaliseMode, IF c.normaliseMode = "inBound" THEN <<c.normLow, c.normHigh>> ELSE <<>>>>
Output(c) == <<Plotted(c), Corrected(c), Normalised(c)>>

\* There is a plot also of no ions.
Streams(c, in, cached) == StreamsOf({"plot"}, {}, StreamTypes, {"plot"})

\* Bins have a width, and windows are not empty.
InBounds(c) ==
    /\ c.binWidth > 0 /\ c.minPlot < c.maxPlot
    /\ c.massBackStart < c.massBackEnd /\ c.normLow < c.normHigh
=============================================================================
