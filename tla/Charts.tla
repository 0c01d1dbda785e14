--------------------------------- MODULE Charts --------------------------------
(* The drawings of the app: candles with lines and series, a line chart, the  *)
(* radar, the gauge and the ring of an allocation. Positions are whole pixels *)
(* counted from the top and the left; a text is as wide as it is estimated.   *)
EXTENDS Figures, TLC

Finite(s) == SelectSeq(s, LAMBDA v : v # Garbage)
Values(s) == {s[i] : i \in DOMAIN s} \ {Garbage}
Rounded(v, n) == (v * n + 50) \div 100          \* Math.round(v * n%)

(***************************** The candle chart ****************************)

labelHeight == 20
labelGap == 16

PlotIn(d, space) ==
    [left |-> space.left, top |-> space.top, width |-> Greatest({1, d.width - space.left - space.right}),
     height |-> Greatest({1, d.height - space.top - space.bottom})]

\* The space around the plot is given, or the axes that are shown get room for their texts.
Space(d, texts, dates, edge) ==
    IF d.padding # Nothing THEN d.padding
    ELSE [left |-> IF d.yAxis /\ d.side = "left" THEN texts ELSE 10, right |-> IF d.yAxis /\ d.side = "right" THEN texts ELSE 10,
          top |-> edge, bottom |-> IF d.xAxis THEN dates ELSE edge]

PlotArea(d) == PlotIn(d, Space(d, 48, 22, 8))

\* A margin of six per cent above and below the values, and of one where they are all the same.
Margined(low, r) == [low |-> One * low - (IF r = 0 THEN One ELSE 6 * r), range |-> IF r = 0 THEN 2 * One ELSE 112 * r]
ScaleOf(values) == Margined(Least(values), Greatest(values) - Least(values))
Extremes(d) == UNION {{c.high, c.low} : c \in Values(d.candles)}

\* Mutated form: the lines do not count for the scale.
ScaleCandlesOnly(d) == ScaleOf(Extremes(d))

(* The scale: every value that is drawn.                                      *)
Scale(d) == ScaleOf(Extremes(d) \cup Values(d.lines) \cup UNION {Values(s) : s \in Values(d.series)})

OnScale(v, plot, scale) == plot.top + plot.height - ((One * v - scale.low) * plot.height) \div scale.range
ValueToChartY(v, d) == OnScale(v, PlotArea(d), Scale(d))

CandleX(i, d) == LET plot == PlotArea(d) IN plot.left + ((2 * i - 1) * plot.width) \div (2 * Len(d.candles))

\* A candle is drawn from its high to its low, its body from open to close.
Shape(x, high, low, open, close, up) ==
    [x |-> x, high |-> high, low |-> low, top |-> Least({open, close}),
     height |-> Greatest({1, open - close, close - open}), up |-> up]
CandleShapes(d) ==
    [i \in DOMAIN d.candles |->
        LET c == d.candles[i] Y(v) == ValueToChartY(v, d)
        IN Shape(CandleX(i, d), Y(c.high), Y(c.low), Y(c.open), Y(c.close), c.close >= c.open)]

\* The lines from the top of the plot to its bottom.
Sorted(d) == SortSeq([i \in DOMAIN d.lines |-> ValueToChartY(d.lines[i], d)], LAMBDA a, b : a < b)
First(d) == PlotArea(d).top + labelHeight \div 2
Last(d) == PlotArea(d).top + PlotArea(d).height - labelHeight \div 2

(* Each label is next to its line, inside the plot, and a gap below the one   *)
(* above it; labels that have left the plot at the bottom take all with them. *)
Spread(ys, first, last) ==
    LET at[i \in 0..Len(ys)] == IF i = 0 THEN -1000
                                ELSE Greatest({Clamp(ys[i], first, last), at[i - 1] + labelGap})
    IN [i \in DOMAIN ys |-> at[i]]
Adjusted(d) == Spread(Sorted(d), First(d), Last(d))

Excess(labels, last) == IF labels = <<>> THEN 0 ELSE labels[Len(labels)] - last
Overflow(d) == Excess(Adjusted(d), Last(d))

\* Mutated form: labels may leave the plot at the bottom.
LabelsPushed(d) == Adjusted(d)

Raised(labels, overflow, first) ==
    IF overflow <= 0 THEN labels ELSE [i \in DOMAIN labels |-> Greatest({first, labels[i] - overflow})]
Labels(d) == Raised(Adjusted(d), Overflow(d), First(d))

Pieces(run) == IF run.current = <<>> THEN run.done ELSE run.done \cup {run.current}

\* Mutated form: what is left when the values end is forgotten.
SegmentsUnfinished(s) ==
    LET run[i \in 0..Len(s)] ==
            IF i = 0 THEN [done |-> {}, current |-> <<>>]
            ELSE IF s[i] = Garbage THEN [done |-> Pieces(run[i - 1]), current |-> <<>>]
            ELSE [run[i - 1] EXCEPT !.current = Append(@, i)]
    IN run[Len(s)].done

(* A series is drawn in pieces, each up to the next missing value.            *)
Segments(s) ==
    LET run[i \in 0..Len(s)] ==
            IF i = 0 THEN [done |-> {}, current |-> <<>>]
            ELSE IF s[i] = Garbage THEN [done |-> Pieces(run[i - 1]), current |-> <<>>]
            ELSE [run[i - 1] EXCEPT !.current = Append(@, i)]
    IN Pieces(run[Len(s)])

\* The dates under the plot: those of the first, the middle and the last candle.
TimeLabels(d) == {1, Len(d.candles) \div 2 + 1, Len(d.candles)}
PriceLabels(d) == LET s == Scale(d) IN <<s.low + s.range, (2 * s.low + s.range) \div 2, s.low>>

ShowChart(d) == d.width > 0 /\ Len(d.candles) > 1

(****************************** The line chart *****************************)

LinePlot(d) == PlotIn(d, Space(d, 36, 18, 6))

\* The scale of a line chart is given or that of its values; nothing is drawn without any.
TickRange(d) ==
    IF Values(d.data) = {} THEN [min |-> 0, max |-> 1]
    ELSE [min |-> Either(d.min, Least(Values(d.data))), max |-> Either(d.max, Greatest(Values(d.data)))]

TickValues(d) ==
    LET r == TickRange(d)
    IN IF ~d.yAxis \/ Values(d.data) = {} THEN <<>>
       ELSE IF d.ticks # <<>> THEN d.ticks ELSE <<r.max, (r.max + r.min) \div 2, r.min>>

\* Mutated form: points are spread from edge to edge though they belong to candles.
PointXSpread(i, d) == LinePlot(d).left + ((i - 1) * LinePlot(d).width) \div Greatest({1, Len(d.data) - 1})

PointX(i, d) ==
    LET plot == LinePlot(d)
    IN IF d.aligned THEN plot.left + ((2 * i - 1) * plot.width) \div (2 * Len(d.data))
       ELSE plot.left + ((i - 1) * plot.width) \div Greatest({1, Len(d.data) - 1})

ValueToY(v, d) ==
    LET r == TickRange(d) plot == LinePlot(d)
    IN plot.top + plot.height - ((v - r.min) * plot.height) \div (IF r.max = r.min THEN 1 ELSE r.max - r.min)

\* What the line chart draws: its ticks and, in pieces, its points.
LineDrawn(d) ==
    IF d.width = 0 \/ Len(d.data) < 2 THEN [ticks |-> <<>>, points |-> {}]
    ELSE [ticks |-> [i \in DOMAIN TickValues(d) |-> ValueToY(TickValues(d)[i], d)],
          points |-> {[j \in DOMAIN run |-> [at |-> run[j], x |-> PointX(run[j], d), y |-> ValueToY(d.data[run[j]], d)]] :
                        run \in Segments(d.data)}]

(********************************* The gauge *******************************)

\* Scores count in tenths.
ClampScore(v) == IF v = Garbage THEN 0 ELSE Clamp(v, 0, 1000)

\* Mutated form: the boundary belongs to the colour below.
ScoreColorBelow(v) == IF v <= 500 THEN "danger" ELSE IF v <= 700 THEN "warning" ELSE IF v <= 900 THEN "success" ELSE "accent"

ScoreColor(v) == IF v < 500 THEN "danger" ELSE IF v < 700 THEN "warning" ELSE IF v < 900 THEN "success" ELSE "accent"

Arcs == <<[from |-> 0, to |-> 500, color |-> "danger"], [from |-> 500, to |-> 700, color |-> "warning"],
          [from |-> 700, to |-> 900, color |-> "success"], [from |-> 900, to |-> 1000, color |-> "accent"]>>

\* The needle: its angle counts from the left end, in hundredths of a degree.
Angle(v) == 18 * v
Needle(d) ==
    [color |-> IF d.locked THEN "border" ELSE IF d.value = Nothing THEN "muted" ELSE ScoreColor(ClampScore(d.value)),
     angle |-> IF d.value = Nothing THEN 0 ELSE Angle(ClampScore(d.value)),
     text |-> IF d.locked \/ d.value = Nothing THEN Nothing ELSE (ClampScore(d.value) + 5) \div 10]

\* The sizes of the dial, of the needle and of the texts under it.
Dial(size) ==
    LET stroke == Greatest({8, Rounded(size, 7)})
        tick == Greatest({6, Rounded(size, 5)})
        radius == Rounded(size, 42)
        center == radius + stroke \div 2 + tick
        valueY == center + stroke \div 2 + Greatest({6, Rounded(Greatest({18, Rounded(size, 20)}), 38)})
        font == (Greatest({1200, (size * 85) \div 10}) + 50) \div 100
        labelY == valueY + Rounded(font, 135)
    IN [center |-> center, radius |-> radius, stroke |-> stroke, tick |-> tick, value |-> valueY, label |-> labelY,
        needle |-> radius - Rounded(stroke, 135), height |-> labelY + Rounded(font, 120)]

(********************************* The radar *******************************)

axes == <<"liquidity", "diversification", "alpha", "drawdown">>
Sin == <<0, 1, 0, -1>>
Cos == <<1, 0, -1, 0>>
Anchor == <<"middle", "start", "middle", "end">>
Baseline == <<"auto", "central", "hanging", "central">>
fontSize == 11

Gap(i, d) ==
    LET gap == Greatest({10, Rounded(d.size, 7)})
    IN IF ~d.labels THEN 0 ELSE IF Sin[i] = 0 THEN gap ELSE Greatest({4, Rounded(gap, 60)})

Radius(d) == Greatest({0, d.size \div 2 - Greatest({12, Rounded(d.size, 6)}) - Gap(1, d)})

\* The box of a label, in the square the radar would have without labels.
BoxAt(x, y, w, anchor, baseline) ==
    [left |-> CASE anchor = "start" -> x [] anchor = "end" -> x - w [] OTHER -> x - w \div 2,
     right |-> CASE anchor = "start" -> x + w [] anchor = "end" -> x [] OTHER -> x + (w + 1) \div 2,
     top |-> CASE baseline = "hanging" -> y [] baseline = "central" -> y - 6 [] OTHER -> y - fontSize,
     bottom |-> CASE baseline = "hanging" -> y + fontSize [] baseline = "central" -> y + 6 [] OTHER -> y]
Toward(i, distance, from) == [x |-> from.x + Sin[i] * distance, y |-> from.y - Cos[i] * distance]
LabelBox(i, d) ==
    LET Box(at) == BoxAt(at.x, at.y, d.widths[i], Anchor[i], Baseline[i])
    IN Box(Toward(i, Radius(d) + Gap(i, d), [x |-> d.size \div 2, y |-> d.size \div 2]))

\* Mutated form: room is made on the side that needs it, and the radar is moved.
ExtraLeftOnly(d) ==
    LET boxes == {LabelBox(i, d) : i \in 1..4} IN [x |-> Greatest({0} \cup {-b.left : b \in boxes}), y |-> 0]

(* The canvas grows by the larger overflow on both sides, so that the radar   *)
(* stays where it was.                                                        *)
Extra(d) ==
    LET pad == Greatest({2, Rounded(d.size, 2)})
        Room(boxes) == [x |-> Greatest({0} \cup UNION {{-b.left, b.right - d.size} : b \in boxes}),
                        y |-> Greatest({0} \cup UNION {{pad - b.top, b.bottom - (d.size - pad)} : b \in boxes})]
    IN IF ~d.labels THEN [x |-> 0, y |-> 0] ELSE Room({LabelBox(i, d) : i \in 1..4})

Center(d) ==
    LET Moved(by) == [x |-> d.size \div 2 + by.x, y |-> d.size \div 2 + by.y] IN Moved(Extra(d))
At(i, distance, d) == Toward(i, distance, Center(d))
ValuePoint(i, d) == At(i, (ClampScore(d.values[i]) * Radius(d)) \div 1000, d)
Divisions(d) == Greatest({3, d.divisions})
Ring(k, i, d) == At(i, (k * Radius(d)) \div Divisions(d), d)

\* A wedge and its edge go from one axis to the next, and the last to the first.
Wedges == {<<i, (i % 4) + 1>> : i \in 1..4}

(********************************* The ring ********************************)

Shares(d) == SelectSeq(d.parts, LAMBDA v : v # Garbage /\ v > 0)
TotalOf(s) == LET sum[i \in 0..Len(s)] == IF i = 0 THEN 0 ELSE s[i] + sum[i - 1] IN sum[Len(s)]

\* Mutated form: every arc begins where the ring begins.
ArcsOfRingStacked(d) == [i \in DOMAIN Shares(d) |-> [from |-> 0, length |-> Shares(d)[i]]]

\* The arcs of the ring, as parts of the total: each begins where the last one ends.
ArcsOfRing(d) == [i \in DOMAIN Shares(d) |-> [from |-> TotalOf(Take(Shares(d), i - 1)), length |-> Shares(d)[i]]]

(***************************** What is drawn ******************************)

(* The data the charts are drawn from: candles with their high above and      *)
(* their low below, prices of one range, a pixel or more for each candle.     *)
Upright(c, bound) ==
    /\ c # Garbage /\ {c.open, c.close, c.high, c.low} \subseteq (-bound)..bound
    /\ c.low <= c.open /\ c.low <= c.close /\ c.open <= c.high /\ c.close <= c.high
CandleData(d, bound) ==
    /\ DOMAIN d.candles = 1..Len(d.candles) /\ Len(d.candles) \in Nat
    /\ \A i \in DOMAIN d.candles : Upright(d.candles[i], bound)
    /\ \A i \in DOMAIN d.lines : d.lines[i] \in (-bound)..bound
    /\ \A i \in DOMAIN d.series : d.series[i] # Garbage /\ Values(d.series[i]) \subseteq (-bound)..bound
    /\ PlotArea(d).left \in Int /\ PlotArea(d).top \in Int
    /\ PlotArea(d).width \in Nat /\ PlotArea(d).width >= Len(d.candles)
    /\ PlotArea(d).height \in Nat

\* Lines at places of the plot, and room for a label.
LabelData(d) ==
    /\ Sorted(d) \in Seq(Int)
    /\ PlotArea(d).top \in Int
    /\ PlotArea(d).height \in Nat /\ PlotArea(d).height >= labelHeight

\* A size of 30 pixels or more, and a score that may be missing or unreadable.
GaugeData(d) == d.size \in Nat /\ d.size >= 30 /\ d.value \in Int \cup {Nothing, Garbage}

\* An even size with room for the rings, and the widths of the labels.
RadarData(d) ==
    /\ d.size \in Nat /\ \E half \in 0..d.size : d.size = 2 * half
    /\ \A i \in 1..4 : d.widths[i] \in Nat /\ d.values[i] \in Int \cup {Garbage}
    /\ d.divisions \in Int /\ Radius(d) >= Divisions(d)

\* Whole parts, of which those that can be drawn are.
RingData(d) == Shares(d) \in Seq(Int)

(****************************** Properties ********************************)

(* Whatever is drawn over the candles is drawn inside the plot: the wicks,    *)
(* the lines of the plan and the points of the series, since all of them make *)
(* the scale. Candles stand apart and in order, a wick around its body.       *)
DrawnInPlot ==
    Drawn("candles") /\ ShowChart(shown) =>
        LET plot == PlotArea(shown)
            shapes == CandleShapes(shown)
            Inside(y) == y \in plot.top..plot.top + plot.height
        IN /\ \A i \in DOMAIN shapes :
                 /\ Inside(shapes[i].high) /\ Inside(shapes[i].low)
                 /\ shapes[i].high <= shapes[i].top /\ shapes[i].top + shapes[i].height - 1 <= shapes[i].low
                 /\ shapes[i].x \in plot.left..plot.left + plot.width
                 /\ i > 1 => shapes[i].x > shapes[i - 1].x
           /\ \A i \in DOMAIN shown.lines : Inside(ValueToChartY(shown.lines[i], shown))
           /\ \A i \in DOMAIN shown.series : \A v \in Values(shown.series[i]) : Inside(ValueToChartY(v, shown))
           /\ \A i \in 1..3 : Inside(plot.top + plot.height
                  - ((PriceLabels(shown)[i] - Scale(shown).low) * plot.height) \div Scale(shown).range)
           /\ TimeLabels(shown) \subseteq DOMAIN shapes

(* The labels of the lines stay in the plot and keep the order of the lines.  *)
(* As long as none is pushed out at the bottom no two of them touch; when the *)
(* lines crowd both ends of the plot two labels may come to lie on each other.*)
LabelsInPlot ==
    Drawn("candles") /\ ShowChart(shown) =>
        LET InOrder(labels, first, last, overflow) ==
                \A i \in DOMAIN labels :
                   /\ labels[i] \in first..last
                   /\ i > 1 => /\ labels[i] >= labels[i - 1]
                               /\ overflow <= 0 => labels[i] - labels[i - 1] >= labelGap
        IN InOrder(Labels(shown), First(shown), Last(shown), Overflow(shown))

(* No piece of a series bridges a missing value, and no value is left out.    *)
PiecesAreRuns ==
    Drawn("candles") =>
        \A i \in DOMAIN shown.series :
            LET s == shown.series[i]
                runs == {r \in (DOMAIN s) \X (DOMAIN s) :
                           /\ r[1] <= r[2] /\ \A k \in r[1]..r[2] : s[k] # Garbage
                           /\ r[1] = 1 \/ s[r[1] - 1] = Garbage
                           /\ r[2] = Len(s) \/ s[r[2] + 1] = Garbage}
            IN {<<p[1], p[Len(p)]>> : p \in Segments(s)} = runs

(* The needle has the colour of the arc it points at, at the boundaries too,  *)
(* ends inside the arcs, and the texts lie below it and inside the drawing.   *)
NeedleFitsDial ==
    Drawn("gauge") =>
        LET n == Needle(shown)
            dial == Dial(shown.size)
        IN /\ n.color \notin {"border", "muted"} =>
                 \E i \in 1..4 : /\ Arcs[i].color = n.color
                                 /\ Angle(Arcs[i].from) <= n.angle
                                 /\ n.angle < Angle(Arcs[i].to) \/ (n.angle = Angle(1000) /\ i = 4)
           /\ 0 < dial.needle /\ dial.needle < dial.radius - dial.stroke \div 2
           /\ dial.radius + dial.stroke \div 2 + 2 <= dial.center + dial.stroke
           /\ dial.value > dial.center /\ dial.label > dial.value /\ dial.height > dial.label

(* Long labels make the canvas of the radar grow, never the radar shrink or   *)
(* move: each label is inside the canvas, the centre is its middle, and the   *)
(* values lie inside the outermost ring, the rings inside each other.         *)
RadarFitsCanvas ==
    Drawn("radar") =>
        LET Fits(extra, center) ==
                LET Reach(p) == Greatest({p.x - center.x, center.x - p.x}) + Greatest({p.y - center.y, center.y - p.y})
                    InCanvas(box) == /\ 0 <= box.left + extra.x /\ box.right <= shown.size + extra.x
                                     /\ 0 <= box.top + extra.y /\ box.bottom <= shown.size + extra.y
                IN /\ shown.labels => \A i \in 1..4 : InCanvas(LabelBox(i, shown))
                   /\ 2 * center.x = shown.size + 2 * extra.x /\ 2 * center.y = shown.size + 2 * extra.y
                   /\ \A w \in Wedges :
                        LET reach == [k \in 1..Divisions(shown) |-> Reach(Ring(k, w[1], shown))]
                        IN /\ Reach(ValuePoint(w[2], shown)) <= reach[Divisions(shown)]
                           /\ \A k \in 2..Divisions(shown) : reach[k - 1] < reach[k]
        IN Fits(Extra(shown), Center(shown))

(* The arcs of an allocation close the ring: one after the other, from its    *)
(* beginning to its end, whatever parts cannot be drawn.                      *)
RingCloses ==
    Drawn("ring") =>
        LET arcs == ArcsOfRing(shown)
        IN arcs # <<>> =>
              /\ arcs[1].from = 0
              /\ arcs[Len(arcs)].from + arcs[Len(arcs)].length = TotalOf(Shares(shown))
              /\ \A i \in 2..Len(arcs) : arcs[i].from = arcs[i - 1].from + arcs[i - 1].length
=============================================================================
