---------------------------- MODULE InsightScreens ---------------------------
(* The page of an insight, its chart and what the chart is explained by, and  *)
(* the tab that lists the insights. Times count in hours, prices in whole     *)
(* units, the index of relative strength in hundredths.                       *)
EXTENDS Readouts

rsiPeriod == 14
bollingerPeriod == 20

(******************************* The window ********************************)

AssetType(d) == IF d.class \in {"crypto", "stock"} THEN d.class ELSE Nothing
Interval(d) == IF d.timeframe # Nothing THEN d.timeframe ELSE IF AssetType(d) = "crypto" THEN "4h" ELSE "1d"
Hours(d) == IF Interval(d) = "4h" THEN 4 ELSE 24

\* What is shown: five days of candles of four hours, thirty of days, up to the time the page was opened.
DisplayRange(d) == [from |-> d.now - 24 * (IF Interval(d) = "4h" THEN 5 ELSE 30), to |-> d.now]

\* Mutated form: weekends count as days with candles.
LookbackPlain(d) == (Greatest({rsiPeriod + 1, bollingerPeriod}) * Hours(d) + 23) \div 24

\* The days before it that the indicators of its first candle need.
Lookback(d) ==
    ((Greatest({rsiPeriod + 1, bollingerPeriod}) * Hours(d) + 23) \div 24)
    + (IF AssetType(d) = "stock" /\ Interval(d) = "1d" THEN 10 ELSE 0)

\* The request names days: the first and the last of them count whole.
QueryRange(d) == [from |-> 24 * ((DisplayRange(d).from \div 24) - Lookback(d)), to |-> (24 * (DisplayRange(d).to \div 24)) + 23]

\* What the server answers: candles up to now, or a little ahead of the clock of the device, none on the weekend for a stock.
Served(d) ==
    LET q == QueryRange(d)
        last == Least({q.to, d.now + d.ahead})
        Candle0(k) == [time |-> q.from + Hours(d) * (k - 1), close |-> IF k = d.bad THEN Garbage ELSE 50 + ((7 * k) % 13)]
    IN SelectSeq([k \in 1..(((last - q.from) \div Hours(d)) + 1) |-> Candle0(k)],
                 LAMBDA c : d.class = "stock" => (c.time \div 24) % 7 \notin {5, 6})

\* A point without its numbers is left out.
FullCandles(d) == SelectSeq(Served(d), LAMBDA c : c.close # Garbage)
Closes(candles) == [i \in DOMAIN candles |-> candles[i].close]

\* Where the candles of a range begin and end: the first ones before it are skipped, the last ones after it dropped.
SliceOf(s, range) ==
    LET start == Least({i \in 1..(Len(s) + 1) : i = Len(s) + 1 \/ s[i].time >= range.from})
    IN [start |-> start, end |-> Greatest({i \in (start - 1)..Len(s) : i = start - 1 \/ s[i].time <= range.to})]

\* Mutated form: the last candle of the window is left out.
DisplaySliceShort(d) == [SliceOf(FullCandles(d), DisplayRange(d)) EXCEPT !.end = @ - 1]

\* The candles of the window.
DisplaySlice(d) == SliceOf(FullCandles(d), DisplayRange(d))
Cut(s, slice) == SubSeq(s, slice.start, slice.end)
Sliced(s, d) == IF s = <<>> THEN <<>> ELSE Cut(s, DisplaySlice(d))
DisplayCandles(d) == Sliced(FullCandles(d), d)

(******************************* Indicators ********************************)

Gain(s, i) == Greatest({0, s[i] - s[i - 1]})
Loss(s, i) == Greatest({0, s[i - 1] - s[i]})
SumOver(s, from, to, V(_, _)) == TotalOf([i \in 1..(to - from + 1) |-> V(s, from + i - 1)])

\* The averages of the gains and the losses at each close after the first period: those of the period, then smoothed.
Averages(s, period) ==
    LET Smoothed(avg, i) ==
            [gain |-> (avg.gain * (period - 1) + One * Gain(s, i)) \div period, loss |-> (avg.loss * (period - 1) + One * Loss(s, i)) \div period]
        first == [gain |-> (One * SumOver(s, 2, period + 1, Gain)) \div period, loss |-> (One * SumOver(s, 2, period + 1, Loss)) \div period]
        upTo[i \in (period + 1)..Len(s)] ==
            IF i = period + 1 THEN <<first>> ELSE LET before == upTo[i - 1] IN Append(before, Smoothed(before[Len(before)], i))
    IN upTo[Len(s)]
Strength(a) == IF a.loss = 0 THEN 100 * One ELSE (100 * One * a.gain) \div (a.gain + a.loss)

ComputeRSI(s, period) == IF Len(s) < period + 1 THEN Nothing ELSE Strength(Averages(s, period)[Len(s) - period])

\* Mutated form: the first value of a market that never fell is that of one that never moved.
ComputeRSISeriesFlat(s, period) ==
    IF Len(s) < period + 1 THEN <<>>
    ELSE LET avg == Averages(s, period)
         IN [i \in DOMAIN s |-> IF i <= period THEN Garbage ELSE IF i = period + 1 /\ avg[1].loss = 0 THEN 0 ELSE Strength(avg[i - period])]

\* The value of every close; the first ones have none.
ComputeRSISeries(s, period) ==
    IF Len(s) < period + 1 THEN <<>>
    ELSE LET avg == Averages(s, period) IN [i \in DOMAIN s |-> IF i <= period THEN Garbage ELSE Strength(avg[i - period])]

\* A band: the sum of its closes, and the square of their deviation, times the square of the period.
Band(s) == LET sum == TotalOf(s) IN [sum |-> sum, spread |-> Len(s) * TotalOf([i \in DOMAIN s |-> s[i] * s[i]]) - sum * sum]
ComputeBollinger(s, period) == IF Len(s) < period THEN Nothing ELSE Band(SubSeq(s, Len(s) - period + 1, Len(s)))
ComputeBollingerSeries(s, period) ==
    IF Len(s) < period THEN <<>>
    ELSE [i \in DOMAIN s |-> IF i < period THEN Garbage ELSE Band(SubSeq(s, i - period + 1, i))]

DisplayRsi(d) == Sliced(ComputeRSISeries(Closes(FullCandles(d)), rsiPeriod), d)
DisplayBands(d) == Sliced(ComputeBollingerSeries(Closes(FullCandles(d)), bollingerPeriod), d)
MarketAlpha(d) == d.type = "market_alpha"

\* The upper and the lower band are drawn for a signal of the market.
IndicatorSeries(d) ==
    IF ~MarketAlpha(d) \/ Values(DisplayBands(d)) = {} THEN <<>>
    ELSE <<[color |-> "muted", values |-> DisplayBands(d)], [color |-> "warning", values |-> DisplayBands(d)]>>

(******************************* The trigger *******************************)

\* A parameter: a number, or a text that holds one. The items want a number, the lines take both.
Numeric(v) == IF v \in {Nothing, Garbage} THEN Nothing ELSE v.n
Strict(v) == IF v \in {Nothing, Garbage} THEN Nothing ELSE IF v.text THEN Nothing ELSE v.n
MoneyItem(v) == IF v = Nothing THEN Nothing ELSE <<"money", v>>
PercentItem(v) == IF v = Nothing THEN Nothing ELSE <<"percent", v>>
Indicator(id, n, value) == <<[id |-> id, n |-> n, value |-> value]>>
LayerPrice(p, n) == IF n \in DOMAIN p.layers THEN p.layers[n] ELSE Nothing

\* What the trigger of a plan watches; the key names the threshold, and the plan has its numbers.
TriggerItem(threshold, p) ==
    LET n == threshold.n
        Get(key) == Strict(p[key])
    IN CASE threshold.id = "stop_loss" ->
              Indicator("stop-loss", 0, Either(MoneyItem(Either(Get("stop_loss_price"), Get("support_level"))), PercentItem(Get("stop_loss_pct"))))
         [] threshold.id = "layer" -> Indicator("take-profit", n, MoneyItem(Strict(LayerPrice(p, n))))
         [] threshold.id = "safety" -> Indicator("safety", n, Nothing)
         [] threshold.id = "trailing_stop" ->
              Indicator("trailing-stop", 0, PercentItem(Either(Get("trailing_stop_pct"), Get("callback_rate"))))
         [] threshold.id = "execution" -> Indicator("dca", 0, MoneyItem(Get("amount")))
         [] threshold.id = "addition" -> Indicator("addition", n, Nothing)
         [] threshold.id = "funding" ->
              Indicator("funding", 0, PercentItem(Either(Get("trigger_funding_rate"), Get("trigger_basis_pct_max"))))
         [] threshold.id = "trend" -> Indicator("trend", 0, <<"text", n>>)
         [] threshold.id = "rebalance" -> Indicator("rebalance", 0, PercentItem(Get("rebalance_threshold_pct")))
         [] OTHER -> <<>>

TraceLine(v, color) == IF v = Nothing THEN <<>> ELSE <<[value |-> v, color |-> color]>>

\* Mutated form: layers count from zero.
TriggerLinesShifted(threshold, p) ==
    CASE threshold.id = "stop_loss" ->
           TraceLine(Numeric(p.stop_loss_price), "danger") \o TraceLine(Numeric(p.support_level), "warning")
      [] threshold.id = "layer" -> TraceLine(Numeric(LayerPrice(p, threshold.n + 1)), "accent")
      [] OTHER -> <<>>

TriggerLines(threshold, p) ==
    CASE threshold.id = "stop_loss" ->
           TraceLine(Numeric(p.stop_loss_price), "danger") \o TraceLine(Numeric(p.support_level), "warning")
      [] threshold.id = "layer" -> TraceLine(Numeric(LayerPrice(p, threshold.n)), "accent")
      [] threshold.id = "trailing_stop" ->
           LET activation == Numeric(p.activation_price)
               pct == Either(Numeric(p.trailing_stop_pct), Numeric(p.callback_rate))
               initial == IF Nothing \in {activation, pct} THEN Nothing ELSE (activation * (One - pct)) \div One
           IN TraceLine(activation, "accent") \o TraceLine(Either(Numeric(p.initial_trailing_stop_price), initial), "warning")
      [] OTHER -> <<>>

ColorFor(id) ==
    CASE id = "stop-loss" -> "danger" [] id \in {"trailing-stop", "funding"} -> "warning"
      [] id \in {"take-profit", "dca", "rebalance", "trend"} -> "accent" [] OTHER -> Nothing

IndicatorLines(d) == IF MarketAlpha(d) \/ d.plan = Nothing THEN <<>> ELSE TriggerLines(d.threshold, d.plan)

\* The plan is that of the active report: without one the trigger has no numbers.
Bare == [key \in {"stop_loss_price", "support_level", "stop_loss_pct", "trailing_stop_pct", "callback_rate", "amount", "activation_price",
                  "trigger_funding_rate", "trigger_basis_pct_max", "rebalance_threshold_pct", "initial_trailing_stop_price"} |-> Nothing]
        @@ [layers |-> <<>>]
LinkedPlan(d) == IF d.plan = Nothing THEN Bare ELSE d.plan

\* The indicators at the last close.
MarketItems(rsi, band, candles) ==
    LET Item(id, value, color) == <<[id |-> id, value |-> value, color |-> color]>>
    IN When(rsi # Nothing, Item("rsi", rsi, "accent"))
       \o When(band # Nothing, Item("bollinger-upper", band, "muted") \o Item("bollinger-lower", band, "warning"))
       \o When(candles # <<>>, Item("last-close", candles[Len(candles)].close, Nothing))

\* What explains the chart: the indicators, or the threshold of the trigger, or else the reason in words.
IndicatorItems(d) ==
    LET closes == Closes(FullCandles(d))
        Colored(items) == [i \in DOMAIN items |-> [id |-> items[i].id, value |-> items[i].value, color |-> ColorFor(items[i].id)]]
        OrReason(items) == IF items = <<>> /\ d.reason # Nothing THEN <<[id |-> "trigger", value |-> d.reason, color |-> Nothing]>> ELSE items
    IN OrReason(IF MarketAlpha(d) THEN MarketItems(ComputeRSI(closes, rsiPeriod), ComputeBollinger(closes, bollingerPeriod), DisplayCandles(d))
                ELSE Colored(TriggerItem(d.threshold, LinkedPlan(d))))

(******************************** The page *********************************)

chartPadding == [top |-> 8, right |-> 56, bottom |-> 8, left |-> 12]
PriceChart(d) ==
    [candles |-> DisplayCandles(d), width |-> d.width, height |-> 220, side |-> "right", xAxis |-> FALSE, yAxis |-> TRUE, padding |-> chartPadding]
RsiChart(d) ==
    [data |-> DisplayRsi(d), min |-> 0, max |-> 100 * One, ticks |-> <<100 * One, 70 * One, 30 * One, 0>>, aligned |-> TRUE,
     width |-> d.width, height |-> 64, side |-> "right", xAxis |-> FALSE, yAxis |-> TRUE, padding |-> chartPadding]

\* The dates under both charts are written by a third drawing.
ChartXAxis(d) ==
    LET n == Len(DisplayCandles(d))
        plot == Greatest({1, d.width - chartPadding.left - chartPadding.right})
    IN IF n < 2 \/ d.width = 0 THEN {}
       ELSE {[at |-> i, x |-> chartPadding.left + (((2 * i - 1) * plot) \div (2 * n))] : i \in {1, (n \div 2) + 1, n}}

\* A page whose insight is not found, or whose request failed, keeps loading.
DetailPage(d) ==
    IF ~d.loaded THEN [state |-> "loading"]
    ELSE LET chart == Len(DisplayCandles(d)) > 1
         IN [state |-> "insight", chart |-> chart,
             rsi |-> chart /\ MarketAlpha(d) /\ Values(DisplayRsi(d)) # {},
             shelf |-> IF chart THEN IndicatorItems(d) ELSE <<>>,
             plan |-> d.plan # Nothing,
             primary |-> IF MarketAlpha(d) THEN "dismiss" ELSE "quick-update",
             secondary |-> IF MarketAlpha(d) THEN Nothing ELSE "dismiss"]

(********************************* The tab *********************************)

\* A search finds an item by its words.
Found(items, search) == SelectSeq(items, LAMBDA item : search = Nothing \/ search \in item.words)

SeverityRailColor(w) ==
    LET tone == ToneForSeverity(Either(w, ""))
    IN CASE tone = "critical" -> "danger" [] tone = "high" -> "warning" [] tone = "medium" -> "accent" [] tone = "low" -> "success" [] OTHER -> "border"

\* Mutated form: whatever has an asset opens the brief of the asset.
OpenQueueItemByKey(item) ==
    IF item.asset_key # Nothing THEN "asset-brief" ELSE IF item.type = "market_alpha" THEN "insight-detail" ELSE "quick-update"

OpenQueueItem(item) ==
    IF item.type = "market_alpha" /\ item.asset_key # Nothing THEN "asset-brief"
    ELSE IF item.type = "market_alpha" THEN "insight-detail" ELSE "quick-update"

QueueCard(item, d) ==
    LET label == ResolveText("type", item.type, d)
    IN [label |-> label, severity |-> BriefSeverityLabel(item.severity, d), tone |-> ToneForSeverity(Either(item.severity, "")),
        rail |-> SeverityRailColor(item.severity),
        headline |-> IF item.asset = "PORTFOLIO" /\ item.type = "action_alert" THEN "rebalance" ELSE Either(item.asset, label),
        button |-> IF item.type = "market_alpha" THEN "view" ELSE "executed", opens |-> OpenQueueItem(item)]

\* A request refused because the session ended, and one that failed, leave the list empty.
InsightsQuery(d) == CASE d.resp = 200 -> d.items [] d.resp = 401 -> <<>> [] OTHER -> Nothing
Queue(d) ==
    LET found == Found(Either(InsightsQuery(d), <<>>), d.search)
    IN IF d.resp = Nothing THEN [state |-> "loading", cards |-> <<>>]
       ELSE [state |-> IF found = <<>> THEN "empty" ELSE "list", cards |-> [i \in DOMAIN found |-> QueueCard(found[i], d)]]

TabRegimeQuery(d) == RegimeQuery(d.regimeResp)
RegimeCard(d) ==
    IF d.regimeResp = Nothing THEN [state |-> "loading"]
    ELSE IF ~TabRegimeQuery(d).data THEN [state |-> "unavailable"]
    ELSE [state |-> "regime", tone |-> ToneForRegime(d.regime), opens |-> "market-regime",
          labels |-> {ResolveText("regime", d.regime, d), ResolveText("trendStrength", d.strength, d)}
                     \cup (IF d.drivers = <<>> THEN {} ELSE {RegimeDriver(d.drivers[1], d)})
                     \cup {ResolveText("semantic", w, d) : w \in Values(Take(d.actions, 2))}]

FeaturedAssets(d) ==
    LET found == Found(IF d.regimeResp = 200 THEN d.featured ELSE <<>>, d.search)
    IN [i \in DOMAIN found |-> [bias |-> ResolveText("actionBias", found[i].bias, d), tone |-> ToneForActionBias(found[i].bias),
                                signal |-> ResolveText("summarySignal", found[i].signal, d), opens |-> "asset-brief"]]

InsightsTab(d) ==
    IF ~d.paid THEN [state |-> "locked", opens |-> "paywall"]
    ELSE [state |-> "open", regime |-> RegimeCard(d), featured |-> FeaturedAssets(d), queue |-> Queue(d)]

(********************************* The data ********************************)

\* What is not there is no item.
ASSUME ItemAssumption == Nothing \notin {"money"} \X Int

\* Neither is it a band.
ASSUME BandAssumption == Nothing \notin [sum : Int, spread : Int]

\* The closes of a market, and how many of them an indicator looks back.
CloseData(d) == d.closes \in Seq(Int) /\ d.period \in Nat \ {0}

\* The parameters of a plan that watches something: what it stops at and how far below does not count below zero.
Parameter == {Nothing, Garbage} \cup [n : Int, text : BOOLEAN]
TriggerData(d) ==
    d.plan # Nothing =>
        /\ \A key \in {"stop_loss_price", "support_level", "stop_loss_pct", "trailing_stop_pct", "callback_rate", "activation_price",
                       "initial_trailing_stop_price"} : d.plan[key] \in Parameter
        /\ \A i \in DOMAIN d.plan.layers : d.plan.layers[i] \in Parameter
        /\ \A key \in {"trailing_stop_pct", "callback_rate", "activation_price"} :
              d.plan[key] \in {Nothing, Garbage} \/ d.plan[key].n >= 0

(******************************** Properties *******************************)

(* The series of the index and the bands end in the values computed alone,    *)
(* each of their values is what the closes up to there have, the index stays  *)
(* between 0 and 100, and falling is to it what rising is, mirrored.          *)
IndicatorsAgree ==
    Drawn("closes") =>
        LET s == shown.closes
            n == shown.period
            rsi == ComputeRSISeries(s, n)
            bands == ComputeBollingerSeries(s, n)
            mirror == [i \in DOMAIN s |-> 10 - s[i]]
            Prefix(i) == SubSeq(s, 1, i)
        IN /\ (rsi = <<>>) = (ComputeRSI(s, n) = Nothing) /\ (bands = <<>>) = (ComputeBollinger(s, n) = Nothing)
           /\ \A i \in DOMAIN rsi : rsi[i] = Either(ComputeRSI(Prefix(i), n), Garbage) /\ (rsi[i] # Garbage => rsi[i] \in 0..(100 * One))
           /\ \A i \in DOMAIN bands : bands[i] = Either(ComputeBollinger(Prefix(i), n), Garbage)
           /\ rsi # <<>> /\ (\E i \in 2..Len(s) : s[i] # s[i - 1]) /\ Averages(s, n)[Len(s) - n] # [gain |-> 0, loss |-> 0] =>
                 100 * One - (ComputeRSI(s, n) + ComputeRSI(mirror, n)) \in {0, 1}

(* Every candle that is shown of a coin, or of a stock by days, has its       *)
(* indicators: enough candles before the window are asked for, whatever the   *)
(* day and the hour, over weekends and with a candle missing.                 *)
IndicatorsCoverChart ==
    Drawn("insight") /\ MarketAlpha(shown) /\ shown.class # Nothing /\ (shown.class = "stock" => Interval(shown) = "1d") =>
        LET candles == DisplayCandles(shown)
            rsi == DisplayRsi(shown)
            bands == DisplayBands(shown)
        IN /\ Len(candles) > 1 /\ Len(rsi) = Len(candles) /\ Len(bands) = Len(candles)
           /\ \A i \in DOMAIN candles : Garbage \notin {rsi[i], bands[i]}

(* The numbers under the chart are those its lines end in, as long as the     *)
(* server has no candle from after the page was opened.                       *)
SeriesEndsInQuote ==
    Drawn("insight") /\ MarketAlpha(shown) /\ shown.ahead = 0 =>
        LET LastOf(s) == IF s = <<>> THEN {} ELSE {s[Len(s)]} \ {Garbage}
            Quoted(items, rsi, bands, candles) ==
                LET Quote(id) == {items[i].value : i \in {i \in DOMAIN items : items[i].id = id}}
                IN items # <<>> =>
                     /\ Quote("rsi") = LastOf(rsi)
                     /\ Quote("bollinger-upper") = LastOf(bands) /\ Quote("bollinger-lower") = Quote("bollinger-upper")
                     /\ Quote("last-close") = {candles[Len(candles)].close}
            Page(page) == page.state = "insight" => Quoted(page.shelf, DisplayRsi(shown), DisplayBands(shown), FullCandles(shown))
        IN Page(DetailPage(shown))

(* A value of the index stands under its candle, and a date under the candle  *)
(* it is the date of, though three drawings place them.                       *)
IndicatorUnderCandles ==
    Drawn("insight") =>
        LET Aligned(points, labels, price) ==
                /\ \A run \in points : \A j \in DOMAIN run : run[j].x = CandleX(run[j].at, price) /\ run[j].y \in 8..56
                /\ \A label \in labels : label.x = CandleX(label.at, price) /\ label.at \in TimeLabels(price)
        IN Aligned(IF DetailPage(shown).state = "insight" THEN LineDrawn(RsiChart(shown)).points ELSE {},
                   ChartXAxis(shown), PriceChart(shown))

(* The price that a trigger is quoted with is a line of the chart, in the     *)
(* colour of the quote when the plan has that price; a trailing stop that is  *)
(* computed lies below its activation. Holds for parameters that came as      *)
(* numbers, the percentage as a fraction.                                     *)
TriggerLineIsQuoted ==
    Drawn("insight") /\ ~MarketAlpha(shown) /\ shown.plan # Nothing /\ shown.threshold.id \in {"stop_loss", "layer", "trailing_stop"} =>
        LET items == IndicatorItems(shown)
            lines == IndicatorLines(shown)
        IN /\ Len(items) = 1
           /\ items[1].value # Nothing /\ items[1].value[1] = "money" =>
                 \E i \in DOMAIN lines : lines[i].value = items[1].value[2]
           /\ Len(lines) = 2 /\ shown.threshold.id = "trailing_stop" /\ shown.plan.initial_trailing_stop_price = Nothing =>
                 lines[2].value <= lines[1].value
           /\ items[1].value = Nothing /\ shown.threshold.id = "layer" =>
                 LET v == LayerPrice(shown.plan, shown.threshold.n) IN lines # <<>> => v \notin {Nothing, Garbage} /\ v.text

(* A card leads where its button says: to a record of the trade exactly when  *)
(* it says executed, and to the brief of an asset only when there is one. The *)
(* page of the insight and the brief of its asset lead to the record for the  *)
(* same insights, the rail of the card has the colour of its badge, and no    *)
(* word of the tab is a key of the dictionary.                                *)
CardLeadsAsLabelled ==
    Drawn("tab") /\ InsightsTab(shown).state = "open" =>
        LET queue == InsightsTab(shown).queue
            found == Found(Either(InsightsQuery(shown), <<>>), shown.search)
        IN /\ \A i \in DOMAIN queue.cards :
                 LET card == queue.cards[i] item == found[i]
                 IN /\ (card.button = "executed") = (card.opens = "quick-update")
                    /\ card.opens = "asset-brief" => item.asset_key # Nothing
                    /\ (card.opens = "quick-update") = (OpenRelated(item)[1] = "quick-update")
                    /\ (card.opens = "quick-update") = ~MarketAlpha(item)
                    /\ card.rail = (IF card.tone = "neutral" THEN "border" ELSE ToneColor(card.tone))
                    /\ ~Untranslated(card.label) /\ ~Untranslated(card.severity)
           /\ InsightsTab(shown).regime.state = "regime" => \A text \in InsightsTab(shown).regime.labels : ~Untranslated(text)
           /\ \A i \in DOMAIN InsightsTab(shown).featured :
                 ~Untranslated(InsightsTab(shown).featured[i].bias) /\ ~Untranslated(InsightsTab(shown).featured[i].signal)

(* What is drawn lies on its canvas and says what the words beside it say:    *)
(* candles, lines, labels, dials and rings, the indicators of an insight and  *)
(* the line of its trigger.                                                   *)
ChartsAreTrue ==
    /\ DrawnInPlot /\ LabelsInPlot /\ PiecesAreRuns
    /\ NeedleFitsDial /\ RadarFitsCanvas /\ RingCloses
    /\ IndicatorsAgree /\ IndicatorsCoverChart /\ SeriesEndsInQuote
    /\ IndicatorUnderCandles /\ TriggerLineIsQuoted

(* Screens that show one number or one state of it show it alike: amounts,    *)
(* badges, tiers, legends, labels, holdings, quotes, and where a card leads.  *)
ScreensAgree ==
    /\ AmountsReadBack /\ BadgeAgreesWithGauge /\ TiersAgree
    /\ DotAgreesWithDiagnose /\ LegendsAgree /\ LabelsAreWords
    /\ LocaleSurvives /\ BorrowedBadges /\ HoldingsInOrder
    /\ NoFalseEmpty /\ LinesAreQuoted /\ CardLeadsAsLabelled
=============================================================================
