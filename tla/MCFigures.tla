------------------------------- MODULE MCFigures -------------------------------
(* The data the figures are drawn from in the model checker's runs.           *)
EXTENDS StrategyPlan, InsightScreens, ReviewFigures

(***************************** Strategy plans *****************************)

Layers == [target_price : {Nothing, 0, 120}, sell_percentage : {Nothing, 25}, sell_pct : {Garbage, 50}, expected_profit_usd : {Nothing, 7}]
Layer(price) == [target_price |-> price, sell_pct |-> 20]
Order(n, price, amount) == [order_number |-> n, trigger_price |-> price, order_amount_usd |-> amount]
Addition(n, pct, amount) == [addition_number |-> n, trigger_profit_pct |-> pct, addition_amount_usd |-> amount]

Params == [
    S01 |-> [stop_loss_price : {Nothing, Garbage, 80}, stop_loss_pct : {Nothing, 8, 800}, support_level : {Nothing, 85},
             confidence : {Nothing, 7}],
    S02 |-> [safety_orders : {Nothing, <<Order(2, 70, Garbage), Order(1, 90, 40)>>, <<Order(Nothing, 0, 40), Order(Garbage, 0, 0)>>,
                              [i \in 1..6 |-> Order(i, 100 - 9 * i, 10 * i)]},
             price_step_pct : {Nothing, 5, 20}, max_safety_orders : {Nothing, 0, 3, 6},
             safety_order_base_usd : {Nothing, 40}, order_multiplier : {Nothing, 2}],
    S03 |-> [activation_price : {Nothing, 200}, trailing_stop_pct : {Nothing, Garbage, 15, 1500}, callback_rate : {Nothing, 30},
             initial_trailing_stop_price : {Nothing, 180}],
    S04 |-> [layers : {<<>>} \cup [1..1 -> Layers] \cup {<<a, Layer(130)>> : a \in Layers} \cup {[i \in 1..5 |-> Layer(100 + 10 * i)]}],
    S09 |-> [additions : {Nothing, <<Addition(2, 20, 0), Addition(1, Nothing, 40)>>, <<Addition(Nothing, 500, 40)>>},
             profit_step_pct : {Nothing, 10, 40}, max_additions : {Nothing, 0, 1, 3, 6}, base_addition_usd : {Nothing, 1000}],
    S16 |-> [trigger_funding_rate : {Nothing, 3}, trigger_basis_pct_max : {Nothing, Garbage, 200}, funding_rate_8h : {Nothing, 1},
             basis_pct : {Nothing, 4}, hedge_notional_usd : {Nothing, 900}, futures_symbol : {Nothing, "PERP"},
             mark_price : {101}, spot_price : {100}, note : {Nothing, 1}],
    S18 |-> [trend_state : {Nothing, "up"}, trend_strength : {Nothing, "strong"}, trend_action : {Nothing, "hold"},
             current_price : {Nothing, 104}, ma_20 : {Nothing, 101}, ma_50 : {Nothing, Garbage}, ma_200 : {Nothing, 90}],
    S22 |-> [target_weights : {Nothing, <<40, 60>>, <<10, Garbage, 20, 30, 35>>}, rebalance_threshold_pct : {Nothing, 500},
             rebalance_frequency : {Nothing, "weekly", "yearly"}, vol_floor : {Nothing, 10}],
    S99 |-> [amount : {Nothing, 10}]]

Dates == {[m |-> m, d |-> d] : m \in 0..13, d \in 1..31}
Calendars == [amount : {50}, frequency : {"daily", "weekly", "biweekly", "monthly"}, next_execution_at : {x \in Dates : x.d <= MonthLength(x.m)}]
             \cup [amount : {Nothing, 50}, frequency : {Nothing, "hourly", "weekly"}, next_execution_at : {Nothing, Garbage, [m |-> 0, d |-> 31]}]

Plan(plan, p, asset, series, texts) ==
    [kind |-> "plan", plan |-> plan, p |-> p, asset |-> asset, series |-> series, texts |-> texts, loaded |-> TRUE]

Plans ==
    UNION {{Plan(s, p, c[1], c[2], texts) : p \in Params[s], texts \in {0, 2},
            c \in {<<"crypto", <<90, Garbage, 100>>>>, <<"stock", <<100>>>>, <<"portfolio", <<>>>>}} : s \in DOMAIN Params}
    \cup {Plan("S05", p, "crypto", <<90, 100>>, 1) : p \in Calendars}

(********************************* Charts *********************************)

Candle(o, h, l, c) == [open |-> o, high |-> h, low |-> l, close |-> c]
Upto(n, S) == UNION {[1..k -> S] : k \in 0..n}
Candles == {<<Candle(40, 60, 30, 55), Candle(55, 58, 20, 20), Candle(20, 80, 20, 70)>>, <<Candle(50, 50, 50, 50), Candle(50, 50, 50, 50)>>,
            <<Candle(10, 20, 5, 15)>>}
Chart(candles, lines, series, width, height, side) ==
    [kind |-> "candles", candles |-> candles, lines |-> lines, series |-> series, width |-> width, height |-> height,
     side |-> side, xAxis |-> side = "left", yAxis |-> TRUE, padding |-> Nothing]
CandleCharts ==
    {Chart(c, lines, <<>>, 320, h, "left") : c \in Candles, lines \in Upto(4, {0, 45, 97, 100}), h \in {170}}
    \cup {Chart(c, <<60>>, <<s, <<30>>>>, w, 150, "right") : c \in Candles, s \in Upto(4, {Garbage, 10, 90}), w \in {0, 300}}

Gauges == {[kind |-> "gauge", size |-> s, value |-> v, locked |-> l] : s \in {140, 150, 160, 180}, l \in BOOLEAN,
           v \in {Nothing, Garbage, -10, 0, 300, 495, 499, 500, 699, 700, 895, 899, 900, 1000, 1200}}

Radar(size, labels, widths, values, divisions) ==
    [kind |-> "radar", size |-> size, labels |-> labels, widths |-> widths, values |-> values, divisions |-> divisions]
Radars == {Radar(s, l, w, <<500, 100, 999, 1000>>, 5) : s \in {160, 220, 280}, l \in BOOLEAN, w \in [1..4 -> {10, 70, 160}]}
          \cup {Radar(220, TRUE, <<60, 80, 40, 70>>, v, n) : v \in [1..4 -> {Garbage, -50, 450, 1300}], n \in {1, 5}}

Rings == {[kind |-> "ring", parts |-> p] : p \in Upto(3, {Garbage, -3, 0, 5, 40})}

(******************************* Readouts *********************************)

Amounts == [kind : {"amount"}, unit : {"USD", "USDT", Nothing},
            value : {v * sign : sign \in {1, -1},
                     v \in {0, 7, 999, 1000, 4995, 99999, 100000, 999949, 999950, 999994, 999995, 1000000, 999949999, 999950000,
                            999999999, 1000000000, 2000000000}}]

AReport ==
    [kind |-> "report", query |-> "done", isPaidReport |-> TRUE, paid |-> TRUE, language |-> "ja", missing |-> FALSE,
     net_worth |-> 1500, base |-> "USD", header |-> 800, fixed |-> 800, status |-> Nothing, headerVolatility |-> 300,
     fixedVolatility |-> 300, preview |-> Nothing, parts |-> <<>>, risk_insights |-> <<>>, exposure_analysis |-> <<>>,
     identified_risks |-> <<>>, plans |-> <<>>, radar |-> <<500, Nothing, 0, 1000>>, daily_alpha |-> Nothing, notifying |-> FALSE, reports |-> {},
     locked_projection |-> TRUE]
Scores == {Nothing, 0, 499, 500, 650, 700, 899, 900, 1000}
Part(label, value) == [label |-> label, weight |-> 2500, value_usd |-> value, value_display |-> Nothing, display_currency |-> Nothing]
Risk(id, severity) == [risk_id |-> id, type |-> "drawdown_risk", severity |-> severity]
Linked(priority, risk) == [plan_id |-> "p", strategy_id |-> "S01", priority |-> priority, linked_risk_id |-> risk, execution_summary |-> Nothing]
RiskLists == {<<>>, <<Risk(1, "high")>>, <<Risk(2, "low"), Risk(1, "critical")>>, <<Risk(1, Nothing)>>}
Reports ==
    {[AReport EXCEPT !.header = h, !.fixed = f, !.status = s, !.paid = p, !.preview = 750] :
        h \in Scores, f \in Scores, s \in {Nothing, "stable"}, p \in BOOLEAN}
    \cup {[AReport EXCEPT !.headerVolatility = h, !.fixedVolatility = f] :
        h \in {Nothing, 0, 349, 350, 399, 400, 699, 700, 1200}, f \in {Nothing, 0, 349, 350, 399, 400, 699, 700, 1200}}
    \cup {[AReport EXCEPT !.parts = p, !.base = b] : b \in {Nothing, "USDT"},
            p \in Upto(2, {Part(l, v) : l \in {"crypto", "stock", "cash", "manual", "fund"}, v \in {-5, 0, 40, 120000}})}
    \cup {[AReport EXCEPT !.risk_insights = r, !.exposure_analysis = e, !.plans = p] : r \in RiskLists, e \in RiskLists,
            p \in [1..2 -> {Linked(q, i) : q \in {Nothing, "medium"}, i \in {Nothing, 1, 2}}]}
    \cup {[AReport EXCEPT !.query = q, !.isPaidReport = i, !.paid = p, !.daily_alpha = "high", !.identified_risks = <<Risk(1, "odd")>>] :
            q \in {"loading", "error", "done"}, i \in BOOLEAN, p \in BOOLEAN}

ReportRow == [is_active : BOOLEAN, tier : {"preview", "paid"}, status : {"ready", "processing", "failed"}]
ReportRows ==
    {d \in [kind : {"reports"}, paid : BOOLEAN, reports : {R \in SUBSET ReportRow : Cardinality(R) <= 3}] : RowData(d)}

Words == {[kind |-> "word", family |-> x[1], w |-> x[2], language |-> l, missing |-> m] : l \in Locales, m \in BOOLEAN,
          x \in UNION {{f} \X (Dictionary[f] \cup {"odd"}) : f \in DOMAIN Dictionary}
               \cup {<<"strategyName", Nothing>>, <<"severity", Nothing>>, <<"status", "queued">>}}
Languages == [kind : {"locale"}, stored : Locales \cup {Nothing},
              device : [first : {"en", "zh", "ja", "ko", "fr"}, marks : SUBSET {"hant", "tw", "hk", "cn"}]]

Holding(value, symbol, name, type, mic) ==
    [value |-> value, symbol |-> symbol, name |-> name, asset_type |-> type, mic |-> mic, avg_price |-> 12, quote |-> Nothing,
     value_quote |-> Nothing, bias |-> "hold"]
Symbols == [market : {"hk"}, zeros : 0..2, code : {700}] \cup [market : {"other"}, zeros : {0}, code : {700}]
HoldingLists == {[kind |-> "holdings", holdings |-> h, paid |-> p] : p \in BOOLEAN,
                 h \in Upto(2, {Holding(v, s, n, "stock", "XHKG") : v \in {0, 30, 70}, s \in Symbols, n \in {Nothing, "Tencent"}})
                       \cup [1..3 -> {Holding(v, [market |-> "other", zeros |-> 0, code |-> 1], Nothing, "stock", "XNAS") : v \in 0..4}]}

BriefQueries ==
    {q \in [kind : {"brief"}, hasAssetKey : BOOLEAN, authLoading : BOOLEAN, hasAccessToken : BOOLEAN, isFetching : BOOLEAN,
            isPending : BOOLEAN, isFetched : BOOLEAN, resp : {Nothing, 200, 401, 404, 500}] : BriefData(q)}
Assets ==
    {[kind |-> "asset", unit |-> "USD", current_price |-> 100, entry_zone |-> [low |-> 90, high |-> 95], invalidation |-> 85,
      changes |-> <<-300, 0, 4>>, is_held |-> TRUE, weight |-> 1000, risk_flag |-> w, action_bias |-> w, signal |-> w, basis |-> w, reason |-> w,
      trend |-> w, strength |-> w, role |-> w, impact |-> w, language |-> "ko", missing |-> FALSE, candles |-> n,
      levels |-> [v \in {"ma20", "ma50", "ma200", "bb-upper", "bb-lower"} |-> 97],
      plans |-> <<[strategy_id |-> w, plan_id |-> "p", priority |-> p]>>, insights |-> <<[id |-> 1, type |-> t, severity |-> p]>>] :
        n \in {0, 1, 2}, w \in {"odd"} \cup Dictionary.riskFlag \cup Dictionary.trendState, p \in Tones \cup {Nothing, "odd"},
        t \in Dictionary.type}
Regimes ==
    {[kind |-> "regime", resp |-> q, regime |-> w, strength |-> "weak", drivers |-> {v}, impact |-> {x}, actions |-> {"odd"},
      leaders |-> <<500, -20>>, laggards |-> <<-500>>, language |-> "en", missing |-> FALSE] :
        q \in {Nothing, 200, 404, 500}, w \in Dictionary.regime \cup {"odd"}, v \in Dictionary.driver \cup {"odd"}, x \in Dictionary.semantic}

ReadoutData == Amounts \cup Reports \cup ReportRows \cup Words \cup Languages \cup HoldingLists \cup BriefQueries \cup Assets \cup Regimes

(******************************* Insights *********************************)

Insight ==
    [kind |-> "insight", type |-> "market_alpha", class |-> "crypto", timeframe |-> Nothing, now |-> 2500, ahead |-> 0, bad |-> Nothing,
     width |-> 320, plan |-> Nothing, threshold |-> [id |-> "other", n |-> 0], reason |-> "reason", loaded |-> TRUE]
Frames == {<<"crypto", "4h">>, <<"crypto", "1d">>, <<"stock", "1d">>, <<"stock", "4h">>, <<"crypto", Nothing>>, <<"stock", Nothing>>, <<Nothing, Nothing>>}
Num3 == {Nothing, Garbage, [n |-> 80, text |-> FALSE], [n |-> 85, text |-> TRUE]}
Fraction == {Nothing, [n |-> 8, text |-> FALSE], [n |-> 100, text |-> FALSE]}
Thresholds == {<<"stop_loss", [Bare EXCEPT !.stop_loss_price = a, !.support_level = b, !.stop_loss_pct = c]>> : a \in Num3, b \in Num3, c \in Fraction}
    \cup {<<"layer", [Bare EXCEPT !.layers = l]>> : l \in Upto(2, {Garbage, [n |-> 80, text |-> FALSE], [n |-> 90, text |-> TRUE]})}
    \cup {<<"trailing_stop", [Bare EXCEPT !.trailing_stop_pct = a, !.callback_rate = b, !.activation_price = c, !.initial_trailing_stop_price = e]>> :
            a \in Fraction, b \in Fraction, c \in Num3, e \in Num3}
    \cup {<<t, [Bare EXCEPT !.amount = a, !.trigger_funding_rate = a, !.trigger_basis_pct_max = b, !.rebalance_threshold_pct = b]>> :
            t \in {"safety", "execution", "addition", "funding", "trend", "rebalance", "other"}, a \in Num3, b \in Fraction}
Insights ==
    {[Insight EXCEPT !.class = f[1], !.timeframe = f[2], !.now = n, !.ahead = x[1], !.bad = x[2]] :
        f \in Frames, n \in {24 * day + hour : day \in 104..110, hour \in {0, 23}}, x \in {<<0, Nothing>>, <<6, Nothing>>, <<0, 7>>}}
    \cup {[Insight EXCEPT !.width = w, !.loaded = l, !.type = t] : w \in {0, 60, 300}, l \in BOOLEAN, t \in Dictionary.type}
    \cup {[Insight EXCEPT !.type = "action_alert", !.threshold = [id |-> t[1], n |-> n], !.plan = p] :
            n \in 0..3, t \in Thresholds, p \in {Nothing}}
    \cup {[Insight EXCEPT !.type = "action_alert", !.threshold = [id |-> t[1], n |-> n], !.plan = t[2]] : n \in {0, 1, 2}, t \in Thresholds}
CloseLists == {[kind |-> "closes", period |-> n, closes |-> c] : n \in {2, 3}, c \in Upto(5, {1, 2, 4, 9})}

Item(type, key, severity, asset, words) ==
    [id |-> 1, type |-> type, asset_key |-> key, severity |-> severity, asset |-> asset, words |-> words]
Tabs0 == [kind |-> "tab", paid |-> TRUE, resp |-> 200, regimeResp |-> 200, regime |-> "neutral", strength |-> "weak", drivers |-> <<>>,
          actions |-> <<"odd", "high_beta", "odd">>, featured |-> <<>>,
          search |-> Nothing, items |-> <<>>, language |-> "en", missing |-> FALSE]
InsightTabs ==
    {[Tabs0 EXCEPT !.items = <<Item(t, k, s, a, {"w"}), Item("action_alert", Nothing, "low", "BTC", {"v"})>>, !.search = q] :
        t \in Dictionary.type \cup {"odd"}, k \in {Nothing, "key"}, s \in Tones \cup {Nothing, "odd"}, a \in {Nothing, "PORTFOLIO", "BTC"},
        q \in {Nothing, "v", "w", "x"}}
    \cup {[Tabs0 EXCEPT !.paid = p, !.resp = r, !.regimeResp = g] : p \in BOOLEAN, r \in {Nothing, 200, 401, 500}, g \in {Nothing, 200, 404}}
    \cup {[Tabs0 EXCEPT !.regime = w, !.drivers = v, !.featured = <<[bias |-> b, signal |-> "odd", words |-> {"w"}]>>] :
            w \in Dictionary.regime \cup {"odd"}, v \in {<<>>, <<"volatility">>, <<"odd", "volatility">>}, b \in Dictionary.actionBias \cup {"odd"}}

InsightData == Insights \cup CloseLists \cup InsightTabs

(******************************** Reviews *********************************)

Asset == [price |-> 10, amount |-> 4, removed |-> FALSE, text |-> Nothing, cost |-> Nothing, manual |-> Nothing, avg |-> Nothing,
          type |-> "crypto", stable |-> FALSE, symbol |-> [market |-> "other", zeros |-> 0, code |-> 1], name |-> Nothing, mic |-> Nothing]
Review == [kind |-> "review", status |-> "needs_review", error |-> Nothing, rate |-> 1, fx |-> 1, assets |-> <<>>]

\* A value is typed for an asset without a price only: the others have no field for it.
TypedAssets ==
    {[Asset EXCEPT !.price = p, !.amount = n, !.text = x, !.removed = r] :
        p \in {10, 1000}, n \in {1, 4}, x \in {Nothing, Garbage, 0, 4, 9}, r \in BOOLEAN}
    \cup {[Asset EXCEPT !.price = Nothing, !.manual = v, !.text = x] : v \in {Nothing, Garbage, 0, 1, 700}, x \in {Nothing, 9}}
CostAssets == {[Asset EXCEPT !.cost = c, !.avg = a] : c \in {Nothing, Garbage, -1, 0, 6}, a \in {Nothing, 0, 8}}
TopAssets == {[Asset EXCEPT !.price = p, !.avg = a, !.stable = s] : p \in {1, 10, 30}, a \in {Nothing, 8}, s \in BOOLEAN}
NamedAssets == {[Asset EXCEPT !.type = t, !.name = n, !.mic = m, !.symbol = [market |-> k, zeros |-> z, code |-> 700]] :
                    t \in {"stock", "crypto", Nothing}, n \in {Nothing, "Tencent"}, m \in {Nothing, "XHKG", "XNAS"}, k \in {"hk", "other"}, z \in 0..1}
Reviews ==
    {[Review EXCEPT !.assets = s, !.rate = x[1], !.fx = x[2]] : s \in Upto(2, TypedAssets), x \in {<<1, Nothing>>, <<2, 2>>}}
    \cup {[Review EXCEPT !.assets = s, !.rate = 2, !.fx = 2] : s \in Upto(2, CostAssets)}
    \cup {[Review EXCEPT !.assets = s] : s \in [1..4 -> {a \in TopAssets : a.stable => a.avg = Nothing}] \cup [1..1 -> NamedAssets]}
    \cup {[Review EXCEPT !.status = s, !.error = e] : s \in {Nothing, "failed", "processing", "completed"}, e \in {Nothing, "INVALID_IMAGE"}}

FigureData == Plans \cup CandleCharts \cup Gauges \cup Radars \cup Rings \cup ReadoutData \cup InsightData \cup Reviews

(* What the theorems about the figures assume of the data, in                 *)
(* ClientPortfolio_proofs, is so for all the data that are drawn here.        *)
ASSUME FigureAssumption ==
    /\ \A d \in Plans : PlanData(d)
    /\ \A d \in Reviews : ReviewData(d)
    /\ \A d \in CandleCharts :
          /\ ShowChart(d) => CandleData(d, 5000)
          /\ LabelData(d)
          /\ \A i \in DOMAIN d.series : d.series[i] \in Seq(Int \cup {Garbage})
    /\ \A d \in Gauges : GaugeData(d)
    /\ \A d \in Radars : RadarData(d)
    /\ \A d \in Rings : RingData(d)
    /\ \A d \in Amounts : AmountData(d)
    /\ \A d \in Reports : ReportData(d)
    /\ \A d \in Insights : TriggerData(d)
    /\ \A d \in CloseLists : CloseData(d)
=============================================================================
