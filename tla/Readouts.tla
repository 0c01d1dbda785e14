-------------------------------- MODULE Readouts -------------------------------
(* What the screens read out of a report, a portfolio and a brief: amounts,   *)
(* badges, legends, labels, and what a screen shows before it has anything.   *)
(* Scores and volatilities count in tenths, amounts in whole units of money.  *)
EXTENDS Charts

Abs(v) == IF v < 0 THEN -v ELSE v

(********************************* Amounts *********************************)

(* A text of an amount: its number, as digits with so many decimal places,    *)
(* and the order in which the number, the unit and the suffix are written.    *)
Per(suffix) == IF suffix = "K" THEN 1000 ELSE IF suffix = "M" THEN 1000000 ELSE IF suffix = "B" THEN 1000000000 ELSE 1
Power(places) == IF places = 2 THEN 100 ELSE IF places = 1 THEN 10 ELSE 1
DigitStep(suffix, places) == Per(suffix) \div Power(places)
Digits(v, step) == LET n == (Abs(v) + step \div 2) \div step IN IF v < 0 THEN -n ELSE n

NormalizeMoneyUnit(unit) == IF unit = Nothing THEN "USD" ELSE unit
SupportsIntl(unit) == unit # "USDT"     \* stablecoins are no currency to Intl

FormatUnit(number, unit) == [number EXCEPT !.parts = <<"#", unit>>]
MoneyAmount(number, unit) == IF SupportsIntl(unit) THEN [number EXCEPT !.parts = <<unit, "#">>] ELSE FormatUnit(number, unit)

Number(v, suffix, places) == [digits |-> Digits(v, DigitStep(suffix, places)), places |-> places, parts |-> <<"#">>]

Currency(v, unit) == MoneyAmount(Number(v, "units", 0), NormalizeMoneyUnit(unit))

\* From a hundred thousand on Intl shortens an amount, to the suffix it rounds to.
CompactCurrency(v, unit) ==
    LET u == NormalizeMoneyUnit(unit)
        suffix == IF Abs(v) < 999950 THEN "K" ELSE IF Abs(v) < 999950000 THEN "M" ELSE "B"
    IN IF Abs(v) < 100000 THEN Currency(v, unit)
       ELSE [Number(v, suffix, 1) EXCEPT !.parts = IF SupportsIntl(u) THEN <<u, "#", suffix>> ELSE <<"#", suffix, u>>]

Suffix(v) == IF Abs(v) >= 1000000000 THEN "B" ELSE IF Abs(v) >= 1000000 THEN "M" ELSE "K"

\* Mutated form: the suffix is written last, after any unit.
PortfolioTotalTail(v, unit) ==
    LET text == MoneyAmount(Number(v, Suffix(v), 2), NormalizeMoneyUnit(unit))
    IN IF Abs(v) < 1000 THEN Currency(v, unit) ELSE [text EXCEPT !.parts = Append(@, Suffix(v))]

(* The total is shortened by the app: a suffix goes before a unit that Intl   *)
(* does not know.                                                             *)
PortfolioTotal(v, unit) ==
    LET u == NormalizeMoneyUnit(unit)
        text == MoneyAmount(Number(v, Suffix(v), 2), u)
    IN IF Abs(v) < 1000 THEN Currency(v, unit)
       ELSE [text EXCEPT !.parts = IF SupportsIntl(u) THEN Append(@, Suffix(v)) ELSE <<"#", Suffix(v), u>>]

FormatPercent(v, places) == [digits |-> Digits(v, IF places = 0 THEN 100 ELSE 10), places |-> places]  \* v in 1/10000
SignedPercent(v) == [plus |-> v > 0, text |-> FormatPercent(v, 1)]

(***************************** Tones and colours ***************************)

Tones == {"critical", "high", "medium", "low"}
ToneForSeverity(w) == IF w \in Tones THEN w ELSE "neutral"
ToneForHealthStatus(w) ==
    CASE w = "critical" -> "critical" [] w = "warning" -> "high" [] w = "stable" -> "medium" [] w = "excellent" -> "low" [] OTHER -> "neutral"
ToneForRegime(w) == IF w = "risk_on" THEN "low" ELSE IF w = "risk_off" THEN "high" ELSE "medium"
ToneForActionBias(w) == CASE w = "accumulate" -> "low" [] w = "hold" -> "medium" [] w = "reduce" -> "high" [] OTHER -> "neutral"
ToneForRiskFlag(w) == CASE w = "high_concentration" -> "critical" [] w = "high_beta" -> "high" [] w = "balanced" -> "low" [] OTHER -> "neutral"
ToneColor(tone) ==
    CASE tone = "critical" -> "danger" [] tone = "high" -> "warning" [] tone = "medium" -> "accent" [] tone = "low" -> "success" [] OTHER -> "muted"

\* Mutated form: a score on a boundary belongs to the status below.
HealthStatusFromScoreBelow(score) ==
    IF score = Nothing THEN Nothing
    ELSE IF score <= 500 THEN "critical" ELSE IF score <= 700 THEN "warning" ELSE IF score <= 900 THEN "stable" ELSE "excellent"

HealthStatusFromScore(score) ==
    IF score = Nothing THEN Nothing
    ELSE IF score < 500 THEN "critical" ELSE IF score < 700 THEN "warning" ELSE IF score < 900 THEN "stable" ELSE "excellent"

\* Mutated form: what was entered by hand has the colour of all other assets.
AllocationColorOther(w) == CASE w = "crypto" -> "accent" [] w = "stock" -> "warning" [] w = "cash" -> "success" [] OTHER -> "border"

AllocationColor(w) ==
    CASE w = "crypto" -> "accent" [] w = "stock" -> "warning" [] w = "cash" -> "success" [] w = "manual" -> "muted" [] OTHER -> "border"

(********************************** Words **********************************)

(* The words of the dictionary a screen looks up by a word of the server.     *)
Dictionary == [
    severity |-> Tones \cup {"unknown"},
    healthStatus |-> {"critical", "warning", "stable", "excellent", "unknown"},
    allocation |-> {"crypto", "stock", "cash", "manual", "other"},
    riskType |-> {"liquidity_risk", "concentration_risk", "drawdown_risk", "correlation_risk", "inefficient_capital_risk", "volatility_risk"},
    strategyName |-> {"S01", "S02", "S03", "S04", "S05", "S09", "S16", "S18", "S22", "unknown"},
    tier |-> {"preview", "paid", "unknown"}, status |-> {"ready", "processing", "failed", "unknown"},
    type |-> {"portfolio_watch", "market_alpha", "action_alert"},
    regime |-> {"risk_on", "neutral", "risk_off"}, trendStrength |-> {"strong", "medium", "weak"},
    trendState |-> {"strong_up", "up", "neutral", "down", "strong_down"}, actionBias |-> {"accumulate", "wait", "hold", "reduce"},
    summarySignal |-> {"downtrend_risk", "trend_up_pullback", "overextended_uptrend", "neutral_range"},
    driver |-> {"trend_breadth", "alpha_30d", "volatility", "concentration", "cash_buffer", "correlation"},
    driverValue |-> {"trend_breadth", "alpha_30d", "volatility", "concentration", "cash_buffer", "correlation"},
    semantic |-> {"high_concentration", "correlated_book", "healthy_cash_buffer", "mixed_trend", "high_beta", "buy_pullbacks",
                  "reduce_concentration", "keep_cash_ready", "avoid_chasing", "review_defense", "near_entry_zone", "above_ma20_ma50",
                  "below_ma50", "rsi_oversold", "rsi_hot", "portfolio_overweight", "portfolio_underweight"},
    role |-> {"watchlist", "core", "satellite", "tactical"}, concentration |-> {"limited", "moderate", "high"},
    riskFlag |-> {"watchlist_only", "high_concentration", "high_beta", "balanced"},
    entryBasis |-> {"support_only", "support_and_ma20"}, invalidation |-> {"break_below_support"}]

\* What is not there is no word.
ASSUME WordAssumption == \A family \in DOMAIN Dictionary : Nothing \notin Dictionary[family]

\* A key: the text of the user's language, of English, or the key itself.
Translate(family, w, d) ==
    IF w \notin Dictionary[family] THEN [key |-> <<family, w>>]
    ELSE [text |-> <<family, w>>, language |-> IF d.missing THEN "en" ELSE d.language]
Untranslated(text) == "key" \in DOMAIN text

\* Mutated form: whatever is looked up is shown.
ResolveTextKey(family, w, d) == Translate(family, w, d)

ResolveText(family, w, d) == LET text == Translate(family, w, d) IN IF Untranslated(text) THEN [word |-> w] ELSE text

StrategyDisplayName(w, d) ==
    IF w = Nothing \/ Untranslated(Translate("strategyName", w, d)) THEN Translate("strategyName", "unknown", d)
    ELSE Translate("strategyName", w, d)
SeverityLabel(w, d) == ResolveText("severity", Either(w, "unknown"), d)
BriefSeverityLabel(w, d) == IF w = Nothing THEN Translate("severity", "unknown", d) ELSE ResolveText("severity", w, d)
RiskTypeLabel(w, d) == ResolveText("riskType", w, d)
Switched(family, w, other, d) == Translate(family, IF w \in Dictionary[family] THEN w ELSE other, d)
HealthStatusLabel(w, d) == Switched("healthStatus", w, "unknown", d)
AllocationLabel(w, d) == Switched("allocation", w, "other", d)
TierLabel(w, d) == Switched("tier", w, "unknown", d)
StatusLabel(w, d) == Switched("status", IF w = "queued" THEN "processing" ELSE w, "unknown", d)
RegimeDriver(w, d) == IF w \in Dictionary.driverValue THEN Translate("driverValue", w, d) ELSE [word |-> w]

Label(family, w, d) ==
    CASE family = "strategyName" -> StrategyDisplayName(w, d)
      [] family = "severity" -> SeverityLabel(w, d)
      [] family = "riskType" -> RiskTypeLabel(w, d)
      [] family = "healthStatus" -> HealthStatusLabel(w, d)
      [] family = "allocation" -> AllocationLabel(w, d)
      [] family = "tier" -> TierLabel(w, d)
      [] family = "status" -> StatusLabel(w, d)
      [] family = "driverValue" -> RegimeDriver(w, d)
      [] OTHER -> ResolveText(family, w, d)

\* A language tag: its first part and the marks found in it.
Locales == {"en", "zh-CN", "zh-TW", "ja", "ko"}
Tag(locale) ==
    CASE locale = "zh-CN" -> [first |-> "zh", marks |-> {"cn"}] [] locale = "zh-TW" -> [first |-> "zh", marks |-> {"tw"}]
      [] OTHER -> [first |-> locale, marks |-> {}]

\* Mutated form: traditional Chinese is recognised by its script alone.
ResolveLocaleScript(tag) ==
    IF tag.first = "zh" THEN IF "hant" \in tag.marks THEN "zh-TW" ELSE "zh-CN"
    ELSE IF tag.first \in Locales THEN tag.first ELSE "en"

ResolveLocale(tag) ==
    IF tag.first = "zh" THEN IF tag.marks \cap {"hant", "tw", "hk"} # {} THEN "zh-TW" ELSE "zh-CN"
    ELSE IF tag.first \in {"ja", "ko", "en"} THEN tag.first ELSE "en"

\* The language at a start: what was stored wins over the language of the device.
Hydrate(device, stored) == IF stored = Nothing THEN ResolveLocale(device) ELSE ResolveLocale(Tag(stored))

(***************************** The health card *****************************)

\* The level of a volatility and the colour of its bar do not change together.
VolatilityLevel(v) == IF v = Nothing THEN Nothing ELSE IF v < 350 THEN "low" ELSE IF v < 700 THEN "medium" ELSE "high"
VolatilityColor(v) == IF v = Nothing THEN "muted" ELSE IF v < 400 THEN "success" ELSE IF v < 700 THEN "warning" ELSE "danger"
GaugeSize(width, percent, low, high) == Clamp((width * percent) \div 100, low, high)

HealthSpotlight(score, status, volatility, locked) ==
    LET shownStatus == Either(status, HealthStatusFromScore(score))
    IN [score |-> score, locked |-> locked, status |-> shownStatus,
        tone |-> ToneForHealthStatus(Either(shownStatus, "")),
        gauge |-> Needle([value |-> score, locked |-> locked]).color,
        level |-> VolatilityLevel(volatility), tone2 |-> ToneForSeverity(Either(VolatilityLevel(volatility), "")),
        bar |-> VolatilityColor(volatility), number |-> volatility,
        filled |-> (Clamp(Either(volatility, 0), 0, 1000) + 5) \div 10]

ReportSpotlight(d) == HealthSpotlight(Either(d.header, d.fixed), d.status, Either(d.headerVolatility, d.fixedVolatility), FALSE)

\* Mutated form: the preview reads the fixed metrics alone.
PreviewSpotlightFixed(d) == HealthSpotlight(d.fixed, d.status, d.fixedVolatility, FALSE)

PreviewSpotlight(d) == HealthSpotlight(Either(d.fixed, d.header), d.status, Either(d.fixedVolatility, d.headerVolatility), FALSE)

\* The archived report looks for the volatility in another field of the fixed metrics, one no server sends.
ArchivedSpotlight(d) == HealthSpotlight(Either(d.header, d.fixed), d.status, d.headerVolatility, FALSE)

\* The tab has the metrics of the portfolio; without a score a free user gets the one of the ready preview.
AssetsSpotlight(d) ==
    LET score == Either(d.fixed, IF d.paid THEN Nothing ELSE d.preview)
    IN HealthSpotlight(score, d.status, d.fixedVolatility, ~d.paid /\ score = Nothing)

(******************************** Allocation *******************************)

ValueOf(part) == Either(part.value_display, part.value_usd)
UnitOf(part, base) == Either(part.display_currency, Either(base, "USD"))
Legend(parts, base, compact, d) ==
    [i \in DOMAIN parts |->
        [color |-> AllocationColor(parts[i].label), label |-> AllocationLabel(parts[i].label, d),
         weight |-> FormatPercent(parts[i].weight, 1),
         amount |-> IF compact THEN CompactCurrency(ValueOf(parts[i]), UnitOf(parts[i], base))
                    ELSE Currency(ValueOf(parts[i]), UnitOf(parts[i], base))]]

ReportAllocation(d) == Legend(d.parts, d.base, TRUE, d)
PreviewAllocation(d) == Legend(d.parts, d.base, FALSE, d)
ArchivedAllocation(d) == Legend(d.parts, d.base, FALSE, d)

\* The ring beside the legend, drawn from the same parts.
AllocationArcs(d) ==
    LET drawn == SelectSeq(d.parts, LAMBDA part : ValueOf(part) > 0)
        arcs == ArcsOfRing([parts |-> [i \in DOMAIN drawn |-> ValueOf(drawn[i])]])
    IN [i \in DOMAIN drawn |-> [color |-> AllocationColor(drawn[i].label), length |-> arcs[i].length]]

(***************************** Risks and plans *****************************)

RisksShown(d) == IF d.risk_insights # <<>> THEN d.risk_insights ELSE d.exposure_analysis
RiskCards(risks, d) ==
    [i \in DOMAIN risks |-> [type |-> RiskTypeLabel(risks[i].type, d), severity |-> SeverityLabel(risks[i].severity, d),
                             tone |-> ToneForSeverity(Either(risks[i].severity, ""))]]
PreviewRisks(d) == RiskCards(d.identified_risks, d)

\* Mutated form: only the risks of the new form are searched.
LinkedRiskInsights(plan, d) == {i \in DOMAIN d.risk_insights : d.risk_insights[i].risk_id = plan.linked_risk_id}

LinkedRisk(plan, d) == {i \in DOMAIN RisksShown(d) : RisksShown(d)[i].risk_id = plan.linked_risk_id}

\* The badge of a plan: its priority, or the severity of the first risk it is linked to, in the words of the server.
PlanBadge(plan, d) ==
    IF plan.priority # Nothing THEN plan.priority
    ELSE IF LinkedRisk(plan, d) = {} THEN Nothing ELSE RisksShown(d)[Least(LinkedRisk(plan, d))].severity

PlanCards(d) ==
    [i \in DOMAIN d.plans |->
        LET plan == d.plans[i]
        IN [name |-> StrategyDisplayName(plan.strategy_id, d), badge |-> PlanBadge(plan, d),
            summary |-> plan.execution_summary # Nothing,
            opens |-> [execute |-> plan.strategy_id, view |-> plan.plan_id],
            notify |-> ~d.notifying]]

\* An archived report has the same cards, and nothing to press.
ArchivedPlans(d) ==
    [i \in DOMAIN d.plans |->
        LET plan == d.plans[i]
        IN [name |-> StrategyDisplayName(plan.strategy_id, d), badge |-> PlanBadge(plan, d),
            summary |-> plan.execution_summary # Nothing]]
DailyAlpha(d) == IF d.daily_alpha = Nothing THEN Nothing ELSE [badge |-> d.daily_alpha, tone |-> ToneForSeverity(d.daily_alpha)]

RadarValues(radar) == IF radar = Nothing THEN Nothing ELSE [i \in 1..4 |-> Either(radar[i], 0)]

\* A preview shows the radar and the plan of an example behind a blur.
LockedRadar == <<1000, 540, 450, 760>>
LockedPlan(d) ==
    IF ~d.locked_projection THEN Nothing
    ELSE [badge |-> Translate("severity", "medium", d), price |-> Currency(80449, d.base), percent |-> FormatPercent(960, 1)]

(********************************* Screens *********************************)

NetWorth(d) == PortfolioTotal(Either(d.net_worth, 0), Either(d.base, "USD"))

ReportScreen(d) ==
    IF d.query = "error" THEN [state |-> "error"]
    ELSE IF d.query = "loading" THEN [state |-> "loading"]
    ELSE IF ~d.isPaidReport THEN [state |-> IF d.paid THEN "preparing" ELSE "loading"]
    ELSE [state |-> "report", netWorth |-> NetWorth(d), health |-> ReportSpotlight(d), allocation |-> ReportAllocation(d),
          risks |-> RiskCards(RisksShown(d), d), radar |-> RadarValues(d.radar), plans |-> PlanCards(d)]

\* A preview in an error has no report, and the screen can be left.
PreviewScreen(d) ==
    IF d.query = "loading" THEN [state |-> "loading"]
    ELSE IF d.query = "error" THEN [state |-> "error"]
    ELSE [state |-> "report", netWorth |-> NetWorth(d), health |-> PreviewSpotlight(d), allocation |-> PreviewAllocation(d),
          risks |-> PreviewRisks(d), example |-> <<LockedRadar, LockedPlan(d)>>]

\* A query that fails leaves the archived report loading: there is no state for the error.
ArchivedScreen(d) ==
    IF d.query \in {"loading", "error"} THEN [state |-> "loading"]
    ELSE IF ~d.isPaidReport THEN [state |-> "error"]
    ELSE [state |-> "report", netWorth |-> NetWorth(d), health |-> ArchivedSpotlight(d), allocation |-> ArchivedAllocation(d),
          risks |-> RiskCards(RisksShown(d), d), radar |-> RadarValues(d.radar), plans |-> ArchivedPlans(d), alpha |-> DailyAlpha(d)]

(********************************* Holdings ********************************)

\* Mutated form: the zeros before a Hong Kong symbol are part of it.
NormalizeHKSymbolZeros(s) == IF s.market = "hk" THEN <<s.zeros, s.code, ".HK">> ELSE <<s.code>>

\* A Hong Kong symbol may be written with zeros before it and without the dot.
NormalizeHKSymbol(s) == IF s.market = "hk" THEN <<s.code, ".HK">> ELSE <<s.code>>

HoldingLabel(h) ==
    LET symbol == NormalizeHKSymbol(h.symbol)
    IN IF h.name # Nothing /\ h.asset_type = "stock" /\ (h.mic = "XHKG" \/ h.symbol.market = "hk") THEN <<h.name, symbol>>
       ELSE <<symbol>>

SortedHoldings(d) == SortSeq(d.holdings, LAMBDA a, b : a.value > b.value)
TotalUsd(d) == TotalOf([i \in DOMAIN d.holdings |-> d.holdings[i].value])

HoldingRows(d) ==
    LET sorted == SortedHoldings(d)
    IN [i \in DOMAIN sorted |->
          LET h == sorted[i]
          IN [label |-> HoldingLabel(h), value |-> h.value, opens |-> d.paid,
              cost |-> IF Falsy(h.avg_price) \/ h.avg_price < 0 THEN Nothing ELSE Currency(h.avg_price, Either(h.quote, "USD")),
              share |-> IF TotalUsd(d) > 0 THEN (10000 * h.value) \div TotalUsd(d) ELSE Nothing,
              worth |-> Currency(Either(h.value_quote, h.value), Either(h.quote, "USD")),
              bias |-> IF d.paid THEN h.bias ELSE Nothing]]

Tier(d) == IF d.paid THEN "paid" ELSE "preview"

\* Mutated form: a finished report of another tier silences the warning.
DiagnoseDotAny(d) ==
    LET ready == {r \in d.reports : r.tier = Tier(d) /\ r.status = "ready"}
    IN ready # {} /\ \A r \in d.reports : r.is_active => r.status # "ready"

\* The warning: there is a finished report of the user's tier, and none of these holdings.
DiagnoseDot(d) ==
    LET ready == {r \in d.reports : r.tier = Tier(d) /\ r.status = "ready"}
    IN ready # {} /\ \A r \in ready : ~r.is_active

\* Where the button leads: to a report, to the wait for it, or first to a request of one.
Diagnose(d) ==
    LET Active(tier) == {r \in d.reports : r.is_active /\ r.tier = tier}
        Status(tier) == {r.status : r \in Active(tier)}
    IN IF ~d.paid THEN [opens |-> "preview", posts |-> Status("preview") \cap {"ready", "processing"} = {}]
       ELSE IF Status("paid") = {"ready"} THEN [opens |-> "report", posts |-> FALSE]
       ELSE [opens |-> "processing-paid", posts |-> Status("paid") # {"processing"}]

AssetsScreen(d) ==
    IF d.query = "loading" THEN [state |-> "loading"]
    ELSE IF d.query = "error" THEN [state |-> "empty", opens |-> "upload"]
    ELSE [state |-> "assets", netWorth |-> NetWorth(d), health |-> AssetsSpotlight(d), dot |-> DiagnoseDot(d), diagnose |-> Diagnose(d)]

\* What is bought or bound to the subscription is hidden from a free user, and a card offers it.
LockedCard(d) == ~d.paid

(*************************** The brief of an asset *************************)

\* Mutated form: without a session there is nothing to wait for.
ShouldShowAssetBriefLoadingSignedOut(q) == q.hasAssetKey /\ (q.authLoading \/ q.isFetching \/ q.isPending \/ ~q.isFetched)

ShouldShowAssetBriefLoading(q) ==
    q.hasAssetKey /\ (q.authLoading \/ ~q.hasAccessToken \/ q.isFetching \/ q.isPending \/ ~q.isFetched)

\* What a query makes of an answer: a refused session is cleared, what is not found is no data, any other refusal fails.
BriefQuery(resp) == [data |-> resp = 200, failed |-> resp \notin {Nothing, 200, 401, 404}, signsOut |-> resp = 401]

\* A brief that failed reads as one there is not.
BriefScreen(q) == IF ShouldShowAssetBriefLoading(q) THEN "loading" ELSE IF ~BriefQuery(q.resp).data THEN "empty" ELSE "brief"

\* Mutated form: the price that ends the plan is not drawn.
BriefLinesOpen(b) == {b.current_price, b.entry_zone.low, b.entry_zone.high}

BriefLines(b) == {b.current_price, b.entry_zone.low, b.entry_zone.high, b.invalidation}

PriceCard(b) == Currency(b.current_price, b.unit)
TechnicalCards(b) ==
    [trend |-> ResolveText("trendState", b.trend, b), strength |-> ResolveText("trendStrength", b.strength, b),
     levels |-> [w \in {"ma20", "ma50", "ma200", "bb-upper", "bb-lower"} |-> Currency(b.levels[w], b.unit)]]
EntryCard(b) == <<Currency(b.entry_zone.low, b.unit), Currency(b.entry_zone.high, b.unit)>>
InvalidationCard(b) == Currency(b.invalidation, b.unit)
ChangeCards(b) == [i \in DOMAIN b.changes |-> SignedPercent(b.changes[i])]
FitCard(b) == [weight |-> FormatPercent(IF b.is_held THEN b.weight ELSE 0, 0), risk |-> ToneForRiskFlag(b.risk_flag)]
BriefLabels(b) ==
    {ResolveText("actionBias", b.action_bias, b), ResolveText("summarySignal", b.signal, b), ResolveText("entryBasis", b.basis, b),
     ResolveText("invalidation", b.reason, b), TechnicalCards(b).trend, TechnicalCards(b).strength,
     ResolveText("role", b.role, b), ResolveText("concentration", b.impact, b), ResolveText("riskFlag", b.risk_flag, b)}

\* The plans and the insights of the asset, and where their buttons lead.
RelatedPlans(b) ==
    [i \in DOMAIN b.plans |-> [name |-> StrategyDisplayName(b.plans[i].strategy_id, b), priority |-> BriefSeverityLabel(b.plans[i].priority, b),
                               tone |-> ToneForSeverity(Either(b.plans[i].priority, "")), opens |-> <<"strategy", b.plans[i].plan_id>>]]
OpenRelated(insight) == IF insight.type = "market_alpha" THEN <<"insight-detail", insight.id>> ELSE <<"quick-update", insight.id>>
RelatedInsights(b) ==
    [i \in DOMAIN b.insights |-> [name |-> ResolveText("type", b.insights[i].type, b), severity |-> BriefSeverityLabel(b.insights[i].severity, b),
                                  opens |-> OpenRelated(b.insights[i])]]
BriefChart(b) == IF b.candles < 2 THEN {} ELSE BriefLines(b)

\* Candles of four hours for crypto, three weeks of them; of a day for the rest, four months.
ChartIntervalForAsset(type) == IF type = "crypto" THEN "4h" ELSE "1d"
ChartDays(type) == IF ChartIntervalForAsset(type) = "4h" THEN 21 ELSE 120

\* The lists of the market regime: the badge of a leader is green and that of a laggard red, whatever the change.
RegimeList(assets, tone) == [i \in DOMAIN assets |-> [badge |-> SignedPercent(assets[i]), color |-> ToneColor(tone)]]
RegimeQuery(resp) == BriefQuery(resp)
RegimeScreen(r) ==
    IF r.resp = Nothing THEN [state |-> "loading"]
    ELSE IF ~RegimeQuery(r.resp).data THEN [state |-> "unavailable"]
    ELSE [state |-> "regime", tone |-> ToneForRegime(r.regime),
          labels |-> {ResolveText("regime", r.regime, r), ResolveText("trendStrength", r.strength, r)}
                     \cup {ResolveText("driver", w, r) : w \in r.drivers} \cup {RegimeDriver(w, r) : w \in r.drivers}
                     \cup {ResolveText("semantic", w, r) : w \in r.impact \cup r.actions},
          leaders |-> RegimeList(r.leaders, "low"), laggards |-> RegimeList(r.laggards, "high")]

(******************************** The data *********************************)

\* An amount, in a unit that is not mistaken for a part of the number.
AmountData(d) == d.value \in Int /\ NormalizeMoneyUnit(d.unit) \notin {"#", "units", "K", "M", "B"}

\* Scores and volatilities that may be missing, and lists that say one severity of a risk.
ReportData(d) ==
    LET risks == RisksShown(d)
    IN /\ {d.header, d.fixed, d.headerVolatility, d.fixedVolatility, d.preview} \subseteq Int \cup {Nothing}
       /\ d.paid \in BOOLEAN
       /\ DOMAIN risks = 1..Len(risks) /\ Len(risks) \in Nat
       /\ \A i, j \in DOMAIN risks : risks[i].risk_id = risks[j].risk_id => risks[i].severity = risks[j].severity

\* The active report of a tier is one.
RowData(d) ==
    /\ d.paid \in BOOLEAN
    /\ \A r, s \in d.reports : r.is_active /\ s.is_active /\ r.tier = s.tier => r = s

\* The query library sets its flags together: no answer before the first one, no request while the query is disabled.
BriefData(q) ==
    /\ q.resp \in {Nothing, 200, 401, 404, 500}
    /\ q.isFetched = (q.resp # Nothing)
    /\ ~q.isFetched => q.isPending
    /\ q.resp \in {200, 404} => ~q.isPending
    /\ q.resp = 401 => ~q.hasAccessToken       \* the session was cleared
    /\ q.isFetching => q.hasAccessToken /\ q.hasAssetKey /\ ~q.authLoading

(******************************** Properties *******************************)

Reads(text) ==
    LET at == CHOOSE i \in DOMAIN text.parts : text.parts[i] = "#"
        suffix == IF at < Len(text.parts) /\ text.parts[at + 1] \in {"K", "M", "B"} THEN text.parts[at + 1] ELSE "units"
    IN [value |-> text.digits * DigitStep(suffix, text.places), step |-> DigitStep(suffix, text.places),
        units |-> Cardinality({i \in DOMAIN text.parts : text.parts[i] \notin {"#", suffix}})]

(* An amount can be read back from its text: with the suffix that follows the *)
(* digits, and at the precision of the text, it is the amount, with its sign  *)
(* and one unit. The three ways to write an amount differ in precision alone. *)
AmountsReadBack ==
    Drawn("amount") =>
        \A text \in {Currency(shown.value, shown.unit), CompactCurrency(shown.value, shown.unit), PortfolioTotal(shown.value, shown.unit)} :
            LET read == Reads(text)
            IN /\ Abs(read.value - shown.value) <= (read.step + 1) \div 2
               /\ (read.value < 0) = (shown.value < 0)
               /\ read.units = 1

ColorOf == [critical |-> "danger", warning |-> "warning", stable |-> "success", excellent |-> "accent"]
Screens == {s \in {ReportScreen(shown), PreviewScreen(shown), ArchivedScreen(shown)} : s.state = "report"}

(* A status that is derived from the score names the arc of the gauge that    *)
(* the needle points at, on every screen and at the boundaries; the bar of    *)
(* the volatility is red exactly when it is called high, and never warns of   *)
(* one called low.                                                            *)
BadgeAgreesWithGauge ==
    Drawn("report") =>
        \A s \in {screen.health : screen \in Screens} \cup {AssetsSpotlight(shown)} :
            /\ shown.status = Nothing /\ s.score # Nothing /\ ~s.locked => s.gauge = ColorOf[s.status]
            /\ s.score = Nothing /\ shown.status = Nothing => s.status = Nothing
            /\ (s.level = "high") = (s.bar = "danger")
            /\ s.level = "low" => s.bar = "success"
            /\ s.number = Nothing => s.filled = 0

(* The same report is as healthy and as much worth on every screen: when its  *)
(* header and its fixed metrics do not contradict each other, the preview,    *)
(* the report and the archived report show the same card, and the tab of the  *)
(* assets does too when the portfolio has the metrics. A paid report has the  *)
(* volatility in its header.                                                  *)
TiersAgree ==
    Drawn("report") =>
        LET Agree(v, w) == v = w \/ Nothing \in {v, w}
        IN Agree(shown.header, shown.fixed) /\ shown.headerVolatility # Nothing /\ Agree(shown.headerVolatility, shown.fixedVolatility) =>
             \A s, r \in Screens :
                /\ s.health = r.health /\ s.netWorth = r.netWorth
                /\ shown.fixed # Nothing /\ shown.fixedVolatility # Nothing =>
                     s.health = AssetsScreen(shown).health /\ s.netWorth = AssetsScreen(shown).netWorth

(* The warning beside the button and the button say the same: the warning is  *)
(* on exactly when the user has a finished report of the tier and pressing    *)
(* the button would not open one of the present holdings.                     *)
DotAgreesWithDiagnose ==
    Drawn("reports") =>
        LET leads == Diagnose(shown)
            finished == ~leads.posts /\ \E r \in shown.reports : r.is_active /\ r.tier = Tier(shown) /\ r.status = "ready"
        IN DiagnoseDot(shown) = (~finished /\ \E r \in shown.reports : r.tier = Tier(shown) /\ r.status = "ready")

(* The legend explains the ring: the arcs of a colour are as long as the      *)
(* amounts with that colour in the legend, no two words share a colour, and   *)
(* the amounts of the screens read the same up to their precision.            *)
LegendsAgree ==
    Drawn("report") =>
        LET arcs == AllocationArcs(shown)
            Sum(s, color, Length(_)) == TotalOf([i \in DOMAIN s |-> IF s[i].color = color THEN Length(i) ELSE 0])
        IN \A s, r \in Screens :
             LET rows == s.allocation
             IN /\ \A color \in {rows[i].color : i \in DOMAIN rows} :
                      Sum(arcs, color, LAMBDA i : arcs[i].length) = Sum(rows, color, LAMBDA i : Greatest({0, ValueOf(shown.parts[i])}))
                /\ \A i, j \in DOMAIN rows : rows[i].label # rows[j].label => rows[i].color # rows[j].color
                /\ \A i \in DOMAIN rows :
                      LET a == Reads(rows[i].amount) b == Reads(r.allocation[i].amount)
                      IN 2 * Abs(a.value - b.value) <= a.step + b.step

(* No screen shows a key of the dictionary: a word the dictionary has is      *)
(* shown in the language of the user, or in English while it lacks it, and    *)
(* another one as it came or as the word for unknown.                         *)
LabelsAreWords ==
    /\ Drawn("word") =>
         LET label == Label(shown.family, shown.w, shown)
         IN /\ ~Untranslated(label)
            /\ shown.w \in Dictionary[shown.family] =>
                  label = [text |-> <<shown.family, shown.w>>, language |-> IF shown.missing THEN "en" ELSE shown.language]
    /\ Drawn("asset") => \A text \in BriefLabels(shown) \cup {RelatedPlans(shown)[i].priority : i \in DOMAIN shown.plans}
                                     \cup {RelatedInsights(shown)[i].name : i \in DOMAIN shown.insights} : ~Untranslated(text)
    /\ Drawn("regime") /\ RegimeScreen(shown).state = "regime" => \A text \in RegimeScreen(shown).labels : ~Untranslated(text)

(* The language that was chosen is the language after the next start.         *)
LocaleSurvives == Drawn("locale") /\ shown.stored # Nothing => Hydrate(shown.device, shown.stored) = shown.stored

(* A plan without a priority wears the severity of a risk that is shown on    *)
(* the same screen and that it is linked to, and no badge only when there is  *)
(* none; its archived card wears the same.                                    *)
BorrowedBadges ==
    Drawn("report") /\ ReportScreen(shown).state = "report" =>
        LET risks == RisksShown(shown)
            severities(plan) == {risks[j].severity : j \in {j \in DOMAIN risks : risks[j].risk_id = plan.linked_risk_id}}
        IN \A i \in DOMAIN shown.plans :
              LET plan == shown.plans[i] badge == ReportScreen(shown).plans[i].badge
              IN /\ plan.priority # Nothing => badge = plan.priority
                 /\ plan.priority = Nothing /\ severities(plan) # {} => badge \in severities(plan)
                 /\ badge = Nothing => severities(plan) \subseteq {Nothing}
                 /\ ArchivedScreen(shown).plans[i].badge = badge

(* The list of the holdings: the largest first, each once, shares that make a *)
(* whole, and one label for the spellings of a Hong Kong symbol. A free user  *)
(* can open none of them and sees no advice.                                  *)
HoldingsInOrder ==
    Drawn("holdings") =>
        LET rows == HoldingRows(shown)
            Count(s, v) == Cardinality({i \in DOMAIN s : s[i].value = v})
        IN /\ \A i \in DOMAIN rows :
                 /\ i > 1 => rows[i].value <= rows[i - 1].value
                 /\ Count(rows, rows[i].value) = Count(shown.holdings, rows[i].value)
                 /\ LockedCard(shown) => ~rows[i].opens /\ rows[i].bias = Nothing
           /\ TotalUsd(shown) > 0 => 10000 - TotalOf([i \in DOMAIN rows |-> rows[i].share]) \in 0..Len(rows)
           /\ \A i, j \in DOMAIN shown.holdings :
                 LET a == shown.holdings[i] b == shown.holdings[j]
                 IN a.symbol.market = b.symbol.market /\ a.symbol.code = b.symbol.code /\ a.name = b.name /\ a.asset_type = b.asset_type
                       /\ a.mic = b.mic => HoldingLabel(a) = HoldingLabel(b)

(* The brief says that there is nothing only when a request of the session    *)
(* has ended without a brief: not while the session is read, once a refusal   *)
(* has cleared it, nor while an answer is awaited.                            *)
NoFalseEmpty ==
    Drawn("brief") /\ BriefScreen(shown) = "empty" /\ shown.hasAssetKey =>
        /\ shown.hasAccessToken /\ ~shown.authLoading
        /\ shown.isFetched /\ ~shown.isFetching /\ shown.resp \in {404, 500}

(* Every price of the plan that a card quotes is a line of the chart, and the *)
(* chart has no line that no card quotes.                                     *)
LinesAreQuoted ==
    Drawn("asset") /\ BriefChart(shown) # {} =>
        {Currency(v, shown.unit) : v \in BriefChart(shown)} =
            {PriceCard(shown), InvalidationCard(shown)} \cup {EntryCard(shown)[i] : i \in 1..2}
=============================================================================
