------------------------------ MODULE StrategyPlan -----------------------------
(* The strategy screen: the lines of the chart, the introduction, the rules   *)
(* and the advanced list, each made from the parameters of a plan on a path   *)
(* of its own. A text is the set of figures it quotes.                        *)
EXTENDS Figures, TLC

(***************************** The parameters *****************************)

\* A parameter that is not there is Nothing.
Has(p, k) == k \in DOMAIN p /\ p[k] # Nothing
Num(p, k) == IF Has(p, k) THEN ParseNumber(p[k]) ELSE Nothing
Str(p, k) == IF Has(p, k) THEN p[k] ELSE Nothing     \* null stands for the empty text too
List(p, k) == IF Has(p, k) THEN p[k] ELSE <<>>
ByNumber(s) == SortSeq(s, LAMBDA a, b : a.number < b.number)
Tiers(max) == 1..Clamp(max, 1, 4)

\* A candle with a field that is missing or cannot be read is dropped.
BuildChartCandles(series) == SelectSeq(series, LAMBDA close : ParseNumber(close) # Nothing)
CurrentPrice(candles) == IF candles = <<>> THEN Nothing ELSE candles[Len(candles)]

StopLossData(p) ==
    LET d == [price |-> Num(p, "stop_loss_price"), support |-> Num(p, "support_level"),
              pct |-> Num(p, "stop_loss_pct")]
    IN IF d.price = Nothing /\ d.support = Nothing THEN Nothing ELSE d

TakeProfitLayers(p) ==
    LET raw == List(p, "layers")
        layers == [i \in DOMAIN raw |-> [number |-> i, target |-> Num(raw[i], "target_price"),
                      sell |-> Either(Num(raw[i], "sell_percentage"), Num(raw[i], "sell_pct")),
                      profit |-> Num(raw[i], "expected_profit_usd")]]
    IN SelectSeq(layers, LAMBDA l : l.target # Nothing \/ l.sell # Nothing)

PyramidingAdditions(p) ==
    LET raw == List(p, "additions")
        listed == SelectSeq([i \in DOMAIN raw |->
                      [number |-> Either(Num(raw[i], "addition_number"), i),
                       trigger |-> Num(raw[i], "trigger_profit_pct"),
                       amount |-> Num(raw[i], "addition_amount_usd")]],
                      LAMBDA a : a.trigger # Nothing \/ a.amount # Nothing)
        step == Num(p, "profit_step_pct")
        max == Num(p, "max_additions")
        base == Num(p, "base_addition_usd")
    IN IF listed # <<>> THEN ByNumber(listed)
       ELSE IF Falsy(step) \/ Falsy(max) \/ Falsy(base) THEN <<>>
       ELSE [n \in Tiers(max) |-> [number |-> n, trigger |-> step * n,
                                   amount |-> (base * 12^(n - 1)) \div 10^(n - 1)]]

\* Mutated form: the first tier is at the current price.
LadderOrdersFromZero(p, candles) ==
    LET step == Num(p, "price_step_pct")
        price == CurrentPrice(candles)
    IN IF Falsy(step) \/ Falsy(Num(p, "max_safety_orders")) \/ Falsy(price) THEN <<>>
       ELSE [n \in Tiers(Num(p, "max_safety_orders")) |->
                [number |-> n, price |-> (price * (One - step * (n - 1))) \div One, amount |-> 40]]

LadderOrders(p, candles) ==
    LET raw == List(p, "safety_orders")
        listed == SelectSeq([i \in DOMAIN raw |->
                      [number |-> Either(Num(raw[i], "order_number"), i),
                       price |-> Num(raw[i], "trigger_price"),
                       amount |-> Num(raw[i], "order_amount_usd")]],
                      LAMBDA o : ~Falsy(o.price) \/ ~Falsy(o.amount))
        step == Num(p, "price_step_pct")
        max == Num(p, "max_safety_orders")
        base == Num(p, "safety_order_base_usd")
        multiplier == Either(Num(p, "order_multiplier"), 1)
        price == CurrentPrice(candles)
    IN IF listed # <<>> THEN ByNumber(listed)
       ELSE IF Falsy(step) \/ Falsy(max) \/ Falsy(base) \/ Falsy(price) THEN <<>>
       ELSE [n \in Tiers(max) |-> [number |-> n, price |-> (price * (One - step * n)) \div One,
                                   amount |-> base * multiplier^(n - 1)]]

TrailingStop(p) ==
    LET activation == Num(p, "activation_price")
        pct == Either(Num(p, "trailing_stop_pct"), Num(p, "callback_rate"))
        initial == Either(Num(p, "initial_trailing_stop_price"),
                          IF activation # Nothing /\ pct # Nothing
                              THEN (activation * (One - pct)) \div One ELSE Nothing)
    IN IF Nothing \in {activation, initial} THEN Nothing
       ELSE [activation |-> activation, stop |-> initial, pct |-> pct]

(************************ The calendar of purchases ***********************)

\* A date counts its month from the January of the first year, a leap year.
MonthLength(m) == <<31, IF m < 12 THEN 29 ELSE 28, 31, 30, 31, 30, 31, 31, 30, 31, 30, 31>>[(m % 12) + 1]
Days == {"daily", "weekly", "biweekly"}
Stride == [daily |-> 1, weekly |-> 7, biweekly |-> 14]
\* Mutated form: every month has thirty days.
CarriedThirty(m, d) == IF d > 30 THEN [m |-> m + 1, d |-> d - 30] ELSE [m |-> m, d |-> d]

Carried(m, d) == IF d > MonthLength(m) THEN [m |-> m + 1, d |-> d - MonthLength(m)] ELSE [m |-> m, d |-> d]
AddDays(date, n) == Carried(date.m, date.d + n)

AddMonths(date) == Carried(date.m + 1, date.d)

BuildDcaSchedule(next, frequency) ==
    IF next \in {Nothing, Garbage} \/ frequency = Nothing THEN <<>>
    ELSE IF frequency \notin Days \cup {"monthly"} THEN <<next>>
    ELSE LET After(date) == IF frequency \in Days THEN AddDays(date, Stride[frequency]) ELSE AddMonths(date)
         IN <<next, After(next), After(After(next)), After(After(After(next)))>>

(******************************* The rules ********************************)

Money(v) == IF v = Nothing THEN {} ELSE {<<"money", v>>}
Percent(v) == IF v = Nothing THEN {} ELSE {<<"percent", NormalizePercent(v)>>}
Text(v) == IF v = Nothing THEN {} ELSE {<<"text", v>>}
Stamp(date) == IF date = Nothing THEN {} ELSE {<<"date", date>>}
NonZero(v) == IF Falsy(v) THEN Nothing ELSE v
Rule(id, quotes) == <<[id |-> id, quotes |-> quotes]>>
Each(s, Quotes(_)) == [i \in DOMAIN s |-> [id |-> s[i].number, quotes |-> Quotes(s[i])]]

Date(p) == LET next == Str(p, "next_execution_at") IN IF next = Garbage THEN Nothing ELSE next

RulesS01(p) ==
    LET d == StopLossData(p)
    IN IF d = Nothing THEN <<>>
       ELSE When(d.price # Nothing, Rule("stop", Money(d.price)))
            \o When(d.pct # Nothing, Rule("distance", Percent(d.pct)))
            \o When(d.support # Nothing, Rule("support", Money(d.support)))

RulesS02(p, candles) ==
    LET orders == SelectSeq(Take(LadderOrders(p, candles), 4), LAMBDA o : ~Falsy(o.price) \/ ~Falsy(o.amount))
        step == Num(p, "price_step_pct")
        base == Num(p, "safety_order_base_usd")
        multiplier == Num(p, "order_multiplier")
    IN Each(orders, LAMBDA o : Money(NonZero(o.price)) \cup Money(NonZero(o.amount)))
       \o When(step # Nothing, Rule("spacing", Percent(step)))
       \o When(base # Nothing \/ multiplier # Nothing, Rule("sizing", Money(base) \cup Text(multiplier)))

RulesS03(p) ==
    LET stop == TrailingStop(p)
    IN IF stop = Nothing THEN <<>>
       ELSE Rule("activation", Money(stop.activation))
            \o When(stop.pct # Nothing, Rule("trail", Percent(stop.pct)))
            \o Rule("initial", Money(stop.stop))

RulesS04(p) ==
    Each(SelectSeq(Take(TakeProfitLayers(p), 4), LAMBDA l : ~Falsy(l.target) \/ l.sell # Nothing),
         LAMBDA l : Money(NonZero(l.target)) \cup Percent(l.sell) \cup Money(l.profit))

RulesS05(p) ==
    When(Num(p, "amount") # Nothing, Rule("cadence", Money(Num(p, "amount")) \cup Text(Str(p, "frequency"))))
    \o When(Date(p) # Nothing, Rule("next", Stamp(Date(p))))

RulesS09(p) ==
    LET added == SelectSeq(Take(PyramidingAdditions(p), 4), LAMBDA a : a.trigger # Nothing \/ a.amount # Nothing)
        sizing == Percent(Num(p, "profit_step_pct")) \cup Money(Num(p, "base_addition_usd"))
        max == Num(p, "max_additions")
    IN Each(added, LAMBDA a : Percent(a.trigger) \cup Money(NonZero(a.amount)))
       \o When(sizing # {} \/ max # Nothing,
               Rule("sizing", sizing \cup Text(IF max = Nothing THEN Nothing ELSE Clamp(max, 1, max))))

Pair(p, a, b) == Percent(Num(p, a)) \cup Percent(Num(p, b))

RulesS16(p) ==
    LET entry == Pair(p, "trigger_funding_rate", "trigger_basis_pct_max")
        current == Pair(p, "funding_rate_8h", "basis_pct")
    IN When(entry # {}, Rule("entry", entry))
       \o When(Num(p, "hedge_notional_usd") # Nothing, Rule("size", Money(Num(p, "hedge_notional_usd"))))
       \o When(Str(p, "futures_symbol") # Nothing, Rule("instrument", Text(Str(p, "futures_symbol"))))
       \o When(current # {}, Rule("current", current))

RulesS18(p, candles) ==
    LET regime == Text(Str(p, "trend_state")) \cup Text(Str(p, "trend_strength"))
        averages == Money(Either(Num(p, "current_price"), CurrentPrice(candles)))
                    \cup UNION {Money(Num(p, k)) : k \in {"ma_20", "ma_50", "ma_200"}}
    IN When(regime # {}, Rule("regime", regime))
       \o When(Str(p, "trend_action") # Nothing, Rule("action", Text(Str(p, "trend_action"))))
       \o When(averages # {}, Rule("averages", averages))

RulesS22(p) ==
    LET weights == Take(List(p, "target_weights"), 4)
        threshold == Percent(Num(p, "rebalance_threshold_pct"))
        frequency == Text(Str(p, "rebalance_frequency"))
    IN When(weights # <<>>, Rule("targets", UNION {Percent(ParseNumber(weights[i])) : i \in DOMAIN weights}))
       \o When(threshold \cup frequency # {}, Rule("rebalance", threshold \cup frequency))
       \o When(Num(p, "vol_floor") # Nothing, Rule("floor", Percent(Num(p, "vol_floor"))))

Rules(plan, p, candles) ==
    CASE plan = "S01" -> RulesS01(p)
      [] plan = "S02" -> RulesS02(p, candles)
      [] plan = "S03" -> RulesS03(p)
      [] plan = "S04" -> RulesS04(p)
      [] plan = "S05" -> RulesS05(p)
      [] plan = "S09" -> RulesS09(p)
      [] plan = "S16" -> RulesS16(p)
      [] plan = "S18" -> RulesS18(p, candles)
      [] plan = "S22" -> RulesS22(p)
      [] OTHER -> <<>>

KeysOf == [S01 |-> {"stop_loss_price", "stop_loss_pct", "support_level"},
    S02 |-> {"safety_orders", "price_step_pct", "max_safety_orders", "safety_order_base_usd", "order_multiplier"},
    S03 |-> {"activation_price", "trailing_stop_pct", "callback_rate", "initial_trailing_stop_price"},
    S04 |-> {"layers"},
    S05 |-> {"amount", "frequency", "next_execution_at"},
    S09 |-> {"additions", "profit_step_pct", "max_additions", "base_addition_usd"},
    S16 |-> {"funding_rate_8h", "spot_price", "mark_price", "basis_pct", "holding_period_hours", "fee_pct",
             "hedge_notional_usd", "spot_amount", "futures_symbol", "trigger_funding_rate", "trigger_basis_pct_max"},
    S18 |-> {"trend_state", "trend_strength", "trend_action", "ma_short", "ma_medium", "ma_long",
             "current_price", "ma_20", "ma_50", "ma_200"},
    S22 |-> {"target_weights", "vol_floor", "rebalance_threshold_pct", "rebalance_frequency"}]

\* Mutated form: the keys of the fallback tiers are not marked.
UsedKeysListed(plan) ==
    IF plan \notin DOMAIN KeysOf THEN {} ELSE KeysOf[plan] \ {"profit_step_pct", "price_step_pct"}

UsedKeys(plan) == IF plan \notin DOMAIN KeysOf THEN {} ELSE KeysOf[plan]

(**************************** The introduction ****************************)

IntroS01(p) ==
    LET d == StopLossData(p)
    IN IF d = Nothing THEN <<>>
       ELSE When(d.price # Nothing, <<Money(d.price)>>) \o When(d.pct # Nothing, <<Percent(d.pct)>>)
            \o When(d.support # Nothing, <<Money(d.support)>>)

IntroS02(p, candles) ==
    LET orders == LadderOrders(p, candles)
        step == Num(p, "price_step_pct")
        multiplier == Num(p, "order_multiplier")
    IN <<{}>>
       \o When(orders # <<>>, <<Money(NonZero(orders[1].price)) \cup Money(NonZero(orders[1].amount))>>)
       \o When(step # Nothing \/ multiplier # Nothing, <<Percent(step) \cup Text(multiplier)>>)

IntroS03(p) ==
    LET stop == TrailingStop(p)
    IN IF stop = Nothing THEN <<>>
       ELSE <<{}, Money(stop.activation) \cup Percent(stop.pct), Money(stop.stop)>>

\* The first layer is looked at although there may be none: the render throws.
Throws(plan, p) == plan = "S04" /\ TakeProfitLayers(p) = <<>>

\* Mutated form: the last layer is announced as the first.
IntroS04Last(p) ==
    LET layers == TakeProfitLayers(p) IN <<{}, {}, Money(NonZero(layers[Len(layers)].target))>>

IntroS04(p) ==
    LET first == TakeProfitLayers(p)[1]
    IN <<{}, {}>> \o When(~Falsy(first.target) \/ first.sell # Nothing,
                          <<Money(NonZero(first.target)) \cup Percent(first.sell)>>)

IntroS05(p) ==
    <<{}>> \o When(Num(p, "amount") # Nothing, <<Money(Num(p, "amount")) \cup Text(Str(p, "frequency"))>>)
           \o When(Date(p) # Nothing, <<Stamp(Date(p))>>)

IntroS09(p) ==
    LET added == PyramidingAdditions(p)
    IN <<{}, {}>> \o When(added # <<>> /\ (added[1].trigger # Nothing \/ ~Falsy(added[1].amount)),
                          <<Percent(added[1].trigger) \cup Money(NonZero(added[1].amount))>>)

IntroS16(p) ==
    LET quotes == Pair(p, "trigger_funding_rate", "trigger_basis_pct_max") \cup Money(Num(p, "hedge_notional_usd"))
    IN <<{}, {}>> \o When(quotes # {}, <<quotes>>)

IntroS18(p) == <<{}, {}>> \o When(Str(p, "trend_action") # Nothing, <<Text(Str(p, "trend_action"))>>)

IntroS22(p) ==
    LET threshold == Num(p, "rebalance_threshold_pct")
    IN <<{}, {}>> \o When(threshold # Nothing, <<Percent(threshold) \cup Text(Str(p, "rebalance_frequency"))>>)

Paragraphs(plan, p, candles) ==
    CASE plan = "S01" -> IntroS01(p)
      [] plan = "S02" -> IntroS02(p, candles)
      [] plan = "S03" -> IntroS03(p)
      [] plan = "S04" -> IntroS04(p)
      [] plan = "S05" -> IntroS05(p)
      [] plan = "S09" -> IntroS09(p)
      [] plan = "S16" -> IntroS16(p)
      [] plan = "S18" -> IntroS18(p)
      [] plan = "S22" -> IntroS22(p)
      [] OTHER -> <<>>

\* Mutated form: nothing is said where the strategy has no text of its own.
IntroductionOwn(plan, p, candles, texts) == Take(Paragraphs(plan, p, candles), 3)

(* The rationale and the expected outcome stand in for an empty text.         *)
Introduction(plan, p, candles, texts) ==
    LET own == Paragraphs(plan, p, candles)
    IN Take(IF own # <<>> THEN own ELSE [i \in 1..texts |-> {}], 3)

(******************************* The chart ********************************)

Line(value, quotes) == <<[value |-> value, quotes |-> quotes]>>
Lines(s, Value(_), Quotes(_)) == [i \in DOMAIN s |-> [value |-> Value(s[i]), quotes |-> Quotes(s[i])]]

HasPriceChart(asset, candles) == asset \in {"crypto", "stock"} /\ Len(candles) > 1

LinesS01(p) ==
    LET d == StopLossData(p)
    IN IF d = Nothing THEN <<>>
       ELSE When(d.price # Nothing, Line(d.price, Money(d.price) \cup Percent(d.pct)))
            \o When(d.support # Nothing, Line(d.support, Money(d.support)))

\* Mutated form: the chart draws the tiers the rules leave out.
LinesS02All(p, candles) ==
    Lines(SelectSeq(LadderOrders(p, candles), LAMBDA o : ~Falsy(o.price)),
          LAMBDA o : o.price, LAMBDA o : Money(o.price) \cup Money(NonZero(o.amount)))

LinesS02(p, candles) ==
    Lines(SelectSeq(Take(LadderOrders(p, candles), 4), LAMBDA o : ~Falsy(o.price)),
          LAMBDA o : o.price, LAMBDA o : Money(o.price) \cup Money(NonZero(o.amount)))

\* The label of the trailing line quotes the percentage as it came.
LinesS03(p) ==
    LET stop == TrailingStop(p)
    IN IF stop = Nothing THEN <<>>
       ELSE Line(stop.activation, Money(stop.activation))
            \o Line(stop.stop, Money(stop.stop) \cup (IF stop.pct = Nothing THEN {} ELSE {<<"percent", stop.pct>>}))

LinesS04(p) ==
    Lines(SelectSeq(Take(TakeProfitLayers(p), 4), LAMBDA l : ~Falsy(l.target)),
          LAMBDA l : l.target, LAMBDA l : Money(l.target) \cup Percent(l.sell))

\* A line of an addition is drawn at the price its trigger stands for.
LinesS09(p, candles) ==
    LET price == CurrentPrice(candles)
    IN Lines(SelectSeq(Take(PyramidingAdditions(p), 4), LAMBDA a : ~Falsy(price) /\ a.trigger # Nothing),
             LAMBDA a : (price * (One + NormalizePercent(a.trigger))) \div One,
             LAMBDA a : Percent(NonZero(a.trigger)) \cup Money(NonZero(a.amount)))

TraceLines(plan, p, candles) ==
    CASE plan = "S01" -> LinesS01(p)
      [] plan = "S02" -> LinesS02(p, candles)
      [] plan = "S03" -> LinesS03(p)
      [] plan = "S04" -> LinesS04(p)
      [] plan = "S09" -> LinesS09(p, candles)
      [] OTHER -> <<>>

(******************************* The screen *******************************)

\* Which of the three requests run, before and after the plan is there.
Queries(loaded, asset) ==
    {"plan"} \cup (IF loaded /\ asset \in {"crypto", "stock"} THEN {"candles"} ELSE {})
             \cup (IF loaded /\ asset = "portfolio" THEN {"report"} ELSE {})

(* The parts of the screen: the chart with its lines, the calendar under it,  *)
(* the introduction, the allocation or the note on currencies, the rules and  *)
(* the advanced list, which is unfolded for good where there is no rule.      *)
Panel(d, candles) ==
    LET chart == HasPriceChart(d.asset, candles)
    IN [lines |-> IF chart THEN TraceLines(d.plan, d.p, candles) ELSE <<>>,
        calendar |-> IF chart /\ d.plan = "S05"
                         THEN BuildDcaSchedule(Str(d.p, "next_execution_at"), Str(d.p, "frequency")) ELSE <<>>,
        intro |-> Introduction(d.plan, d.p, candles, d.texts)]

Aside(d) == IF d.asset = "portfolio" THEN "allocation" ELSE IF d.asset = "forex" THEN "note" ELSE "none"

Rulebook(d, candles) == IF ~d.loaded THEN <<>> ELSE Rules(d.plan, d.p, candles)

Advanced(d) == {k \in DOMAIN d.p : Has(d.p, k)} \ UsedKeys(d.plan)
AdvancedOpen(d, rules, toggled) == Advanced(d) # {} /\ (rules = <<>> \/ toggled)

\* A date of the calendar. A plan announces one, none, or what no date can be read from.
IsDate(date) == date \in [m : Nat, d : 1..31] /\ date.d <= MonthLength(date.m)
PlanData(d) == LET next == Str(d.p, "next_execution_at") IN next \in {Nothing, Garbage} \/ IsDate(next)

(****************************** Properties ********************************)

Quoted(texts) == UNION {texts[i].quotes : i \in DOMAIN texts}
Fractions(p) == \A k \in {"trailing_stop_pct", "callback_rate"} : Num(p, k) # Nothing => p[k] <= One

(* The chart and the rules are made apart from the same parameters: a line of *)
(* the chart quotes prices, amounts and percentages that the rules below it   *)
(* quote too, and is drawn at the price it quotes or at the gain it quotes.   *)
(* A trailing distance given in percent is left out: the chart quotes it raw. *)
ChartMatchesRules ==
    Drawn("plan") /\ Fractions(shown.p) /\ ~Throws(shown.plan, shown.p) =>
        LET Matches(lines, rules, price) ==
                \A i \in DOMAIN lines :
                   /\ lines[i].quotes \subseteq rules
                   /\ \/ <<"money", lines[i].value>> \in lines[i].quotes
                      \/ \E q \in {0} \cup {x[2] : x \in {y \in lines[i].quotes : y[1] = "percent"}} :
                            lines[i].value = (price * (One + q)) \div One
            On(candles) == Matches(Panel(shown, candles).lines, Quoted(Rulebook(shown, candles)), CurrentPrice(candles))
        IN On(BuildChartCandles(shown.series))

(* What the introduction announces is what the rules then say: no first tier, *)
(* layer or addition, percentage, cadence or date that the rules do not have. *)
IntroductionMatchesRules ==
    Drawn("plan") /\ shown.loaded /\ ~Throws(shown.plan, shown.p) =>
        LET Announced(intro) == UNION {intro[i] : i \in DOMAIN intro}
            On(candles) == Announced(Panel(shown, candles).intro) \subseteq Quoted(Rulebook(shown, candles))
        IN On(BuildChartCandles(shown.series))

(* The advanced list is the rest: rules, lines and calendar are made from the *)
(* keys that are marked as used, so no parameter is both explained by a rule  *)
(* and listed as an unexplained one.                                          *)
AdvancedIsTheRest ==
    Drawn("plan") /\ shown.loaded /\ ~Throws(shown.plan, shown.p) =>
        LET candles == BuildChartCandles(shown.series)
            used == [k \in DOMAIN shown.p \ Advanced(shown) |-> shown.p[k]]
        IN /\ Rules(shown.plan, used, candles) = Rulebook(shown, candles)
           /\ Panel([shown EXCEPT !.p = used], candles) = Panel(shown, candles)

(* A plan that the report explains is never a blank screen: there is a rule,  *)
(* an unfolded advanced entry or an introduction, whatever parameters came.   *)
PlanIsExplained ==
    Drawn("plan") /\ shown.loaded /\ shown.texts > 0 /\ ~Throws(shown.plan, shown.p) =>
        LET candles == BuildChartCandles(shown.series)
            rules == Rulebook(shown, candles)
        IN rules # <<>> \/ AdvancedOpen(shown, rules, FALSE) \/ Panel(shown, candles).intro # <<>>

(* Tiers the app makes up itself lead away from the price: a ladder starts    *)
(* below the current price and falls, additions start above it and rise, at   *)
(* most four of each, and the amounts do not shrink.                          *)
TiersLeadAway ==
    Drawn("plan") /\ List(shown.p, "safety_orders") = <<>> /\ List(shown.p, "additions") = <<>> =>
        LET candles == BuildChartCandles(shown.series)
            orders == LadderOrders(shown.p, candles)
            added == PyramidingAdditions(shown.p)
        IN /\ Len(orders) <= 4 /\ Len(added) <= 4
           /\ orders # <<>> => orders[1].price < CurrentPrice(candles)
           /\ \A i \in 2..Len(orders) : orders[i].price < orders[i - 1].price /\ orders[i].amount >= orders[i - 1].amount
           /\ \A i \in 2..Len(added) : added[i].trigger > added[i - 1].trigger /\ added[i].amount > added[i - 1].amount

(* The dates of the calendar come one after the other at the pace of the      *)
(* plan, from the one the rules announce, across the ends of months and of    *)
(* years. A monthly purchase keeps its day unless a month is too short for it.*)
ScheduleKeepsPace ==
    Drawn("plan") /\ shown.plan = "S05" =>
        LET Before(m, from) == IF m = from THEN 0 ELSE MonthLength(from) + IF m = from + 1 THEN 0 ELSE MonthLength(from + 1)
            Between(a, b) == Before(b.m, a.m) + b.d - a.d
            Paced(dates, frequency) ==
                /\ dates # <<>> => dates[1] = Date(shown.p)
                /\ \A i \in 2..Len(dates) :
                     LET days == Between(dates[i - 1], dates[i])
                     IN /\ frequency \in Days => days = Stride[frequency]
                        /\ frequency = "monthly" => days \in 28..31
                        /\ frequency = "monthly" /\ dates[1].d <= 28 => dates[i] = [m |-> dates[1].m + i - 1, d |-> dates[1].d]
        IN Paced(Panel(shown, BuildChartCandles(shown.series)).calendar, Str(shown.p, "frequency"))

(* The rules, the chart, the introduction, the tables, the calendar and the   *)
(* list of remaining parameters read one plan alike (strategy.tsx and         *)
(* strategyDetail.ts).                                                        *)
PlansReadAlike ==
    /\ ChartMatchesRules
    /\ IntroductionMatchesRules
    /\ AdvancedIsTheRest
    /\ PlanIsExplained
    /\ TiersLeadAway
    /\ ScheduleKeepsPace
=============================================================================
